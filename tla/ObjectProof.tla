---------------------------- MODULE ObjectProof ----------------------------
(***************************************************************************)
(* Proofs about the objects that tasks wait for, for every set of tasks,   *)
(* number of priorities and size: what the routines of wait.c do to the    *)
(* queue of an object and to the rest of the kernel, and with it that the  *)
(* calls of semaphore.c, eventflag.c, mempfix.c and dataqueue.c keep the   *)
(* invariant of TaskProof and their own, and that a data queue is a        *)
(* Channel.                                                                *)
(***************************************************************************)
EXTENDS SemaphoreCalls, EventflagCalls, MempfixCalls, DataqueueCalls, TaskProof

(* Iterate, for a step that depends on the round.                          *)
IteratesRound(g, top, S, x, f) ==
    /\ g \in [0 .. top -> S] /\ g[0] = x
    /\ \A i \in 1 .. top : g[i] = f[<<i, g[i - 1]>>]

LEMMA IterateRound ==
    ASSUME NEW top \in Nat, NEW S, NEW x \in S, NEW f \in [(1 .. top) \X S -> S]
    PROVE  \E g : IteratesRound(g, top, S, x, f)
<1> DEFINE T == (0 .. top) \X S
           step == [p \in T |-> IF p[1] < top THEN <<p[1] + 1, f[<<p[1] + 1, p[2]>>]>> ELSE p]
<1>1. <<0, x>> \in T OBVIOUS
<1>2. step \in [T -> T]
  <2>1. ASSUME NEW p \in T, p[1] < top PROVE <<p[1] + 1, f[<<p[1] + 1, p[2]>>]>> \in T
    <3>1. p[1] + 1 \in 1 .. top /\ p[2] \in S BY <2>1
    <3>2. <<p[1] + 1, p[2]>> \in (1 .. top) \X S BY <3>1
    <3>3. f[<<p[1] + 1, p[2]>>] \in S BY <3>2
    <3> QED BY <3>1, <3>3
  <2> QED BY <2>1
<1>3. ASSUME NEW n \in 0 .. top - 1, NEW s \in S
      PROVE  step[<<n, s>>] = <<n + 1, f[<<n + 1, s>>]>>
  <2>1. <<n, s>> \in T /\ n < top OBVIOUS
  <2> QED BY <2>1
<1> HIDE DEF T, step
<1>4. PICK h2 : Iterates(h2, top, T, <<0, x>>, step) BY <1>1, <1>2, Iterate
<1>5. /\ h2 \in [0 .. top -> T] /\ h2[0] = <<0, x>>
      /\ \A i \in 0 .. top - 1 : h2[i + 1] = step[h2[i]]
  BY <1>4 DEF Iterates
<1> DEFINE g == [i \in 0 .. top |-> h2[i][2]]
           P == {n \in 0 .. top : h2[n] = <<n, g[n]>>}
<1>6. \A n \in 0 .. top : h2[n][2] \in S /\ g[n] = h2[n][2] BY <1>5 DEF T
<1>7. 0 \in P BY <1>5, <1>6
<1>8. ASSUME NEW n \in 0 .. top - 1, n \in P PROVE n + 1 \in P
  <2>1. n \in 0 .. top /\ n + 1 \in 0 .. top /\ h2[n] = <<n, g[n]>> BY <1>8
  <2>2. h2[n + 1] = <<n + 1, f[<<n + 1, g[n]>>]>> BY <2>1, <1>3, <1>5, <1>6
  <2> QED BY <2>1, <2>2, <1>6
<1> HIDE DEF P
<1>9. \A n \in 0 .. top : n \in P BY <1>7, <1>8, Induct
<1>10. \A i \in 1 .. top : g[i] = f[<<i, g[i - 1]>>]
  <2> TAKE i \in 1 .. top
  <2>1. i - 1 \in 0 .. top - 1 /\ i - 1 \in 0 .. top /\ i \in 0 .. top /\ (i - 1) + 1 = i
    OBVIOUS
  <2>2. h2[i - 1] = <<i - 1, g[i - 1]>> /\ g[i - 1] \in S BY <2>1, <1>6, <1>9 DEF P
  <2>3. h2[i] = <<i, f[<<i, g[i - 1]>>]>>
    <3>1. h2[(i - 1) + 1] = step[h2[i - 1]] BY <2>1, <1>5
    <3> QED BY <3>1, <2>1, <2>2, <1>3
  <2> QED BY <2>1, <2>3, <1>6
<1>11. g \in [0 .. top -> S] BY <1>6
<1>12. g[0] = x BY <1>5
<1> HIDE DEF g
<1> QED BY <1>10, <1>11, <1>12 DEF IteratesRound

-----------------------------------------------------------------------------
(* A wait queue that no task joins stays empty.                            *)
LEMMA StaysEmpty ==
    ASSUME NEW j, NEW n, Follows(j, n), NEW w \in Wobj, j.wque[w] = << >>
    PROVE  n.wque[w] = << >>
<1>1. n \in KernelState BY Known DEF Follows
<1>2. n.wque[w] \in Seq(Task) BY <1>1 DEF KernelState
<1>3. \A u \in Task : ~Linked(n.wque[w], u) BY DEF Follows, Linked
<1>4. ASSUME n.wque[w] # << >> PROVE FALSE
  <2>1. 1 \in 1 .. Len(n.wque[w]) /\ n.wque[w][1] \in Task BY <1>2, <1>4
  <2> QED BY <2>1, <1>3 DEF Linked
<1> QED BY <1>4

LEMMA TasksSafe == KernelInv => TasksOK
BY InvTasks DEF KernelInv

(* The caller, and the calls that wait for object w, as long as no task    *)
(* holds a mutex.                                                          *)
LEMMA Caller ==
    ASSUME KernelInv
    PROVE  /\ CHECK_TSKCTX_UNL => k.runtsk \in Task
           /\ MayWait => k.nest = 0 /\ k.dspflg /\ k.runtsk \in Task /\ ~k.raster[k.runtsk]
BY InvCaller DEF KernelInv

LEMMA NotQueued ==
    ASSUME KernelInv, k.runtsk \in Task, NEW w \in Wobj
    PROVE  ~Linked(k.wque[w], k.runtsk)
BY InvNotQueued DEF KernelInv

LEMMA WaitCalls ==
    ASSUME KernelInv, MayWait, NEW w \in Wobj, NEW factor, wfactor[w] = factor,
           \/ k' = dispatch(wobj_make_wait(waiting_for(factor), w))
           \/ k' = dispatch(wobj_make_wait_tmout(waiting_for(factor), w))
    PROVE  KernelInv' /\ Joins(k, k', w, k.runtsk)
BY InvWaitCalls DEF KernelInv, NoneHeld

-----------------------------------------------------------------------------
(* kernel/semaphore.c: the invariant of the tasks and that of the          *)
(* semaphores.                                                             *)
SemInv == KernelInv /\ semcnt \in [Sem -> Nat] /\ SemOK

LEMMA SemInvInit == SemAssumption /\ SemInit => SemInv
<1> SUFFICES ASSUME SemAssumption, SemInit PROVE SemInv OBVIOUS
<1>1. KernelInv BY InvInit DEF SemInit, KernelInv
<1>2. semcnt = isemcnt /\ isemcnt \in [Sem -> Nat] /\ maxsem \in [Sem -> Nat \ {0}]
      /\ Sem \subseteq Wobj /\ \A s \in Sem : isemcnt[s] <= maxsem[s]
  BY DEF SemInit, SemAssumption
<1>3. \A w \in Wobj : k.wque[w] = << >> BY DEF SemInit, TaskInit, initialize_task
<1>4. SemOK BY <1>2, <1>3 DEF SemOK, queue_empty
<1> QED BY <1>1, <1>2, <1>4 DEF SemInv

\* the queues of the semaphores but s are as they were
OtherQueues(s) == \A v \in Wobj \ {s} : k'.wque[v] = k.wque[v]

LEMMA SemCalls ==
    ASSUME SemAssumption, SemInv, NEW s \in Sem, SemCall(s)
    PROVE  SemInv'
<1>1. s \in Wobj /\ wfactor[s] = "SEM" BY DEF SemAssumption
<1>2. /\ semcnt \in [Sem -> Nat] /\ semcnt[s] \in 0 .. maxsem[s] /\ maxsem[s] \in Nat
      /\ semcnt[s] > 0 => k.wque[s] = << >>
      /\ isemcnt[s] \in 0 .. maxsem[s]
  BY DEF SemAssumption, SemInv, SemOK, queue_empty
<1>3. ASSUME KernelInv', OtherQueues(s),
             NEW c \in 0 .. maxsem[s], semcnt' = [semcnt EXCEPT ![s] = c],
             c > 0 => k'.wque[s] = << >>
      PROVE  SemInv'
  <2>1. c \in Nat BY <1>2
  <2>2. semcnt' \in [Sem -> Nat] BY <2>1, <1>2, <1>3
  <2>3. semcnt'[s] = c /\ \A u \in Sem \ {s} : semcnt'[u] = semcnt[u] BY <1>2, <1>3
  <2>4. ASSUME NEW u \in Sem
        PROVE  semcnt'[u] \in 0 .. maxsem[u] /\ (semcnt'[u] > 0 => k'.wque[u] = << >>)
    <3>1. CASE u = s BY <3>1, <2>3, <1>3
    <3>2. CASE u # s
      <4>1. u \in Wobj \ {s} BY <3>2 DEF SemAssumption
      <4> QED BY <4>1, <3>2, <2>3, <1>3 DEF OtherQueues, SemInv, SemOK, queue_empty
    <3> QED BY <3>1, <3>2
  <2> QED BY <2>2, <2>4, <1>3 DEF SemInv, SemOK, queue_empty
<1>4. semcnt = [semcnt EXCEPT ![s] = semcnt[s]] BY <1>2
<1>5. CASE sig_sem(s)
  <2>1. CASE ~queue_empty(k.wque[s])
    <3>1. /\ k.wque[s] # << >> /\ semcnt' = semcnt
          /\ k' = dispatch(wait_complete([k EXCEPT !.wque[s] = Tail(@)], Head(k.wque[s])))
      BY <2>1, <1>5 DEF sig_sem, queue_empty
    <3>2. Inv(k') /\ k'.lastmtx = k.lastmtx /\ \A v \in Wobj \ {s} : k'.wque[v] = k.wque[v]
      BY <3>1, <1>1, ReleaseHead, ZenonT(60) DEF SemInv, KernelInv
    <3>3. KernelInv' BY <3>2 DEF SemInv, KernelInv, NoneHeld
    <3>5. OtherQueues(s) BY <3>2 DEF OtherQueues
    <3>4. ~(semcnt[s] > 0) BY <3>1, <1>2
    <3> QED BY <3>1, <3>3, <3>4, <3>5, <1>2, <1>3, <1>4
  <2>2. CASE queue_empty(k.wque[s])
    <3>1. /\ k.wque[s] = << >> /\ semcnt[s] < maxsem[s] /\ k' = k
          /\ semcnt' = [semcnt EXCEPT ![s] = semcnt[s] + 1]
      BY <2>2, <1>5 DEF sig_sem, queue_empty
    <3>2. KernelInv' /\ OtherQueues(s) BY <3>1 DEF SemInv, KernelInv, OtherQueues
    <3>3. semcnt[s] + 1 \in 0 .. maxsem[s] BY <3>1, <1>2
    <3> QED BY <3>1, <3>2, <3>3, <1>3
  <2> QED BY <2>1, <2>2
<1>6. CASE take_resource(s)
  <2>1. k' = k /\ semcnt[s] >= 1 /\ semcnt' = [semcnt EXCEPT ![s] = semcnt[s] - 1]
    BY <1>6 DEF take_resource
  <2>2. KernelInv' /\ OtherQueues(s) BY <2>1 DEF SemInv, KernelInv, OtherQueues
  <2>3. semcnt[s] - 1 \in 0 .. maxsem[s] /\ semcnt[s] > 0 BY <2>1, <1>2
  <2> QED BY <2>1, <2>2, <2>3, <1>2, <1>3
<1>7. CASE /\ MayWait /\ semcnt[s] = 0 /\ semcnt' = semcnt
           /\ \/ k' = dispatch(wobj_make_wait(waiting_for("SEM"), s))
              \/ k' = dispatch(wobj_make_wait_tmout(waiting_for("SEM"), s))
  <2>1. KernelInv' /\ OtherQueues(s) BY <1>1, <1>7, WaitCalls DEF SemInv, OtherQueues, Joins
  <2> QED BY <2>1, <1>2, <1>3, <1>4, <1>7
<1>8. CASE ini_sem(s)
  <2>1. k' = dispatch(init_wait_queue(k, s)) /\ semcnt' = [semcnt EXCEPT ![s] = isemcnt[s]]
    BY <1>8 DEF ini_sem
  <2>2. KernelInv' /\ OtherQueues(s) /\ k'.wque[s] = << >>
    BY <2>1, <1>1, ReleaseAll DEF SemInv, KernelInv, NoneHeld, OtherQueues
  <2> QED BY <2>1, <2>2, <1>2, <1>3
<1> QED BY <1>5, <1>6, <1>7, <1>8 DEF SemCall, wai_sem, pol_sem, twai_sem, MayWait

LEMMA SemInvNext == SemAssumption /\ SemInv /\ [SemNext]_sem_vars => SemInv'
<1> SUFFICES ASSUME SemAssumption, SemInv, [SemNext]_sem_vars PROVE SemInv' OBVIOUS
<1>1. CASE [TaskNext]_k /\ semcnt' = semcnt
  <2>1. Follows(k, k') BY <1>1, InvNext DEF SemInv, KernelInv
  <2>2. KernelInv' BY <2>1 DEF SemInv, Follows, KernelInv
  <2>3. SemOK'
    <3>1. \A s \in Sem : k.wque[s] = << >> => k'.wque[s] = << >>
      BY <2>1, StaysEmpty DEF SemAssumption
    <3> QED BY <3>1, <1>1 DEF SemInv, SemOK, queue_empty
  <2> QED BY <2>2, <2>3, <1>1 DEF SemInv
<1>2. CASE \E s \in Sem : SemCall(s) BY <1>2, SemCalls
<1> QED BY <1>1, <1>2 DEF SemNext, sem_vars

(* No task is left waiting for a semaphore while a resource of it is free, *)
(* the counts stay within their bounds, and the tasks, the queues and the  *)
(* dispatcher stay as TaskCalls promises, for every number of tasks,       *)
(* semaphores and resources, FIFO or in the order of priorities            *)
(* (semaphore.c, wait.c).                                                  *)
THEOREM SemaphoreCorrect ==
    ASSUME SemAssumption
    PROVE  SemSpec => [](SemOK /\ TasksOK)
<1>1. SemInit => SemInv BY SemInvInit
<1>2. SemInv /\ [SemNext]_sem_vars => SemInv' BY SemInvNext
<1>3. SemInv => SemOK /\ TasksOK BY TasksSafe DEF SemInv
<1> QED BY <1>1, <1>2, <1>3, PTL DEF SemSpec

-----------------------------------------------------------------------------
(* kernel/eventflag.c: what set_flg knows while it walks along the queue,  *)
(* and one round of the walk.                                              *)
FlgWait == [waiptn : FLGPTN, wfmode : Mode]
FlgWalk == [k : KernelState, w : [Task -> FlgWait \cup {NULL}], ptn : FLGPTN, done : BOOLEAN]

FlgRound(f, s, t) ==
    IF s.done \/ ~Satisfies(s.ptn, s.w[t]) THEN s
    ELSE [ k |-> wait_complete([s.k EXCEPT !.wque[f] = queue_delete(@, t)], t),
           w |-> [s.w EXCEPT ![t].waiptn = s.ptn],
           ptn |-> after_release(f, s.ptn),
           done |-> f \in TA_CLR ]

\* the places of the tasks that the pattern satisfies, and of those released
\* when the walk has passed n of them
Hit(q, ptn, w) == {i \in 1 .. Len(q) : Satisfies(ptn, w[q[i]])}
Gone(f, q, ptn, w, n) ==
    {i \in Hit(q, ptn, w) : i <= n /\ (f \in TA_CLR => \A h \in Hit(q, ptn, w) : h >= i)}

LEMMA GoneNext ==
    ASSUME NEW f, NEW q \in Seq(Task), NEW ptn, NEW w, NEW n \in 1 .. Len(q)
    PROVE  /\ n \notin Gone(f, q, ptn, w, n - 1)
           /\ f \in TA_CLR /\ Gone(f, q, ptn, w, n - 1) # {} =>
                Gone(f, q, ptn, w, n) = Gone(f, q, ptn, w, n - 1)
           /\ n \notin Hit(q, ptn, w) => Gone(f, q, ptn, w, n) = Gone(f, q, ptn, w, n - 1)
           /\ n \in Hit(q, ptn, w) /\ ~(f \in TA_CLR /\ Gone(f, q, ptn, w, n - 1) # {}) =>
                Gone(f, q, ptn, w, n) = Gone(f, q, ptn, w, n - 1) \cup {n}
<1> DEFINE H == Hit(q, ptn, w)
           A == Gone(f, q, ptn, w, n - 1)
           B == Gone(f, q, ptn, w, n)
<1>1. /\ A = {i \in H : i <= n - 1 /\ (f \in TA_CLR => \A h \in H : h >= i)}
      /\ B = {i \in H : i <= n /\ (f \in TA_CLR => \A h \in H : h >= i)}
  BY DEF Gone
<1>2. H \subseteq 1 .. Len(q) /\ Len(q) \in Nat BY DEF Hit
<1>3. ASSUME f \in TA_CLR, A = {}, n \in H PROVE \A h \in H : h >= n
  <2>1. H \in SUBSET Nat /\ H # {} BY <1>2, <1>3
  <2> HIDE DEF H
  <2>2. PICK m \in H : \A h \in H : m <= h BY <2>1, LeastElement
  <2>3. m \in 1 .. Len(q) /\ \A h \in H : h \in 1 .. Len(q) BY <1>2
  <2>4. ~(m <= n - 1) BY <2>2, <2>3, <1>1, <1>3
  <2> QED BY <2>2, <2>3, <2>4
<1>4. n \notin A BY <1>1, <1>2
<1>5. \A i \in H : i <= n <=> i <= n - 1 \/ i = n BY <1>2
<1> HIDE DEF A, B, H
<1>6. B \subseteq A \cup {n} BY <1>1, <1>5
<1>7. A \subseteq B BY <1>1, <1>5
<1>8. n \in B <=> n \in H /\ (f \in TA_CLR => \A h \in H : h >= n) BY <1>1, <1>5
<1>9. f \in TA_CLR /\ A # {} => n \notin B
  <2> SUFFICES ASSUME NEW m \in A, f \in TA_CLR, n \in B PROVE FALSE OBVIOUS
  <2>1. m \in H /\ m <= n - 1 /\ m >= n BY <1>1, <1>8
  <2>2. m \in 1 .. Len(q) BY <2>1, <1>2
  <2> QED BY <2>1, <2>2
<1>10. n \in H /\ ~(f \in TA_CLR /\ A # {}) => n \in B BY <1>3, <1>8
<1> QED BY <1>4, <1>6, <1>7, <1>8, <1>9, <1>10 DEF A, B, H

Walked(j, f, ptn, w, n, s) ==
    LET q == j.wque[f]
        gone == Gone(f, q, ptn, w, n)
    IN  /\ s \in FlgWalk /\ s.k \in Released(j, f)
        /\ \A u : Linked(s.k.wque[f], u) <=> \E i \in 1 .. Len(q) \ gone : q[i] = u
        /\ s.done <=> f \in TA_CLR /\ gone # {}
        /\ s.ptn = IF s.done THEN {} ELSE ptn
        /\ \A i \in 1 .. Len(q) :
             s.w[q[i]] = IF i \in gone THEN [w[q[i]] EXCEPT !.waiptn = ptn] ELSE w[q[i]]
        /\ \A u \in Task : ~Linked(q, u) => s.w[u] = w[u]

LEMMA WalkRound ==
    ASSUME NEW j, Settled(j), Fine(j, {}), NEW f \in Wobj,
           NEW ptn \in FLGPTN, NEW w \in [Task -> FlgWait \cup {NULL}],
           \A u : Linked(j.wque[f], u) => w[u] \in FlgWait,
           NEW n \in 1 .. Len(j.wque[f]), NEW s, Walked(j, f, ptn, w, n - 1, s)
    PROVE  Walked(j, f, ptn, w, n, FlgRound(f, s, j.wque[f][n]))
<1> DEFINE q == j.wque[f]
           A == Gone(f, q, ptn, w, n - 1)
           B == Gone(f, q, ptn, w, n)
           H == Hit(q, ptn, w)
           t == q[n]
           r == FlgRound(f, s, t)
<1>1. j \in KernelState BY DEF Settled, Ready, Core
<1>2. q \in Seq(Task) /\ NoTwice(q) BY <1>1 DEF KernelState, Fine, Waits
<1>3. /\ n \notin A
      /\ f \in TA_CLR /\ A # {} => B = A
      /\ n \notin H => B = A
      /\ n \in H /\ ~(f \in TA_CLR /\ A # {}) => B = A \cup {n}
  BY <1>2, GoneNext
<1>4. /\ s \in FlgWalk /\ s.k \in Released(j, f)
      /\ \A u : Linked(s.k.wque[f], u) <=> \E i \in 1 .. Len(q) \ A : q[i] = u
      /\ s.done <=> f \in TA_CLR /\ A # {}
      /\ s.ptn = IF s.done THEN {} ELSE ptn
      /\ \A i \in 1 .. Len(q) :
           s.w[q[i]] = IF i \in A THEN [w[q[i]] EXCEPT !.waiptn = ptn] ELSE w[q[i]]
      /\ \A u \in Task : ~Linked(q, u) => s.w[u] = w[u]
  BY DEF Walked
<1>5. n \in 1 .. Len(q) /\ t \in Task /\ Linked(q, t) BY <1>2 DEF Linked
<1>6. n \in H <=> Satisfies(ptn, w[t]) BY <1>5 DEF Hit
<1>7. s.w[t] = w[t] BY <1>3, <1>4, <1>5
<1> HIDE DEF A, B, H, q
<1>8. CASE B = A /\ r = s
  <2>1. Walked(j, f, ptn, w, n, s) <=> Walked(j, f, ptn, w, n - 1, s)
    BY <1>8 DEF Walked, A, B, q
  <2> QED BY <2>1, <1>8 DEF q
<1>9. CASE ~s.done /\ Satisfies(ptn, w[t])
  <2>1. B = A \cup {n} /\ s.ptn = ptn /\ ~(f \in TA_CLR /\ A # {})
    BY <1>3, <1>4, <1>6, <1>9
  <2>2. r = [ k |-> wait_complete([s.k EXCEPT !.wque[f] = queue_delete(@, t)], t),
              w |-> [s.w EXCEPT ![t].waiptn = ptn],
              ptn |-> after_release(f, ptn),
              done |-> f \in TA_CLR ]
    BY <2>1, <1>7, <1>9 DEF FlgRound
  <2> DEFINE m == wait_complete([s.k EXCEPT !.wque[f] = queue_delete(@, t)], t)
             sq == s.k.wque[f]
             d == queue_delete(sq, t)
  <2>3. /\ s.k \in KernelState /\ Settled(s.k) /\ Fine(s.k, {})
        /\ SameRest(j, s.k) /\ Runnable(j) \subseteq Runnable(s.k)
        /\ \A v \in Wobj \ {f} : s.k.wque[v] = j.wque[v]
    BY <1>4 DEF Released
  <2>4. sq \in Seq(Task) /\ NoTwice(sq) BY <2>3 DEF KernelState, Fine, Waits
  <2>5. Linked(sq, t) BY <1>3, <1>4, <1>5
  <2> HIDE DEF t, sq
  <2>6. d \in Seq(Task) /\ NoTwice(d) /\ \A u : Linked(d, u) <=> Linked(sq, u) /\ u # t
    BY <2>4, <2>5, <1>5, Delete
  <2>7. m = wait_complete([s.k EXCEPT !.wque[f] = d], t) BY DEF d, sq
  <2> HIDE DEF d, m
  <2>8. /\ Settled(m) /\ Fine(m, {}) /\ SameRest(s.k, m) /\ Runnable(s.k) \subseteq Runnable(m)
        /\ m.wque[f] = d /\ \A v \in Wobj \ {f} : m.wque[v] = s.k.wque[v]
    <3>1. E_OK \in WInfo BY DEF WInfo, WaitErcd
    <3> QED BY <2>3, <2>5, <2>6, <2>7, <3>1, <1>5, ReleaseOne DEF wait_complete, sq
  <2>9. m \in Released(j, f)
    <3>1. m \in KernelState BY <2>8 DEF Settled, Ready, Core
    <3>2. SameRest(j, m) BY <2>3, <2>8 DEF SameRest
    <3> QED BY <3>1, <3>2, <2>3, <2>8 DEF Released
  <2>10. w[t] \in FlgWait /\ s.w \in [Task -> FlgWait \cup {NULL}] BY <1>4, <1>5 DEF q, FlgWalk
  <2>11. [w[t] EXCEPT !.waiptn = ptn] \in FlgWait BY <2>10 DEF FlgWait
  <2>12. [s.w EXCEPT ![t].waiptn = ptn] = [s.w EXCEPT ![t] = [w[t] EXCEPT !.waiptn = ptn]]
    BY <1>7
  <2> DEFINE rec == [w[t] EXCEPT !.waiptn = ptn]
             w2 == [s.w EXCEPT ![t] = rec]
  <2> HIDE DEF rec
  <2>13. w2 \in [Task -> FlgWait \cup {NULL}] /\ w2[t] = rec /\ \A u \in Task \ {t} : w2[u] = s.w[u]
    BY <2>10, <2>11, <1>5 DEF rec
  <2>14. r = [k |-> m, w |-> w2, ptn |-> after_release(f, ptn), done |-> f \in TA_CLR]
    BY <2>2, <2>12 DEF m, rec
  <2> HIDE DEF r, w2
  <2>15. after_release(f, ptn) = (IF f \in TA_CLR THEN {} ELSE ptn) BY DEF after_release
  <2>16. r \in FlgWalk
    <3>1. m \in KernelState BY <2>9 DEF Released
    <3>2. after_release(f, ptn) \in FLGPTN BY <2>15 DEF FLGPTN
    <3> QED BY <3>1, <3>2, <2>13, <2>14 DEF FlgWalk
  <2>17. r.k = m /\ r.w = w2 /\ r.ptn = after_release(f, ptn) /\ r.done = (f \in TA_CLR) BY <2>14
  <2>18. r.done <=> f \in TA_CLR /\ B # {} BY <2>1, <2>17
  <2>19. r.ptn = IF r.done THEN {} ELSE ptn BY <2>15, <2>17
  <2>20. ASSUME NEW u PROVE Linked(m.wque[f], u) <=> \E i \in 1 .. Len(q) \ B : q[i] = u
    <3>1. Linked(m.wque[f], u) <=> (\E i \in 1 .. Len(q) \ A : q[i] = u) /\ u # t
      BY <2>6, <2>8, <1>4 DEF sq
    <3>2. \A i \in 1 .. Len(q) : q[i] = t => i = n BY <1>2, <1>5 DEF NoTwice, t
    <3>3. q[n] = t BY DEF t
    <3> QED BY <3>1, <3>2, <3>3, <2>1
  <2>21. ASSUME NEW i \in 1 .. Len(q)
         PROVE  r.w[q[i]] = IF i \in B THEN [w[q[i]] EXCEPT !.waiptn = ptn] ELSE w[q[i]]
    <3>1. CASE i = n
      <4>1. r.w[q[i]] = rec BY <3>1, <2>13, <2>17 DEF t
      <4> QED BY <4>1, <3>1, <2>1 DEF rec, t
    <3>2. CASE i # n
      <4>1. q[i] # t /\ q[i] \in Task BY <3>2, <1>2, <1>5 DEF NoTwice, t
      <4>2. r.w[q[i]] = s.w[q[i]] BY <4>1, <2>13, <2>17
      <4>3. i \in B <=> i \in A BY <3>2, <2>1
      <4> QED BY <4>2, <4>3, <1>4
    <3> QED BY <3>1, <3>2
  <2>22. ASSUME NEW u \in Task, ~Linked(q, u) PROVE r.w[u] = w[u]
    <3>1. u # t BY <2>22, <1>5
    <3> QED BY <3>1, <2>13, <2>17, <2>22, <1>4
  <2> HIDE DEF Walked
  <2> QED BY <2>9, <2>16, <2>17, <2>18, <2>19, <2>20, <2>21, <2>22 DEF Walked, B, q, r, t
<1>10. CASE s.done
  <2>1. B = A BY <1>3, <1>4, <1>10
  <2>2. r = s BY <1>10 DEF FlgRound
  <2> QED BY <2>1, <2>2, <1>8
<1>11. CASE ~s.done /\ ~Satisfies(ptn, w[t])
  <2>1. B = A BY <1>3, <1>6, <1>11
  <2>2. s.ptn = ptn BY <1>4, <1>11
  <2>3. r = s BY <2>2, <1>7, <1>11 DEF FlgRound
  <2> QED BY <2>1, <2>3, <1>8
<1> QED BY <1>9, <1>10, <1>11

(* The whole walk.                                                         *)
LEMMA WholeWalk ==
    ASSUME NEW j, Settled(j), Fine(j, {}), NEW f \in Wobj,
           NEW ptn \in FLGPTN, NEW w \in [Task -> FlgWait \cup {NULL}],
           \A u : Linked(j.wque[f], u) => w[u] \in FlgWait
    PROVE  Walked(j, f, ptn, w, Len(j.wque[f]), release_waiting(j, f, ptn, w))
<1> DEFINE queue == j.wque[f]
           first == [k |-> j, ptn |-> ptn, w |-> w, done |-> FALSE]
           walk[n \in 0 .. Len(queue)] ==
             IF n = 0 THEN first ELSE FlgRound(f, walk[n - 1], queue[n])
           run(g) == [n \in 0 .. Len(queue) |->
             IF n = 0 THEN first ELSE FlgRound(f, g[n - 1], queue[n])]
<1>1. release_waiting(j, f, ptn, w) = walk[Len(queue)] BY Zenon DEF release_waiting, FlgRound
<1>2. walk = CHOOSE g : g = run(g) BY Zenon
<1> HIDE DEF walk
<1>3. j \in KernelState BY DEF Settled, Ready, Core
<1>4. queue \in Seq(Task) /\ Len(queue) \in Nat BY <1>3 DEF KernelState
<1> HIDE DEF queue
<1>5. first \in FlgWalk BY <1>3 DEF FlgWalk
<1>6. Walked(j, f, ptn, w, 0, first)
  <2>1. j \in Released(j, f) BY <1>3 DEF Released, SameRest
  <2>2. Gone(f, queue, ptn, w, 0) = {} BY <1>4 DEF Gone, Hit
  <2>3. \A u : Linked(queue, u) <=> \E i \in 1 .. Len(queue) \ {} : queue[i] = u BY DEF Linked
  <2> QED BY <2>1, <2>2, <2>3, <1>5 DEF Walked, queue
<1> DEFINE dom == (1 .. Len(queue)) \X FlgWalk
           step == [p \in dom |-> IF Walked(j, f, ptn, w, p[1] - 1, p[2])
                                  THEN FlgRound(f, p[2], queue[p[1]]) ELSE p[2]]
<1>7. ASSUME NEW n \in 1 .. Len(queue), NEW s, Walked(j, f, ptn, w, n - 1, s)
      PROVE  Walked(j, f, ptn, w, n, FlgRound(f, s, queue[n]))
  BY <1>7, WalkRound DEF queue
<1>8. step \in [dom -> FlgWalk]
  <2>1. ASSUME NEW p \in dom, Walked(j, f, ptn, w, p[1] - 1, p[2])
        PROVE  FlgRound(f, p[2], queue[p[1]]) \in FlgWalk
    <3>1. p[1] \in 1 .. Len(queue) OBVIOUS
    <3> QED BY <3>1, <2>1, <1>7 DEF Walked
  <2> QED BY <2>1
<1>9. ASSUME NEW n \in 1 .. Len(queue), NEW s \in FlgWalk, Walked(j, f, ptn, w, n - 1, s)
      PROVE  step[<<n, s>>] = FlgRound(f, s, queue[n])
  <2>1. <<n, s>> \in dom OBVIOUS
  <2> QED BY <2>1, <1>9
<1> HIDE DEF step, dom, first
<1>10. PICK g : /\ g \in [0 .. Len(queue) -> FlgWalk] /\ g[0] = first
                /\ \A i \in 1 .. Len(queue) : g[i] = step[<<i, g[i - 1]>>]
  <2>1. step \in [(1 .. Len(queue)) \X FlgWalk -> FlgWalk] BY <1>8 DEF dom
  <2> DEFINE top == Len(queue)
             S == FlgWalk
  <2>2. top \in Nat /\ first \in S /\ step \in [(1 .. top) \X S -> S] BY <2>1, <1>4, <1>5
  <2> HIDE DEF top, S
  <2>3. \E g : IteratesRound(g, top, S, first, step) BY ONLY <2>2, IterateRound
  <2> QED BY <2>3 DEF IteratesRound, top, S
<1>11. \A n \in 0 .. Len(queue) : Walked(j, f, ptn, w, n, g[n])
  <2> DEFINE P == {n \in 0 .. Len(queue) : Walked(j, f, ptn, w, n, g[n])}
  <2>1. 0 \in P BY <1>4, <1>6, <1>10
  <2>2. ASSUME NEW n \in 0 .. Len(queue) - 1, n \in P PROVE n + 1 \in P
    <3>1. n + 1 \in 1 .. Len(queue) /\ (n + 1) - 1 = n /\ n \in 0 .. Len(queue) BY <1>4
    <3>2. Walked(j, f, ptn, w, (n + 1) - 1, g[n]) /\ g[n] \in FlgWalk BY <2>2, <3>1, <1>10
    <3>3. g[n + 1] = FlgRound(f, g[n], queue[n + 1])
      <4>1. g[n + 1] = step[<<n + 1, g[(n + 1) - 1]>>] BY <3>1, <1>10
      <4>2. g[n + 1] = step[<<n + 1, g[n]>>] BY <4>1, <3>1
      <4> QED BY <4>2, <3>1, <3>2, <1>9
    <3>4. Walked(j, f, ptn, w, n + 1, g[n + 1]) BY <3>1, <3>2, <3>3, <1>7
    <3> QED BY <3>1, <3>4
  <2> HIDE DEF P
  <2>3. \A n \in 0 .. Len(queue) : n \in P BY <1>4, <2>1, <2>2, Induct
  <2> QED BY <2>3 DEF P
<1>12. \A n \in 1 .. Len(queue) : g[n] = FlgRound(f, g[n - 1], queue[n])
  <2> TAKE n \in 1 .. Len(queue)
  <2>1. n - 1 \in 0 .. Len(queue) BY <1>4
  <2>2. Walked(j, f, ptn, w, n - 1, g[n - 1]) /\ g[n - 1] \in FlgWalk BY <2>1, <1>10, <1>11
  <2> QED BY <2>2, <1>9, <1>10
<1>13. g = run(g)
  <2>1. ASSUME NEW n \in 0 .. Len(queue) PROVE g[n] = run(g)[n]
    <3>1. CASE n = 0 BY <3>1, <1>4, <1>10
    <3>2. CASE n # 0
      <4>1. n \in 1 .. Len(queue) BY <3>2, <1>4
      <4> QED BY <4>1, <3>2, <1>12
    <3> QED BY <3>1, <3>2
  <2>2. run(g) = [n \in 0 .. Len(queue) |-> run(g)[n]] OBVIOUS
  <2>3. g = [n \in 0 .. Len(queue) |-> g[n]] BY <1>10
  <2> HIDE DEF run
  <2> QED BY <2>1, <2>2, <2>3
<1>14. walk = run(walk) BY <1>2, <1>13
<1>15. \A n \in 0 .. Len(queue) : walk[n] = g[n]
  <2> DEFINE P == {n \in 0 .. Len(queue) : walk[n] = g[n]}
  <2>1. 0 \in P BY <1>4, <1>10, <1>14
  <2>2. ASSUME NEW n \in 0 .. Len(queue) - 1, n \in P PROVE n + 1 \in P
    <3>1. n + 1 \in 1 .. Len(queue) /\ n + 1 \in 0 .. Len(queue) /\ (n + 1) - 1 = n /\ n + 1 # 0
      BY <1>4
    <3>2. walk[n + 1] = FlgRound(f, walk[n], queue[n + 1])
      <4>1. walk[n + 1] = run(walk)[n + 1] BY <1>14
      <4> QED BY <4>1, <3>1
    <3>3. g[n + 1] = FlgRound(f, g[n], queue[n + 1]) BY <3>1, <1>12
    <3>4. walk[n] = g[n] BY <2>2
    <3> QED BY <3>1, <3>2, <3>3, <3>4
  <2> HIDE DEF P
  <2>3. \A n \in 0 .. Len(queue) : n \in P BY <1>4, <2>1, <2>2, Induct
  <2> QED BY <2>3 DEF P
<1>16. Len(queue) \in 0 .. Len(queue) BY <1>4
<1> QED BY <1>1, <1>11, <1>15, <1>16 DEF queue

\* whether the flag releases nobody, somebody or all
LEMMA GoneAll ==
    ASSUME NEW f, NEW q \in Seq(Task), NEW ptn, NEW w
    PROVE  LET H == Hit(q, ptn, w)
               G == Gone(f, q, ptn, w, Len(q))
           IN  /\ G \subseteq H /\ H \subseteq 1 .. Len(q)
               /\ f \notin TA_CLR => G = H
               /\ f \in TA_CLR => (G = {} <=> H = {})
               /\ f \in TA_CLR => \A g \in G, h \in H : g <= h
<1> DEFINE H == Hit(q, ptn, w)
           G == Gone(f, q, ptn, w, Len(q))
<1>1. G = {i \in H : i <= Len(q) /\ (f \in TA_CLR => \A h \in H : h >= i)} BY DEF Gone
<1>2. H \subseteq 1 .. Len(q) /\ Len(q) \in Nat BY DEF Hit
<1>3. \A h \in H : h \in Nat /\ h <= Len(q) BY <1>2
<1> HIDE DEF H, G
<1>4. ASSUME H # {} PROVE \E g \in H : \A h \in H : g <= h
  <2>1. H \in SUBSET Nat BY <1>2
  <2> QED BY <2>1, <1>4, LeastElement
<1>5. f \in TA_CLR /\ H # {} => G # {}
  <2> SUFFICES ASSUME f \in TA_CLR, H # {} PROVE G # {} OBVIOUS
  <2>1. PICK g \in H : \A h \in H : g <= h BY <1>4
  <2>2. \A h \in H : h >= g BY <2>1, <1>3
  <2>3. g \in G BY <2>1, <2>2, <1>1, <1>3
  <2> QED BY <2>3
<1>6. f \in TA_CLR => \A g \in G, h \in H : g <= h BY <1>1, <1>3
<1>7. G \subseteq H /\ (f \notin TA_CLR => G = H) BY <1>1, <1>3
<1> QED BY <1>2, <1>5, <1>6, <1>7 DEF G, H

(* The invariant: who waits for a flag has said for what, that is not      *)
(* there yet, and he is alone where only one may wait.                     *)
Alone(q) == \A u, v : Linked(q, u) /\ Linked(q, v) => u = v

FlagQueue(f, ptn, w) ==
    /\ \A t \in Task : Linked(k.wque[f], t) => w[t] \in WInfoFlg /\ ~Satisfies(ptn[f], w[t])
    /\ f \notin TA_WMUL => Alone(k.wque[f])

FlgInv ==
    /\ KernelInv
    /\ flgptn \in [Flg -> FLGPTN] /\ winfo_flg \in [Task -> FlgWait \cup {NULL}]
    /\ \A f \in Flg : FlagQueue(f, flgptn, winfo_flg)

\* what is known of the queue of a flag
LEMMA FlagQueued ==
    ASSUME FlgAssumption, KernelInv, NEW f \in Flg
    PROVE  /\ f \in Wobj /\ wfactor[f] = "FLG"
           /\ k.wque[f] \in Seq(Task) /\ NoTwice(k.wque[f])
           /\ \A u : u \in Range(k.wque[f]) <=> Linked(k.wque[f], u)
           /\ \A u : Linked(k.wque[f], u) => u \in Task /\ waits_in(k, u)
           /\ \A u \in Task, v \in Wobj : Linked(k.wque[f], u) /\ Linked(k.wque[v], u) => v = f
<1>1. f \in Wobj /\ wfactor[f] = "FLG" BY DEF FlgAssumption
<1>2. k \in KernelState /\ Fine(k, {}) BY Known DEF KernelInv
<1>3. k.wque[f] \in Seq(Task) /\ NoTwice(k.wque[f]) BY <1>1, <1>2 DEF KernelState, Fine, Waits
<1>4. \A u : u \in Range(k.wque[f]) <=> Linked(k.wque[f], u) BY <1>3 DEF Range, Linked
<1>5. \A u : Linked(k.wque[f], u) => u \in Task BY <1>3 DEF Linked
<1>6. \A u : Linked(k.wque[f], u) => waits_in(k, u) BY DEF Linked, waits_in, Contains
<1>7. \A u \in Task, v \in Wobj : Linked(k.wque[f], u) /\ Linked(k.wque[v], u) => v = f
  BY <1>1, <1>2 DEF Fine, Waits
<1> QED BY <1>1, <1>3, <1>4, <1>5, <1>6, <1>7

LEMMA FlgInvOK == FlgAssumption /\ FlgInv => FlagWaitOK
<1> SUFFICES ASSUME FlgInv, FlgAssumption, NEW f \in Flg
             PROVE  /\ \A t \in Range(k.wque[f]) : ~Satisfies(flgptn[f], winfo_flg[t])
                    /\ f \notin TA_WMUL => Len(k.wque[f]) <= 1
  BY DEF FlagWaitOK
<1> DEFINE q == k.wque[f]
<1>1. FlagQueue(f, flgptn, winfo_flg) /\ KernelInv BY DEF FlgInv
<1>2. /\ q \in Seq(Task) /\ NoTwice(q)
      /\ \A u : u \in Range(q) <=> Linked(q, u)
      /\ \A u : Linked(q, u) => u \in Task
  BY <1>1, FlagQueued
<1>3. \A t \in Range(q) : ~Satisfies(flgptn[f], winfo_flg[t]) BY <1>1, <1>2 DEF FlagQueue
<1>4. ASSUME Alone(q) PROVE Len(q) <= 1
  <2> SUFFICES ASSUME ~(Len(q) <= 1) PROVE FALSE OBVIOUS
  <2> HIDE DEF q
  <2>1. 1 \in 1 .. Len(q) /\ 2 \in 1 .. Len(q) BY <1>2
  <2>2. Linked(q, q[1]) /\ Linked(q, q[2]) BY <2>1 DEF Linked
  <2>3. q[1] = q[2] BY <2>2, <1>4 DEF Alone
  <2> QED BY <2>1, <2>3, <1>2 DEF NoTwice
<1> QED BY <1>1, <1>3, <1>4 DEF FlagQueue

LEMMA FlgInvInit == FlgAssumption /\ FlgInit => FlgInv
<1> SUFFICES ASSUME FlgAssumption, FlgInit PROVE FlgInv OBVIOUS
<1>1. KernelInv BY InvInit DEF FlgInit, KernelInv
<1>2. flgptn \in [Flg -> FLGPTN] /\ winfo_flg \in [Task -> FlgWait \cup {NULL}]
  BY DEF FlgInit, FlgAssumption
<1>3. \A f \in Flg : k.wque[f] = << >> BY DEF FlgInit, TaskInit, initialize_task, FlgAssumption
<1>4. \A f \in Flg : \A t : ~Linked(k.wque[f], t) BY <1>3 DEF Linked
<1>5. \A f \in Flg : FlagQueue(f, flgptn, winfo_flg) BY <1>4 DEF FlagQueue, Alone
<1> QED BY <1>1, <1>2, <1>5 DEF FlgInv

\* the pattern and the mode of a task live on while it is in a flag's queue
FlgAlive(w) ==
    /\ winfo_flg' \in [Task -> FlgWait \cup {NULL}]
    /\ \A f \in Flg, t \in Task : Linked(k'.wque[f], t) => winfo_flg'[t] = w[t]

LEMMA AliveFlg ==
    ASSUME NEW w \in [Task -> FlgWait \cup {NULL}], winfo_flg' = alive_flg(w)
    PROVE  FlgAlive(w)
<1>1. \A f \in Flg, t \in Task : Linked(k'.wque[f], t) => waits_in(k', t)
  BY DEF Linked, waits_in, Contains
<1> QED BY <1>1 DEF FlgAlive, alive_flg

(* A flag whose queue nobody joins and whose pattern does not grow.        *)
LEMMA SatisfiesLess ==
    ASSUME NEW ptn, NEW less, less \subseteq ptn, NEW w, ~Satisfies(ptn, w)
    PROVE  ~Satisfies(less, w)
BY DEF Satisfies

LEMMA SatisfiesNone ==
    ASSUME NEW w \in WInfoFlg
    PROVE  ~Satisfies({}, w)
BY DEF Satisfies, WInfoFlg

LEMMA FlagKept ==
    ASSUME FlgInv, FlgAlive(winfo_flg), NEW f \in Flg, flgptn'[f] \subseteq flgptn[f],
           \A t \in Task : Linked(k'.wque[f], t) => Linked(k.wque[f], t),
           k'.wque[f] \in Seq(Task)
    PROVE  FlagQueue(f, flgptn, winfo_flg)'
<1>1. FlagQueue(f, flgptn, winfo_flg) BY DEF FlgInv
<1>2. ASSUME NEW t \in Task, Linked(k'.wque[f], t)
      PROVE  winfo_flg'[t] \in WInfoFlg /\ ~Satisfies(flgptn'[f], winfo_flg'[t])
  <2>1. winfo_flg'[t] = winfo_flg[t] /\ Linked(k.wque[f], t) BY <1>2 DEF FlgAlive
  <2> QED BY <2>1, <1>1, SatisfiesLess DEF FlagQueue
<1>3. \A u : Linked(k'.wque[f], u) => u \in Task BY DEF Linked
<1>4. f \notin TA_WMUL => Alone(k'.wque[f]) BY <1>1, <1>3 DEF FlagQueue, Alone
<1> QED BY <1>2, <1>4 DEF FlagQueue

\* the queues of all flags but f are as they were
LEMMA OtherFlags ==
    ASSUME FlgAssumption, FlgInv, KernelInv', NEW f \in Flg,
           \A v \in Wobj \ {f} : k'.wque[v] = k.wque[v],
           FlgAlive(winfo_flg),
           NEW ptn \in FLGPTN, flgptn' = [flgptn EXCEPT ![f] = ptn],
           FlagQueue(f, flgptn, winfo_flg)'
    PROVE  FlgInv'
<1>1. flgptn \in [Flg -> FLGPTN] BY DEF FlgInv
<1>2. flgptn' \in [Flg -> FLGPTN] /\ \A g \in Flg \ {f} : flgptn'[g] = flgptn[g] BY <1>1
<1>3. ASSUME NEW g \in Flg, g # f PROVE FlagQueue(g, flgptn, winfo_flg)'
  <2>1. g \in Wobj \ {f} BY <1>3 DEF FlgAssumption
  <2>2. k'.wque[g] = k.wque[g] BY <2>1
  <2>3. k.wque[g] \in Seq(Task) BY FlagQueued DEF FlgInv
  <2> QED BY <2>2, <2>3, <1>2, <1>3, FlagKept
<1>4. \A g \in Flg : FlagQueue(g, flgptn, winfo_flg)' BY <1>3
<1> QED BY <1>2, <1>4 DEF FlgInv, FlgAlive

\* what set_flg does to the queue, the patterns and the waiting tasks
FlagSet(f, q, ptn, G) ==
    /\ \A v \in Wobj \ {f} : k'.wque[v] = k.wque[v]
    /\ \A u : Linked(k'.wque[f], u) <=> \E i \in 1 .. Len(q) \ G : q[i] = u
    /\ flgptn' = [flgptn EXCEPT ![f] = IF f \in TA_CLR /\ G # {} THEN {} ELSE ptn]
    /\ winfo_flg' \in [Task -> FlgWait \cup {NULL}]
    /\ \A i \in 1 .. Len(q) :
         winfo_flg'[q[i]] = IF i \in G THEN [winfo_flg[q[i]] EXCEPT !.waiptn = ptn]
                            ELSE winfo_flg[q[i]]
    /\ \A u \in Task : ~Linked(q, u) /\ waits_in(k, u) => winfo_flg'[u] = winfo_flg[u]

LEMMA SetFlag ==
    ASSUME FlgAssumption, FlgInv, NEW f \in Flg, NEW setptn \in FLGPTN, set_flg(f, setptn)
    PROVE  LET q   == k.wque[f]
               ptn == flgptn[f] \cup setptn
           IN  KernelInv' /\ FlagSet(f, q, ptn, Gone(f, q, ptn, winfo_flg, Len(q)))
<1> DEFINE q   == k.wque[f]
           ptn == flgptn[f] \cup setptn
           G   == Gone(f, q, ptn, winfo_flg, Len(q))
           s   == release_waiting(k, f, ptn, winfo_flg)
<1>1. /\ f \in Wobj /\ q \in Seq(Task) /\ NoTwice(q)
      /\ \A u : Linked(q, u) => u \in Task /\ waits_in(k, u)
  BY FlagQueued DEF FlgInv
<1>2. /\ KernelInv /\ Inv(k) /\ Settled(k) /\ Fine(k, {})
      /\ flgptn \in [Flg -> FLGPTN] /\ winfo_flg \in [Task -> FlgWait \cup {NULL}]
      /\ FlagQueue(f, flgptn, winfo_flg)
  BY DEF FlgInv, KernelInv, Inv
<1>3. \A u : Linked(q, u) => winfo_flg[u] \in FlgWait
  BY <1>1, <1>2 DEF FlagQueue, WInfoFlg, FlgWait
<1>4. ptn \in FLGPTN BY <1>2 DEF FLGPTN
<1>5. /\ k' = dispatch(s.k) /\ flgptn' = [flgptn EXCEPT ![f] = s.ptn]
      /\ winfo_flg' = [t \in Task |-> IF waits_in(k, t) THEN s.w[t] ELSE NULL]
  BY DEF set_flg
<1> HIDE DEF ptn
<1>6. Walked(k, f, ptn, winfo_flg, Len(q), s) BY <1>1, <1>2, <1>3, <1>4, WholeWalk
<1> HIDE DEF s, G
<1>7. /\ s \in FlgWalk /\ s.k \in Released(k, f)
      /\ \A u : Linked(s.k.wque[f], u) <=> \E i \in 1 .. Len(q) \ G : q[i] = u
      /\ s.done <=> f \in TA_CLR /\ G # {}
      /\ s.ptn = IF s.done THEN {} ELSE ptn
      /\ \A i \in 1 .. Len(q) :
           s.w[q[i]] = IF i \in G THEN [winfo_flg[q[i]] EXCEPT !.waiptn = ptn]
                       ELSE winfo_flg[q[i]]
      /\ \A u \in Task : ~Linked(q, u) => s.w[u] = winfo_flg[u]
  BY <1>6 DEF Walked, G
<1>8. /\ Inv(k') /\ k'.wque = s.k.wque /\ k'.lastmtx = k.lastmtx
  BY <1>2, <1>5, <1>7, LeaveReleased DEF Released
<1>9. \A v \in Wobj \ {f} : k'.wque[v] = k.wque[v] BY <1>7, <1>8 DEF Released
<1>10. winfo_flg' \in [Task -> FlgWait \cup {NULL}] BY <1>5, <1>7 DEF FlgWalk
<1>11. \A i \in 1 .. Len(q) : winfo_flg'[q[i]] = s.w[q[i]]
  <2> TAKE i \in 1 .. Len(q)
  <2>1. Linked(q, q[i]) BY DEF Linked
  <2>2. q[i] \in Task /\ waits_in(k, q[i]) BY <2>1, <1>1
  <2> QED BY <2>2, <1>5
<1>12. \A u \in Task : waits_in(k, u) => winfo_flg'[u] = s.w[u] BY <1>5
<1> HIDE DEF q
<1>13. FlagSet(f, q, ptn, G) BY <1>5, <1>7, <1>8, <1>9, <1>10, <1>11, <1>12 DEF FlagSet
<1> QED BY <1>2, <1>8, <1>13 DEF KernelInv, NoneHeld, G, q, ptn

LEMMA SetFlagInv ==
    ASSUME FlgAssumption, FlgInv, NEW f \in Flg, NEW setptn \in FLGPTN, set_flg(f, setptn)
    PROVE  FlgInv'
<1> DEFINE q   == k.wque[f]
           ptn == flgptn[f] \cup setptn
           G   == Gone(f, q, ptn, winfo_flg, Len(q))
           H   == Hit(q, ptn, winfo_flg)
<1>1. /\ f \in Wobj /\ q \in Seq(Task) /\ NoTwice(q)
      /\ \A u : Linked(q, u) => u \in Task /\ waits_in(k, u)
  BY FlagQueued DEF FlgInv
<1>2. /\ KernelInv /\ flgptn \in [Flg -> FLGPTN]
      /\ \A g \in Flg : FlagQueue(g, flgptn, winfo_flg)
  BY DEF FlgInv
<1>3. ptn \in FLGPTN BY <1>2 DEF FLGPTN
<1>4. KernelInv' /\ FlagSet(f, q, ptn, G) BY SetFlag
<1>5. /\ G \subseteq H /\ (f \notin TA_CLR => G = H) /\ (f \in TA_CLR => (G = {} <=> H = {}))
  BY <1>1, GoneAll
<1>6. \A i \in 1 .. Len(q) : i \in H <=> Satisfies(ptn, winfo_flg[q[i]]) BY DEF Hit
<1> HIDE DEF G, H, ptn, q
<1>7. /\ \A v \in Wobj \ {f} : k'.wque[v] = k.wque[v]
      /\ \A u : Linked(k'.wque[f], u) <=> \E i \in 1 .. Len(q) \ G : q[i] = u
      /\ flgptn' = [flgptn EXCEPT ![f] = IF f \in TA_CLR /\ G # {} THEN {} ELSE ptn]
      /\ winfo_flg' \in [Task -> FlgWait \cup {NULL}]
      /\ \A i \in 1 .. Len(q) \ G : winfo_flg'[q[i]] = winfo_flg[q[i]]
      /\ \A u \in Task : ~Linked(q, u) /\ waits_in(k, u) => winfo_flg'[u] = winfo_flg[u]
  BY <1>4 DEF FlagSet
<1>8. (IF f \in TA_CLR /\ G # {} THEN {} ELSE ptn) \in FLGPTN BY <1>3 DEF FLGPTN
<1>9. FlgAlive(winfo_flg)
  <2> SUFFICES ASSUME NEW g \in Flg, NEW t \in Task, Linked(k'.wque[g], t)
               PROVE  winfo_flg'[t] = winfo_flg[t]
    BY <1>7 DEF FlgAlive
  <2>1. CASE g = f BY <2>1, <1>7
  <2>2. CASE g # f
    <3>1. g \in Wobj \ {f} BY <2>2 DEF FlgAssumption
    <3>2. Linked(k.wque[g], t) BY <3>1, <1>7
    <3>3. waits_in(k, t) BY <3>2, <1>2, FlagQueued
    <3>4. ~Linked(q, t) BY <3>1, <3>2, <1>2, FlagQueued DEF q
    <3> QED BY <3>3, <3>4, <1>7
  <2> QED BY <2>1, <2>2
<1>10. flgptn'[f] = IF f \in TA_CLR /\ G # {} THEN {} ELSE ptn BY <1>2, <1>7
<1>11. ASSUME NEW t \in Task, Linked(k'.wque[f], t)
       PROVE  winfo_flg'[t] \in WInfoFlg /\ ~Satisfies(flgptn'[f], winfo_flg'[t])
  <2>1. PICK i \in 1 .. Len(q) \ G : q[i] = t BY <1>7, <1>11
  <2>2. Linked(q, t) /\ winfo_flg'[t] = winfo_flg[t] BY <2>1, <1>7 DEF Linked
  <2>3. winfo_flg[t] \in WInfoFlg BY <2>2, <1>2 DEF FlagQueue, q
  <2>4. CASE f \in TA_CLR /\ G # {} BY <2>2, <2>3, <2>4, <1>10, SatisfiesNone
  <2>5. CASE ~(f \in TA_CLR /\ G # {})
    <3>1. i \notin H BY <2>1, <2>5, <1>5
    <3>2. ~Satisfies(ptn, winfo_flg[t]) BY <3>1, <2>1, <1>6
    <3> QED BY <3>2, <2>2, <2>3, <2>5, <1>10
  <2> QED BY <2>4, <2>5
<1>12. f \notin TA_WMUL => Alone(k'.wque[f])
  <2>1. \A u : Linked(k'.wque[f], u) => Linked(q, u) BY <1>7 DEF Linked
  <2> QED BY <2>1, <1>2 DEF FlagQueue, Alone, q
<1>13. FlagQueue(f, flgptn, winfo_flg)' BY <1>11, <1>12 DEF FlagQueue
<1> QED BY <1>4, <1>7, <1>8, <1>9, <1>13, OtherFlags

LEMMA FlgCalls ==
    ASSUME FlgAssumption, FlgInv, NEW f \in Flg, FlgCall(f)
    PROVE  FlgInv'
<1>1. f \in Wobj /\ wfactor[f] = "FLG" BY DEF FlgAssumption
<1>2. /\ KernelInv /\ flgptn \in [Flg -> FLGPTN]
      /\ winfo_flg \in [Task -> FlgWait \cup {NULL}]
      /\ FlagQueue(f, flgptn, winfo_flg)
  BY DEF FlgInv
<1>3. k.wque[f] \in Seq(Task) BY <1>2, FlagQueued
<1>4. ASSUME k' = k, winfo_flg' = alive_flg(winfo_flg),
             NEW ptn, ptn \subseteq flgptn[f], flgptn' = [flgptn EXCEPT ![f] = ptn]
      PROVE  FlgInv'
  <2>1. FlgAlive(winfo_flg) BY <1>2, <1>4, AliveFlg
  <2>2. flgptn'[f] = ptn /\ ptn \in FLGPTN BY <1>2, <1>4 DEF FLGPTN
  <2>3. FlagQueue(f, flgptn, winfo_flg)' BY <2>1, <2>2, <1>3, <1>4, FlagKept
  <2> QED BY <2>1, <2>2, <2>3, <1>2, <1>4, OtherFlags DEF KernelInv
<1>5. ASSUME NEW setptn \in FLGPTN, set_flg(f, setptn) PROVE FlgInv'
  BY <1>5, SetFlagInv
<1>6. ASSUME NEW clrptn \in FLGPTN, clr_flg(f, clrptn) PROVE FlgInv'
  <2>1. flgptn' = [flgptn EXCEPT ![f] = flgptn[f] \cap clrptn] BY <1>6 DEF clr_flg
  <2> QED BY <2>1, <1>4, <1>6 DEF clr_flg
<1>7. ASSUME NEW w, check_flg_cond(f, w) PROVE FlgInv'
  <2>1. flgptn' = [flgptn EXCEPT ![f] = after_release(f, flgptn[f])]
    BY <1>7 DEF check_flg_cond
  <2>2. after_release(f, flgptn[f]) \subseteq flgptn[f] BY DEF after_release
  <2> QED BY <2>1, <2>2, <1>4, <1>7 DEF check_flg_cond
<1>8. ASSUME NEW w \in WInfoFlg, MayWait, may_wait(f),
             \/ wait_flg(f, w, wobj_make_wait(waiting_for("FLG"), f))
             \/ wait_flg(f, w, wobj_make_wait_tmout(waiting_for("FLG"), f))
      PROVE  FlgInv'
  <2> DEFINE t == k.runtsk
             winfo == [winfo_flg EXCEPT ![t] = w]
  <2>1. t \in Task BY <1>2, <1>8, Caller
  <2>2. KernelInv' /\ Joins(k, k', f, t) BY <1>1, <1>2, <1>8, WaitCalls DEF wait_flg
  <2>3. /\ ~Satisfies(flgptn[f], w) /\ flgptn' = flgptn /\ winfo_flg' = alive_flg(winfo)
    BY <1>8 DEF wait_flg
  <2>4. winfo \in [Task -> FlgWait \cup {NULL}] /\ winfo[t] = w
        /\ \A u \in Task \ {t} : winfo[u] = winfo_flg[u]
    BY <2>1, <1>2 DEF WInfoFlg, FlgWait
  <2> HIDE DEF winfo
  <2>5. FlgAlive(winfo) BY <2>3, <2>4, AliveFlg
  <2>6. \A v \in Wobj : ~Linked(k.wque[v], t) BY <2>1, <1>2, NotQueued
  <2>7. ASSUME NEW g \in Flg, NEW u \in Task, Linked(k'.wque[g], u), u # t
        PROVE  Linked(k.wque[g], u)
    BY <2>2, <2>7 DEF Joins, FlgAssumption
  <2>8. ASSUME NEW g \in Flg, Linked(k'.wque[g], t) PROVE g = f
    <3>1. g \in Wobj BY DEF FlgAssumption
    <3> QED BY <3>1, <2>2, <2>6, <2>8 DEF Joins
  <2> HIDE DEF t
  <2>9. ASSUME NEW g \in Flg, NEW u \in Task, Linked(k'.wque[g], u)
        PROVE  winfo_flg'[u] \in WInfoFlg /\ ~Satisfies(flgptn'[g], winfo_flg'[u])
    <3>1. winfo_flg'[u] = winfo[u] BY <2>5, <2>9 DEF FlgAlive
    <3>2. CASE u = t BY <3>1, <3>2, <2>3, <2>4, <2>8, <2>9
    <3>3. CASE u # t
      <4>1. FlagQueue(g, flgptn, winfo_flg) BY DEF FlgInv
      <4> QED BY <4>1, <3>1, <3>3, <2>3, <2>4, <2>7, <2>9 DEF FlagQueue
    <3> QED BY <3>2, <3>3
  <2>10. ASSUME NEW g \in Flg, g \notin TA_WMUL PROVE Alone(k'.wque[g])
    <3>1. FlagQueue(g, flgptn, winfo_flg) BY DEF FlgInv
    <3>2. CASE g = f
      <4>1. k.wque[f] = << >> BY <1>8, <2>10, <3>2 DEF may_wait, queue_empty
      <4>2. \A u : ~Linked(k.wque[f], u) BY <4>1 DEF Linked
      <4>3. \A u : Linked(k'.wque[f], u) => u = t BY <4>2, <2>2 DEF Joins
      <4> QED BY <4>3, <3>2 DEF Alone
    <3>3. CASE g # f
      <4>1. k'.wque[g] = k.wque[g] BY <3>3, <2>2 DEF Joins, FlgAssumption
      <4> QED BY <4>1, <3>1, <2>10 DEF FlagQueue
    <3> QED BY <3>2, <3>3
  <2>11. \A g \in Flg : FlagQueue(g, flgptn, winfo_flg)' BY <2>9, <2>10 DEF FlagQueue
  <2> QED BY <2>2, <2>3, <2>5, <2>11, <1>2 DEF FlgInv, FlgAlive
<1>9. ASSUME ini_flg(f) PROVE FlgInv'
  <2>1. /\ k' = dispatch(init_wait_queue(k, f)) /\ winfo_flg' = alive_flg(winfo_flg)
        /\ flgptn' = [flgptn EXCEPT ![f] = iflgptn[f]]
    BY <1>9 DEF ini_flg
  <2>2. KernelInv' /\ k'.wque[f] = << >> /\ \A v \in Wobj \ {f} : k'.wque[v] = k.wque[v]
    BY <2>1, <1>1, <1>2, ReleaseAll DEF KernelInv, NoneHeld
  <2>3. FlgAlive(winfo_flg) BY <2>1, <1>2, AliveFlg
  <2>4. iflgptn[f] \in FLGPTN BY DEF FlgAssumption
  <2>5. \A u : ~Linked(k'.wque[f], u) BY <2>2 DEF Linked
  <2>6. FlagQueue(f, flgptn, winfo_flg)' BY <2>5 DEF FlagQueue, Alone
  <2> QED BY <2>1, <2>2, <2>3, <2>4, <2>6, OtherFlags
<1>10. ASSUME NEW w \in WInfoFlg, wai_flg(f, w) \/ pol_flg(f, w) \/ twai_flg(f, w)
       PROVE  FlgInv'
  BY <1>7, <1>8, <1>10 DEF wai_flg, pol_flg, twai_flg, MayWait
<1> QED BY <1>5, <1>6, <1>9, <1>10 DEF FlgCall

LEMMA FlgInvNext == FlgAssumption /\ FlgInv /\ [FlgNext]_flg_vars => FlgInv'
<1> SUFFICES ASSUME FlgAssumption, FlgInv, [FlgNext]_flg_vars PROVE FlgInv' OBVIOUS
<1>1. CASE TaskNext /\ winfo_flg' = alive_flg(winfo_flg) /\ UNCHANGED flgptn
  <2>1. Follows(k, k') BY <1>1, InvNext DEF FlgInv, KernelInv
  <2>2. KernelInv' BY <2>1 DEF FlgInv, Follows, KernelInv
  <2>3. FlgAlive(winfo_flg) BY <1>1, AliveFlg DEF FlgInv
  <2>4. ASSUME NEW f \in Flg PROVE FlagQueue(f, flgptn, winfo_flg)'
    <3>1. f \in Wobj BY DEF FlgAssumption
    <3>2. \A t \in Task : Linked(k'.wque[f], t) => Linked(k.wque[f], t)
      BY <3>1, <2>1 DEF Follows
    <3>3. k' \in KernelState BY <2>1, Known DEF Follows
    <3>4. k'.wque[f] \in Seq(Task) BY <3>1, <3>3 DEF KernelState
    <3> QED BY <3>2, <3>4, <2>3, <1>1, FlagKept
  <2> QED BY <2>2, <2>3, <2>4, <1>1 DEF FlgInv, FlgAlive
<1>2. CASE \E f \in Flg : FlgCall(f) BY <1>2, FlgCalls
<1>3. CASE UNCHANGED flg_vars BY <1>3 DEF flg_vars, FlgInv, KernelInv, FlagQueue
<1> QED BY <1>1, <1>2, <1>3 DEF FlgNext

(* No task is left waiting for an event flag whose pattern satisfies it,   *)
(* in whatever order bits are set and cleared and tasks released before it *)
(* in the queue, and at most one waits where only one may; for every set of*)
(* tasks, flags and bits (eventflag.c).                                    *)
THEOREM FlagCorrect ==
    ASSUME FlgAssumption
    PROVE  FlgSpec => [](FlagWaitOK /\ TasksOK)
<1>1. FlgInit => FlgInv BY FlgInvInit
<1>2. FlgInv /\ [FlgNext]_flg_vars => FlgInv' BY FlgInvNext
<1>3. FlgInv => FlagWaitOK /\ TasksOK BY FlgInvOK, TasksSafe DEF FlgInv
<1> QED BY <1>1, <1>2, <1>3, PTL DEF FlgSpec

LEMMA SetFlagSteps ==
    ASSUME FlgAssumption, FlgInv, NEW f \in Flg, NEW setptn \in FLGPTN, set_flg(f, setptn)
    PROVE  SetFlagReleases(f, setptn)
<1> DEFINE q   == k.wque[f]
           ptn == flgptn[f] \cup setptn
           G   == Gone(f, q, ptn, winfo_flg, Len(q))
           H   == Hit(q, ptn, winfo_flg)
           hit == {t \in Range(q) : Satisfies(ptn, winfo_flg[t])}
           gone == Range(q) \ Range(k'.wque[f])
           one == \A t \in gone, u \in hit : u # t =>
                    \E h, i \in 1 .. Len(q) : h < i /\ q[h] = t /\ q[i] = u
<1>1. q \in Seq(Task) /\ NoTwice(q) /\ \A u : u \in Range(q) <=> Linked(q, u)
  BY FlagQueued DEF FlgInv
<1>2. FlagQueue(f, flgptn, winfo_flg) /\ flgptn \in [Flg -> FLGPTN] BY DEF FlgInv
<1>3. KernelInv' /\ FlagSet(f, q, ptn, G) BY SetFlag
<1>4. /\ G \subseteq H /\ H \subseteq 1 .. Len(q)
      /\ (f \notin TA_CLR => G = H) /\ (f \in TA_CLR => (G = {} <=> H = {}))
      /\ f \in TA_CLR => \A g \in G, i \in H : g <= i
  BY <1>1, GoneAll
<1>5. H = {i \in 1 .. Len(q) : Satisfies(ptn, winfo_flg[q[i]])} BY DEF Hit
<1> HIDE DEF G, H, ptn, q
<1>6. \A u : u \in Range(k'.wque[f]) <=> Linked(k'.wque[f], u)
  <2>1. k' \in KernelState /\ f \in Wobj BY <1>3, Known DEF KernelInv, FlgAssumption
  <2>2. k'.wque[f] \in Seq(Task) BY <2>1 DEF KernelState
  <2> QED BY <2>2 DEF Range, Linked
<1>7. /\ \A u : Linked(k'.wque[f], u) <=> \E i \in 1 .. Len(q) \ G : q[i] = u
      /\ flgptn' = [flgptn EXCEPT ![f] = IF f \in TA_CLR /\ G # {} THEN {} ELSE ptn]
      /\ \A i \in G : winfo_flg'[q[i]] = [winfo_flg[q[i]] EXCEPT !.waiptn = ptn]
  BY <1>3, <1>4 DEF FlagSet
<1>8. \A t : t \in gone <=> \E i \in G : q[i] = t
  <2>1. \A t : t \in gone <=> Linked(q, t) /\ ~(\E i \in 1 .. Len(q) \ G : q[i] = t)
    BY <1>1, <1>6, <1>7
  <2>2. \A i, h \in 1 .. Len(q) : q[i] = q[h] => i = h BY <1>1 DEF NoTwice
  <2> HIDE DEF gone
  <2> QED BY <2>1, <2>2, <1>4 DEF Linked
<1>9. \A t : t \in hit <=> \E i \in H : q[i] = t BY <1>1, <1>5 DEF Linked
<1> HIDE DEF gone, hit
<1>10. gone \subseteq hit BY <1>4, <1>8, <1>9
<1>11. hit = {} <=> H = {} BY <1>9
<1>12. gone = {} <=> G = {} BY <1>8
<1>13. ASSUME f \in TA_CLR PROVE one
  <2> SUFFICES ASSUME NEW t \in gone, NEW u \in hit, u # t
               PROVE  \E h, i \in 1 .. Len(q) : h < i /\ q[h] = t /\ q[i] = u
    OBVIOUS
  <2>1. PICK g \in G, i \in H : q[g] = t /\ q[i] = u BY <1>8, <1>9
  <2>2. g <= i /\ g # i /\ g \in 1 .. Len(q) /\ i \in 1 .. Len(q) BY <2>1, <1>4, <1>13
  <2>3. g < i BY <2>2
  <2> QED BY <2>1, <2>2, <2>3
<1>14. f \notin TA_CLR => gone = hit BY <1>4, <1>8, <1>9
<1>15. flgptn'[f] = IF f \in TA_CLR /\ hit # {} THEN {} ELSE ptn
  BY <1>2, <1>4, <1>7, <1>11
<1>16. \A t \in gone : winfo_flg'[t].waiptn = ptn
  <2> TAKE t \in gone
  <2>1. PICK i \in G : q[i] = t BY <1>8
  <2>2. Linked(q, t) /\ t \in Task BY <2>1, <1>1, <1>4 DEF Linked
  <2>3. winfo_flg[t] \in WInfoFlg BY <2>2, <1>2 DEF FlagQueue, q
  <2>4. winfo_flg'[t] = [winfo_flg[t] EXCEPT !.waiptn = ptn] BY <2>1, <1>7
  <2> QED BY <2>3, <2>4 DEF WInfoFlg
<1>17. IF f \in TA_CLR THEN (gone = {} <=> hit = {}) /\ one ELSE gone = hit
  BY <1>4, <1>11, <1>12, <1>13, <1>14
<1> HIDE DEF one
<1> QED BY <1>10, <1>15, <1>16, <1>17 DEF SetFlagReleases, hit, gone, one, ptn, q

(* set_flg releases just the tasks it should: all that the new pattern     *)
(* satisfies, or, where it is cleared then, the first of them; each is     *)
(* given the pattern (the loop in set_flg, eventflag.c).                   *)
THEOREM SetFlagCorrect ==
    ASSUME FlgAssumption
    PROVE  FlgSpec => SetFlagOK
<1>1. FlgInit => FlgInv BY FlgInvInit
<1>2. FlgInv /\ [FlgNext]_flg_vars => FlgInv' BY FlgInvNext
<1>3. FlgInv => [\A f \in Flg : SetFlagStep(f)]_flg_vars BY SetFlagSteps DEF SetFlagStep
<1> QED BY <1>1, <1>2, <1>3, PTL DEF FlgSpec, SetFlagOK

-----------------------------------------------------------------------------
(* kernel/mempfix.c: the tasks, first of all, for any application.         *)
LEMMA PoolKernel ==
    ASSUME KernelInv,
           [get_mpf \/ pget_mpf \/ tget_mpf \/ rel_mpf \/ ini_mpf
            \/ (\E b \in Block : rel_mpf_check(b)) \/ Interrupt \/ OtherCall(TaskNext)]_mpf_vars
    PROVE  KernelInv'
<1>1. pool \in Wobj /\ wfactor[pool] = "MPF" BY MpfAssumption
<1>2. CASE k' = k BY <1>2 DEF KernelInv
<1>3. CASE /\ MayWait
           /\ \/ k' = dispatch(wobj_make_wait(waiting_for("MPF"), pool))
              \/ k' = dispatch(wobj_make_wait_tmout(waiting_for("MPF"), pool))
  BY <1>1, <1>3, WaitCalls
<1>4. CASE /\ k.wque[pool] # << >>
           /\ k' = dispatch(wait_complete([k EXCEPT !.wque[pool] = Tail(@)],
                                          Head(k.wque[pool])))
  BY <1>1, <1>4, ReleaseHead DEF KernelInv, NoneHeld
<1>5. CASE ini_mpf BY <1>1, <1>5, ReleaseAll DEF KernelInv, NoneHeld, ini_mpf
<1>6. CASE TaskNext BY <1>6, InvNext DEF KernelInv, Follows
<1>7. CASE irq_entry BY <1>7, SystemSteps DEF KernelInv, Follows
<1>8. CASE get_mpf \/ pget_mpf \/ tget_mpf
  BY <1>2, <1>3, <1>8
     DEF get_mpf, pget_mpf, tget_mpf, take_block, wait_block, MayWait
<1>9. CASE rel_mpf BY <1>2, <1>4, <1>9 DEF rel_mpf, queue_empty
<1> QED BY <1>2, <1>5, <1>6, <1>7, <1>8, <1>9
        DEF rel_mpf_check, Interrupt, OtherCall, mpf_vars

(* The pool does not disturb the tasks, whatever the application gives     *)
(* back (mempfix.c, wait.c).                                               *)
THEOREM PoolTasksCorrect == MpfSpec => []TasksOK
<1>1. MpfInit => KernelInv BY InvInit DEF MpfInit, KernelInv
<1>2. KernelInv /\ [MpfNext]_mpf_vars => KernelInv'
  BY PoolKernel DEF MpfNext, MpfCall
<1>3. KernelInv => TasksOK BY TasksSafe
<1> QED BY <1>1, <1>2, <1>3, PTL DEF MpfSpec

-----------------------------------------------------------------------------
(* The free list of m links the blocks of s.                               *)
Chain(m, s) ==
    /\ s \in Seq(Block) /\ NoTwice(s)
    /\ m.freelist = IF s = << >> THEN INDEX_NULL ELSE s[1]
    /\ \A i \in 1 .. Len(s) :
         /\ s[i] < m.unused
         /\ m.next[s[i]] = IF i = Len(s) THEN INDEX_NULL ELSE s[i + 1]

LEMMA Sizes == blkcnt \in Nat /\ blkcnt >= 1 /\ \A b \in Block : b \in Nat /\ b # INDEX_NULL
BY MpfAssumption DEF Block, INDEX_NULL

LEMMA BlockFinite == IsFiniteSet(Block) /\ Cardinality(Block) = blkcnt
<1>1. 0 \in Int /\ blkcnt - 1 \in Int /\ ~(0 > blkcnt - 1) BY Sizes
<1>2. IsFiniteSet(0 .. blkcnt - 1) /\ Cardinality(0 .. blkcnt - 1) = blkcnt - 1 - 0 + 1
  BY <1>1, FS_Interval
<1> QED BY <1>2, Sizes DEF Block

LEMMA LinkedBlocks ==
    ASSUME NEW s \in Seq(Block), NoTwice(s)
    PROVE  /\ Len(s) \in 0 .. blkcnt
           /\ IsFiniteSet(Range(s)) /\ Cardinality(Range(s)) = Len(s)
           /\ \A b : b \in Range(s) <=> Linked(s, b)
<1> DEFINE I == 1 .. Len(s)
<1>1. Len(s) \in Nat /\ s \in [I -> Block] /\ DOMAIN s = I OBVIOUS
<1>2. Range(s) = {s[i] : i \in I} BY <1>1 DEF Range
<1>3. \A b : b \in Range(s) <=> Linked(s, b) BY <1>2 DEF Linked
<1>4. s \in Injection(I, Block) BY <1>1 DEF Injection, IsInjective, NoTwice
<1>5. s \in Surjection(I, Range(s)) BY <1>1, <1>2 DEF Surjection
<1>6. 1 \in Int /\ Len(s) \in Int BY <1>1
<1>7. IsFiniteSet(I) /\ Cardinality(I) = Len(s) BY <1>1, <1>6, FS_Interval
<1>8. s \in Injection(I, Range(s)) BY <1>1, <1>2 DEF Injection, IsInjective, NoTwice
<1> HIDE DEF I
<1>9. Cardinality(I) <= Cardinality(Block) BY <1>4, BlockFinite, FS_Injection
<1>10. IsFiniteSet(Range(s)) /\ Cardinality(Range(s)) = Cardinality(I)
  BY <1>5, <1>7, <1>8, FS_Surjection
<1> QED BY <1>1, <1>3, <1>7, <1>9, <1>10, BlockFinite

(* FreeList reads the chain off.                                           *)
LEMMA ReadChain ==
    ASSUME NEW s, Chain(mpf, s)
    PROVE  FreeList = s
<1> DEFINE walk[n \in 0 .. blkcnt] ==
             IF n = 0 THEN << >>
             ELSE LET list == walk[n - 1]
                      next == IF list = << >> THEN mpf.freelist ELSE mpf.next[Last(list)]
                  IN  IF next \notin Block THEN list ELSE Append(list, next)
           step(list) ==
             LET next == IF list = << >> THEN mpf.freelist ELSE mpf.next[Last(list)]
             IN  IF next \notin Block THEN list ELSE Append(list, next)
           body(g) == [n \in 0 .. blkcnt |-> IF n = 0 THEN << >> ELSE step(g[n - 1])]
           part(n) == IF n <= Len(s) THEN SubSeq(s, 1, n) ELSE s
           g == [n \in 0 .. blkcnt |-> part(n)]
<1>1. walk = CHOOSE h : h = body(h) BY Zenon
<1>2. FreeList = walk[blkcnt] BY Zenon DEF FreeList
<1> HIDE DEF walk
<1>3. /\ s \in Seq(Block) /\ NoTwice(s) /\ Len(s) \in 0 .. blkcnt /\ blkcnt \in Nat
      /\ INDEX_NULL \notin Block
  BY LinkedBlocks, Sizes DEF Chain
<1>4. part(0) = << >> BY <1>3
<1>0. \A n \in 0 .. blkcnt : n >= Len(s) => part(n) = s
  <2>1. SubSeq(s, 1, Len(s)) = s BY <1>3
  <2>2. ASSUME NEW n \in 0 .. blkcnt, n >= Len(s) PROVE part(n) = s
    <3>1. CASE n = Len(s)
      <4>1. part(n) = SubSeq(s, 1, n) BY <3>1, <1>3
      <4> QED BY <4>1, <3>1, <2>1
    <3>2. CASE n # Len(s)
      <4>1. ~(n <= Len(s)) BY <2>2, <3>2, <1>3
      <4> QED BY <4>1
    <3> QED BY <3>1, <3>2
  <2> QED BY <2>2
<1>5. ASSUME NEW n \in 1 .. blkcnt PROVE step(part(n - 1)) = part(n)
  <2>1. CASE n <= Len(s)
    <3> DEFINE l == SubSeq(s, 1, n - 1)
    <3>1. part(n - 1) = l /\ part(n) = SubSeq(s, 1, n) BY <2>1, <1>3
    <3>2. /\ l \in Seq(Block) /\ Len(l) = n - 1 /\ \A i \in 1 .. n - 1 : l[i] = s[i]
          /\ s[n] \in Block
      BY <2>1, <1>3
    <3>3. Append(l, s[n]) = SubSeq(s, 1, n) BY <2>1, <1>3
    <3> HIDE DEF l
    <3>4. CASE n = 1
      <4>1. l = << >> /\ mpf.freelist = s[n] BY <2>1, <3>2, <3>4, <1>3 DEF Chain
      <4> QED BY <4>1, <3>1, <3>2, <3>3
    <3>5. CASE n # 1
      <4>1. l # << >> /\ Last(l) = s[n - 1] BY <3>2, <3>5 DEF Last
      <4>2. n - 1 \in 1 .. Len(s) /\ n - 1 # Len(s) /\ (n - 1) + 1 = n BY <2>1, <3>5, <1>3
      <4>3. mpf.next[s[n - 1]] = s[n] BY <4>2 DEF Chain
      <4> QED BY <4>1, <4>3, <3>1, <3>2, <3>3
    <3> QED BY <3>4, <3>5
  <2>2. CASE n > Len(s)
    <3>1. part(n - 1) = s /\ part(n) = s
      <4>1. n - 1 \in 0 .. blkcnt /\ n \in 0 .. blkcnt /\ n - 1 >= Len(s) /\ n >= Len(s)
        BY <2>2, <1>3
      <4> HIDE DEF part
      <4> QED BY <4>1, <1>0
    <3>2. CASE s = << >>
      <4>1. mpf.freelist = INDEX_NULL BY <3>2 DEF Chain
      <4>2. step(s) = s BY <4>1, <3>2, <1>3
      <4> HIDE DEF step, part
      <4> QED BY <4>2, <3>1
    <3>3. CASE s # << >>
      <4>1. Last(s) = s[Len(s)] /\ Len(s) \in 1 .. Len(s) BY <3>3, <1>3 DEF Last
      <4>2. mpf.next[s[Len(s)]] = INDEX_NULL BY <4>1 DEF Chain
      <4>3. step(s) = s BY <4>1, <4>2, <3>3, <1>3
      <4> HIDE DEF step, part
      <4> QED BY <4>3, <3>1
    <3> QED BY <3>2, <3>3
  <2>3. n <= Len(s) \/ n > Len(s) BY <1>3
  <2> HIDE DEF step, part
  <2> QED BY <2>1, <2>2, <2>3
<1> HIDE DEF step, part
<1>6. g = body(g)
  <2>1. ASSUME NEW n \in 0 .. blkcnt PROVE g[n] = body(g)[n]
    <3>1. CASE n = 0 BY <3>1, <1>3, <1>4
    <3>2. CASE n # 0
      <4>1. n \in 1 .. blkcnt /\ n - 1 \in 0 .. blkcnt BY <3>2, <1>3
      <4> QED BY <4>1, <3>2, <1>5
    <3> QED BY <3>1, <3>2
  <2>2. body(g) = [n \in 0 .. blkcnt |-> body(g)[n]] OBVIOUS
  <2>3. g = [n \in 0 .. blkcnt |-> g[n]] OBVIOUS
  <2> HIDE DEF body, g
  <2> QED BY <2>1, <2>2, <2>3
<1>7. walk = body(walk)
  <2> HIDE DEF body, g
  <2> QED BY <1>1, <1>6
<1>8. \A n \in 0 .. blkcnt : walk[n] = part(n)
  <2> DEFINE P == {n \in 0 .. blkcnt : walk[n] = part(n)}
  <2>1. 0 \in P
    <3>1. walk[0] = body(walk)[0] BY <1>7
    <3> QED BY <3>1, <1>3, <1>4
  <2>2. ASSUME NEW n \in 0 .. blkcnt - 1, n \in P PROVE n + 1 \in P
    <3>1. n + 1 \in 1 .. blkcnt /\ n + 1 \in 0 .. blkcnt /\ n + 1 # 0 /\ (n + 1) - 1 = n
      BY <1>3
    <3>2. walk[n + 1] = body(walk)[n + 1] /\ walk[n] = part(n) BY <1>7, <2>2
    <3>3. body(walk)[n + 1] = step(walk[n]) BY <3>1
    <3>4. step(part(n)) = part(n + 1) BY <3>1, <1>5
    <3> QED BY <3>1, <3>2, <3>3, <3>4
  <2> HIDE DEF P
  <2>3. \A n \in 0 .. blkcnt : n \in P BY <1>3, <2>1, <2>2, Induct
  <2> QED BY <2>3 DEF P
<1>9. part(blkcnt) = s BY <1>0, <1>3
<1> QED BY <1>2, <1>3, <1>8, <1>9

\* the blocks that can be handed out, when the free list links those of s
Free(m, s) == {b \in Block : Linked(s, b) \/ b >= m.unused}

LEMMA CountFree ==
    ASSUME mpf \in Mpfcb, NEW s, Chain(mpf, s)
    PROVE  /\ Unallocated = Free(mpf, s)
           /\ Cardinality(Unallocated) = Len(s) + (blkcnt - mpf.unused)
<1> DEFINE R == Range(s)
           U == {b \in Block : b >= mpf.unused}
<1>1. /\ s \in Seq(Block) /\ NoTwice(s) /\ mpf.unused \in 0 .. blkcnt /\ blkcnt \in Nat
      /\ \A i \in 1 .. Len(s) : s[i] < mpf.unused
  BY Sizes DEF Chain, Mpfcb
<1>2. /\ Len(s) \in Nat /\ IsFiniteSet(R) /\ Cardinality(R) = Len(s)
      /\ \A b : b \in R <=> Linked(s, b)
  BY <1>1, LinkedBlocks
<1>3. Unallocated = R \cup U BY ReadChain DEF Unallocated
<1>4. R \subseteq Block /\ \A b \in R : b < mpf.unused BY <1>1, <1>2 DEF Linked
<1>5. IsFiniteSet(U) /\ Cardinality(U) = blkcnt - mpf.unused
  <2>1. mpf.unused \in Int /\ blkcnt - 1 \in Int BY <1>1
  <2>2. U = mpf.unused .. blkcnt - 1 BY <1>1 DEF Block
  <2> HIDE DEF U
  <2>3. /\ IsFiniteSet(U)
        /\ Cardinality(U) = IF mpf.unused > blkcnt - 1 THEN 0 ELSE blkcnt - 1 - mpf.unused + 1
    BY <2>1, <2>2, FS_Interval
  <2>4. mpf.unused \in Nat /\ blkcnt \in Nat /\ mpf.unused <= blkcnt BY <1>1
  <2> QED BY <2>3, <2>4
<1>6. Unallocated = Free(mpf, s) BY <1>2, <1>3, <1>4 DEF Free
<1>7. R \cap U = {}
  <2>1. \A b \in Block : b \in Int /\ mpf.unused \in Int BY <1>1, Sizes
  <2> QED BY <2>1, <1>4
<1> HIDE DEF R, U
<1>8. Cardinality(R \cup U) = Cardinality(R) + Cardinality(U) - Cardinality(R \cap U)
  BY <1>2, <1>5, FS_Union
<1>9. Cardinality(R \cap U) = 0 BY <1>7, FS_EmptySet
<1>10. Cardinality(Unallocated) = Len(s) + (blkcnt - mpf.unused)
  BY <1>1, <1>2, <1>3, <1>5, <1>8, <1>9
<1> QED BY <1>6, <1>10

(* The invariant of an application that keeps to the rules: the free list  *)
(* is a chain, the blocks are counted and marked, and who gives one back   *)
(* holds it.                                                               *)
BlocksInv(m, s) ==
    /\ m \in Mpfcb /\ Chain(m, s)
    /\ m.fblkcnt = Len(s) + (blkcnt - m.unused)
    /\ \A b \in Block \ Free(m, s) : m.next[b] = INDEX_ALLOC

HeldInv(m, s, h) ==
    /\ h \in [Task -> SUBSET Block]
    /\ \A t \in Task : h[t] \cap Free(m, s) = {}
    /\ \A t, u \in Task : t # u => h[t] \cap h[u] = {}

ReleasingInv(r, h) == \A t \in Task : r[t] # NULL => r[t] \in h[t]

PoolInv ==
    /\ KernelInv
    /\ \E s : BlocksInv(mpf, s) /\ HeldInv(mpf, s, held)
    /\ releasing \in [Task -> Block \cup {NULL}] /\ ReleasingInv(releasing, held)
    /\ mpf.fblkcnt > 0 => k.wque[pool] = << >>

\* what is not in the chain and below unused is allocated
LEMMA FreeType ==
    ASSUME NEW m \in Mpfcb, NEW s, Chain(m, s)
    PROVE  /\ m.unused \in 0 .. blkcnt /\ m.fblkcnt \in 0 .. blkcnt /\ blkcnt \in Nat
           /\ m.next \in [Block -> Block \cup {INDEX_NULL, INDEX_ALLOC}]
           /\ s \in Seq(Block) /\ NoTwice(s) /\ Len(s) \in 0 .. blkcnt
           /\ \A b : Linked(s, b) => b \in Block
           /\ \A b \in Block : b \in Nat /\ (b \notin Free(m, s) <=> ~Linked(s, b) /\ b < m.unused)
<1>1. /\ m.unused \in 0 .. blkcnt /\ m.fblkcnt \in 0 .. blkcnt /\ blkcnt \in Nat
      /\ m.next \in [Block -> Block \cup {INDEX_NULL, INDEX_ALLOC}]
      /\ s \in Seq(Block) /\ NoTwice(s) /\ \A b \in Block : b \in Nat
  BY Sizes DEF Chain, Mpfcb
<1>2. Len(s) \in 0 .. blkcnt BY <1>1, LinkedBlocks
<1>3. \A b : Linked(s, b) => b \in Block BY <1>1 DEF Linked
<1> QED BY <1>1, <1>2, <1>3 DEF Free

(* get_mpf_block takes a free block, marks it and counts it.               *)
LEMMA GetBlock ==
    ASSUME NEW s, BlocksInv(mpf, s), mpf.fblkcnt > 0
    PROVE  \E r : /\ BlocksInv(get_mpf_block, r)
                  /\ first_free \in Free(mpf, s)
                  /\ Free(get_mpf_block, r) = Free(mpf, s) \ {first_free}
                  /\ get_mpf_block.fblkcnt = mpf.fblkcnt - 1
<1> DEFINE b == first_free
           n == get_mpf_block
<1>1. /\ mpf \in Mpfcb /\ Chain(mpf, s) /\ mpf.fblkcnt = Len(s) + (blkcnt - mpf.unused)
      /\ \A c \in Block \ Free(mpf, s) : mpf.next[c] = INDEX_ALLOC
  BY DEF BlocksInv
<1>2. /\ mpf.unused \in 0 .. blkcnt /\ mpf.fblkcnt \in 0 .. blkcnt /\ blkcnt \in Nat
      /\ mpf.next \in [Block -> Block \cup {INDEX_NULL, INDEX_ALLOC}]
      /\ s \in Seq(Block) /\ NoTwice(s) /\ Len(s) \in 0 .. blkcnt
      /\ \A c : Linked(s, c) => c \in Block
      /\ \A c \in Block : c \in Nat /\ (c \notin Free(mpf, s) <=> ~Linked(s, c) /\ c < mpf.unused)
  BY <1>1, FreeType
<1>3. INDEX_NULL \notin Block BY Sizes
<1>4. CASE s # << >>
  <2> DEFINE r == Tail(s)
             next == [mpf.next EXCEPT ![b] = INDEX_ALLOC]
  <2>1. s[1] \in Block /\ Linked(s, s[1]) /\ 1 \in 1 .. Len(s) BY <1>2, <1>4 DEF Linked
  <2>2. b = s[1] /\ mpf.freelist = s[1] BY <2>1, <1>1, <1>3, <1>4 DEF Chain, first_free
  <2>3. n = [mpf EXCEPT !.freelist = mpf.next[s[1]], !.unused = mpf.unused,
                        !.fblkcnt = mpf.fblkcnt - 1, !.next = next]
    BY <2>1, <2>2, <1>3 DEF get_mpf_block, first_free
  <2>4. next \in [Block -> Block \cup {INDEX_NULL, INDEX_ALLOC}]
        /\ next[b] = INDEX_ALLOC /\ \A c \in Block : c # b => next[c] = mpf.next[c]
    BY <2>1, <2>2, <1>2
  <2>5. mpf.next[s[1]] = IF Len(s) = 1 THEN INDEX_NULL ELSE s[1 + 1]
    <3>1. \A i \in 1 .. Len(s) : mpf.next[s[i]] = IF i = Len(s) THEN INDEX_NULL ELSE s[i + 1]
      BY <1>1 DEF Chain
    <3> QED BY <3>1, <2>1
  <2>6. mpf.next[s[1]] \in Block \cup {INDEX_NULL}
    <3>1. CASE Len(s) = 1 BY <3>1, <2>5
    <3>2. CASE Len(s) # 1
      <4>0. Len(s) \in Int /\ Len(s) >= 1 BY <2>1, <1>2
      <4>1. 2 \in 1 .. Len(s) /\ 1 + 1 = 2 BY <4>0, <3>2
      <4>2. s[2] \in Block BY <4>1, <1>2
      <4> QED BY <4>1, <4>2, <3>2, <2>5
    <3> QED BY <3>1, <3>2
  <2>7. mpf.fblkcnt - 1 \in 0 .. blkcnt BY <1>2
  <2> HIDE DEF next, b, n
  <2>8. n \in Mpfcb BY <2>3, <2>4, <2>6, <2>7, <1>1 DEF Mpfcb
  <2>9. /\ n.freelist = mpf.next[s[1]] /\ n.unused = mpf.unused
        /\ n.fblkcnt = mpf.fblkcnt - 1 /\ n.next = next
    BY <2>3, <1>1 DEF Mpfcb
  <2>10. /\ r \in Seq(Block) /\ Len(r) = Len(s) - 1 /\ Len(s) >= 1
         /\ \A i \in 1 .. Len(r) : i + 1 \in 1 .. Len(s) /\ r[i] = s[i + 1]
    BY <1>2, <1>4
  <2> HIDE DEF r
  <2>11. NoTwice(r)
    <3> SUFFICES ASSUME NEW i \in 1 .. Len(r), NEW h \in 1 .. Len(r), r[i] = r[h]
                 PROVE  i = h
      BY DEF NoTwice
    <3>1. /\ i + 1 \in 1 .. Len(s) /\ r[i] = s[i + 1]
          /\ h + 1 \in 1 .. Len(s) /\ r[h] = s[h + 1]
      BY <2>10
    <3>2. i + 1 = h + 1 BY <3>1, <1>2 DEF NoTwice
    <3> QED BY <3>2, <2>10
  <2>12. \A c : Linked(r, c) <=> Linked(s, c) /\ c # b
    <3>1. ASSUME NEW c, Linked(r, c) PROVE Linked(s, c) /\ c # b
      <4>1. PICK i \in 1 .. Len(r) : r[i] = c BY <3>1 DEF Linked
      <4>2. i + 1 \in 1 .. Len(s) /\ s[i + 1] = c /\ i + 1 # 1 BY <4>1, <2>10
      <4>3. s[i + 1] # s[1] BY <4>2, <2>1, <1>2 DEF NoTwice
      <4> QED BY <4>2, <4>3, <2>2 DEF Linked
    <3>2. ASSUME NEW c, Linked(s, c), c # b PROVE Linked(r, c)
      <4>1. PICK i \in 1 .. Len(s) : s[i] = c BY <3>2 DEF Linked
      <4>2. i # 1 BY <4>1, <3>2, <2>2
      <4>3. i - 1 \in 1 .. Len(r) /\ (i - 1) + 1 = i BY <4>1, <4>2, <2>10, <1>2
      <4>4. r[i - 1] = c BY <4>1, <4>3, <2>10
      <4> QED BY <4>3, <4>4 DEF Linked
    <3> QED BY <3>1, <3>2
  <2>13. Chain(n, r)
    <3>1. n.freelist = IF r = << >> THEN INDEX_NULL ELSE r[1]
      <4>1. CASE Len(s) = 1
        <5>1. r = << >> BY <4>1, <2>10
        <5> QED BY <5>1, <4>1, <2>5, <2>9
      <4>2. CASE Len(s) # 1
        <5>1. r # << >> /\ 1 \in 1 .. Len(r) BY <4>2, <2>10, <1>2
        <5>2. r[1] = s[1 + 1] BY <5>1, <2>10
        <5> QED BY <5>1, <5>2, <4>2, <2>5, <2>9
      <4> QED BY <4>1, <4>2
    <3>2. ASSUME NEW i \in 1 .. Len(r)
          PROVE  /\ r[i] < n.unused
                 /\ n.next[r[i]] = IF i = Len(r) THEN INDEX_NULL ELSE r[i + 1]
      <4>0. i \in Int /\ Len(r) \in Int /\ Len(s) \in Int BY <2>10, <1>2
      <4>5. i # Len(r) => r[i + 1] = s[(i + 1) + 1]
        <5>1. i # Len(r) => i + 1 \in 1 .. Len(r) BY <4>0
        <5> QED BY <5>1, <2>10
      <4>1. /\ i + 1 \in 1 .. Len(s) /\ r[i] = s[i + 1]
            /\ i + 1 = Len(s) <=> i = Len(r)
            /\ i # Len(r) => r[i + 1] = s[(i + 1) + 1]
        <5>1. i + 1 \in 1 .. Len(s) /\ r[i] = s[i + 1] BY <2>10
        <5>2. i + 1 = Len(s) <=> i = Len(r) BY <4>0, <2>10
        <5> QED BY <5>1, <5>2, <4>5
      <4>2. s[i + 1] < mpf.unused
            /\ mpf.next[s[i + 1]] = IF i + 1 = Len(s) THEN INDEX_NULL ELSE s[(i + 1) + 1]
        BY <4>1, <1>1 DEF Chain
      <4>3. Linked(r, r[i]) BY DEF Linked
      <4>4. r[i] # b /\ r[i] \in Block BY <4>3, <2>12, <1>2
      <4> QED BY <4>1, <4>2, <4>4, <2>4, <2>9
    <3> QED BY <3>1, <3>2, <2>10, <2>11 DEF Chain
  <2>14. Free(n, r) = Free(mpf, s) \ {b}
    <3>1. b < mpf.unused /\ b \in Nat BY <2>1, <2>2, <1>1, <1>2 DEF Chain
    <3>2. \A c \in Block : c = b => ~(c >= n.unused) BY <3>1, <2>9, <1>2
    <3> QED BY <3>2, <2>9, <2>12 DEF Free
  <2>15. \A c \in Block \ Free(n, r) : n.next[c] = INDEX_ALLOC
    BY <2>4, <2>9, <2>14, <1>1
  <2>16. n.fblkcnt = Len(r) + (blkcnt - n.unused) BY <2>9, <2>10, <1>1, <1>2
  <2>17. BlocksInv(n, r) BY <2>8, <2>13, <2>15, <2>16 DEF BlocksInv
  <2>18. b \in Free(mpf, s) BY <2>1, <2>2 DEF Free
  <2> QED BY <2>9, <2>14, <2>17, <2>18 DEF n, b
<1>5. CASE s = << >>
  <2> DEFINE next == [mpf.next EXCEPT ![b] = INDEX_ALLOC]
  <2>1. b = mpf.unused /\ mpf.freelist = INDEX_NULL BY <1>1, <1>5 DEF Chain, first_free
  <2>2. Len(s) = 0 BY <1>5
  <2>3. b \in Block /\ mpf.unused + 1 \in 0 .. blkcnt BY <2>1, <2>2, <1>1, <1>2 DEF Block
  <2>4. n = [mpf EXCEPT !.freelist = INDEX_NULL, !.unused = mpf.unused + 1,
                        !.fblkcnt = mpf.fblkcnt - 1, !.next = next]
    BY <2>1 DEF get_mpf_block, first_free
  <2>5. next \in [Block -> Block \cup {INDEX_NULL, INDEX_ALLOC}]
        /\ next[b] = INDEX_ALLOC /\ \A c \in Block : c # b => next[c] = mpf.next[c]
    BY <2>3, <1>2
  <2>6. mpf.fblkcnt - 1 \in 0 .. blkcnt BY <1>2
  <2> HIDE DEF next, b, n
  <2>7. n \in Mpfcb BY <2>3, <2>4, <2>5, <2>6, <1>1 DEF Mpfcb
  <2>8. /\ n.freelist = INDEX_NULL /\ n.unused = mpf.unused + 1
        /\ n.fblkcnt = mpf.fblkcnt - 1 /\ n.next = next
    BY <2>4, <1>1 DEF Mpfcb
  <2>9. Chain(n, s) BY <2>2, <2>8, <1>2, <1>5 DEF Chain
  <2>10. Free(n, s) = Free(mpf, s) \ {b}
    <3>1. \A c : ~Linked(s, c) BY <2>2 DEF Linked
    <3>2. \A c \in Block : c >= n.unused <=> c >= mpf.unused /\ c # b
      BY <2>1, <2>8, <1>2
    <3> QED BY <3>1, <3>2 DEF Free
  <2>11. \A c \in Block \ Free(n, s) : n.next[c] = INDEX_ALLOC
    BY <2>5, <2>8, <2>10, <1>1
  <2>12. n.fblkcnt = Len(s) + (blkcnt - n.unused) BY <2>8, <1>1, <1>2
  <2>13. BlocksInv(n, s) BY <2>7, <2>9, <2>11, <2>12 DEF BlocksInv
  <2>14. b \in Free(mpf, s) BY <2>1, <2>3, <1>2 DEF Free
  <2> QED BY <2>8, <2>10, <2>13, <2>14 DEF n, b
<1> QED BY <1>4, <1>5

\* rel_mpf puts block b at the head of the free list
FreeBlock(b) ==
    [mpf EXCEPT !.fblkcnt = @ + 1, !.next[b] = mpf.freelist, !.freelist = b]

LEMMA PutBlock ==
    ASSUME NEW s, BlocksInv(mpf, s), NEW b \in Block \ Free(mpf, s)
    PROVE  \E r : /\ BlocksInv(FreeBlock(b), r)
                  /\ Free(FreeBlock(b), r) = Free(mpf, s) \cup {b}
<1> DEFINE n == FreeBlock(b)
           r == <<b>> \o s
           next == [mpf.next EXCEPT ![b] = mpf.freelist]
<1>1. /\ mpf \in Mpfcb /\ Chain(mpf, s) /\ mpf.fblkcnt = Len(s) + (blkcnt - mpf.unused)
      /\ \A c \in Block \ Free(mpf, s) : mpf.next[c] = INDEX_ALLOC
  BY DEF BlocksInv
<1>2. /\ mpf.unused \in 0 .. blkcnt /\ mpf.fblkcnt \in 0 .. blkcnt /\ blkcnt \in Nat
      /\ mpf.next \in [Block -> Block \cup {INDEX_NULL, INDEX_ALLOC}]
      /\ s \in Seq(Block) /\ NoTwice(s) /\ Len(s) \in 0 .. blkcnt
      /\ \A c : Linked(s, c) => c \in Block
      /\ \A c \in Block : c \in Nat /\ (c \notin Free(mpf, s) <=> ~Linked(s, c) /\ c < mpf.unused)
  BY <1>1, FreeType
<1>3. /\ mpf.freelist = IF s = << >> THEN INDEX_NULL ELSE s[1]
      /\ mpf.freelist \in Block \cup {INDEX_NULL}
  BY <1>1 DEF Chain, Mpfcb
<1>4. b \in Block /\ ~Linked(s, b) /\ b < mpf.unused BY <1>2
<1>5. /\ next \in [Block -> Block \cup {INDEX_NULL, INDEX_ALLOC}]
      /\ next[b] = mpf.freelist /\ \A c \in Block : c # b => next[c] = mpf.next[c]
  BY <1>2, <1>3, <1>4
<1>6. n = [mpf EXCEPT !.fblkcnt = mpf.fblkcnt + 1, !.next = next, !.freelist = b]
  BY DEF FreeBlock
<1>7. /\ r \in Seq(Block) /\ Len(r) = Len(s) + 1 /\ r[1] = b
      /\ \A i \in 1 .. Len(s) : r[i + 1] = s[i]
  BY <1>2, <1>4
<1> HIDE DEF next, n, r
<1>8. \A i \in 1 .. Len(r) : i # 1 => i - 1 \in 1 .. Len(s) /\ r[i] = s[i - 1]
  <2> SUFFICES ASSUME NEW i \in 1 .. Len(r), i # 1
               PROVE  i - 1 \in 1 .. Len(s) /\ r[i] = s[i - 1]
    OBVIOUS
  <2>1. i - 1 \in 1 .. Len(s) /\ (i - 1) + 1 = i BY <1>2, <1>7
  <2> QED BY <2>1, <1>7
<1>9. NoTwice(r)
  <2> SUFFICES ASSUME NEW i \in 1 .. Len(r), NEW h \in 1 .. Len(r), r[i] = r[h]
               PROVE  i = h
    BY DEF NoTwice
  <2>1. ASSUME NEW j \in 1 .. Len(r), j # 1 PROVE r[j] # b
    <3>1. j - 1 \in 1 .. Len(s) /\ r[j] = s[j - 1] BY <2>1, <1>8
    <3> QED BY <3>1, <1>4 DEF Linked
  <2>2. CASE i = 1 \/ h = 1 BY <2>1, <2>2, <1>7
  <2>3. CASE i # 1 /\ h # 1
    <3>1. /\ i - 1 \in 1 .. Len(s) /\ r[i] = s[i - 1]
          /\ h - 1 \in 1 .. Len(s) /\ r[h] = s[h - 1]
      BY <2>3, <1>8
    <3>2. i - 1 = h - 1 BY <3>1, <1>2 DEF NoTwice
    <3> QED BY <3>2
  <2> QED BY <2>2, <2>3
<1>10. \A c : Linked(r, c) <=> Linked(s, c) \/ c = b
  <2>1. ASSUME NEW c, Linked(r, c), c # b PROVE Linked(s, c)
    <3>1. PICK i \in 1 .. Len(r) : r[i] = c BY <2>1 DEF Linked
    <3>2. i # 1 BY <3>1, <2>1, <1>7
    <3> QED BY <3>1, <3>2, <1>8 DEF Linked
  <2>2. ASSUME NEW c, Linked(s, c) PROVE Linked(r, c)
    <3>1. PICK i \in 1 .. Len(s) : s[i] = c BY <2>2 DEF Linked
    <3>2. i + 1 \in 1 .. Len(r)
      <4>1. Len(s) \in Nat /\ Len(r) = Len(s) + 1 BY <1>2, <1>7
      <4> QED BY <4>1
    <3>3. r[i + 1] = c BY <3>1, <1>7
    <3> QED BY <3>2, <3>3 DEF Linked
  <2>3. Linked(r, b)
    <3>1. 1 \in 1 .. Len(r) BY <1>2, <1>7
    <3> QED BY <3>1, <1>7 DEF Linked
  <2> QED BY <2>1, <2>2, <2>3
<1>11. mpf.fblkcnt + 1 \in 0 .. blkcnt /\ mpf.fblkcnt + 1 = Len(r) + (blkcnt - mpf.unused)
  <2>1. Len(r) <= mpf.unused
    <3> DEFINE X == 0 .. mpf.unused - 1
    <3>1. r \in [1 .. Len(r) -> X]
      <4>1. \A i \in 1 .. Len(s) : s[i] < mpf.unused BY <1>1 DEF Chain
      <4>2. ASSUME NEW i \in 1 .. Len(r) PROVE r[i] \in X
        <5>1. r[i] \in Block /\ r[i] \in Nat BY <1>2, <1>7
        <5>2. r[i] < mpf.unused BY <4>1, <1>4, <1>7, <1>8
        <5> QED BY <5>1, <5>2, <1>2
      <4> QED BY <4>2, <1>7
    <3>2. r \in Injection(1 .. Len(r), X) BY <3>1, <1>9 DEF Injection, IsInjective, NoTwice
    <3>3. 0 \in Int /\ mpf.unused - 1 \in Int /\ 1 \in Int /\ Len(r) \in Int BY <1>2, <1>7
    <3>4. IsFiniteSet(X) /\ Cardinality(X) = mpf.unused
      <4>1. /\ IsFiniteSet(X)
            /\ Cardinality(X) = IF 0 > mpf.unused - 1 THEN 0 ELSE mpf.unused - 1 - 0 + 1
        BY <3>3, FS_Interval
      <4> QED BY <4>1, <1>2
    <3>5. Cardinality(1 .. Len(r)) = Len(r)
      <4>1. Cardinality(1 .. Len(r)) = IF 1 > Len(r) THEN 0 ELSE Len(r) - 1 + 1
        BY <3>3, FS_Interval
      <4> QED BY <4>1, <1>2, <1>7
    <3> HIDE DEF X
    <3> QED BY <3>2, <3>4, <3>5, FS_Injection
  <2> QED BY <2>1, <1>1, <1>2, <1>7
<1>12. n \in Mpfcb BY <1>1, <1>4, <1>5, <1>6, <1>11 DEF Mpfcb
<1>13. /\ n.freelist = b /\ n.unused = mpf.unused
       /\ n.fblkcnt = mpf.fblkcnt + 1 /\ n.next = next
  BY <1>1, <1>6 DEF Mpfcb
<1>14. Chain(n, r)
  <2>1. r # << >> BY <1>2, <1>7
  <2>2. ASSUME NEW i \in 1 .. Len(r)
        PROVE  /\ r[i] < n.unused
               /\ n.next[r[i]] = IF i = Len(r) THEN INDEX_NULL ELSE r[i + 1]
    <3>1. CASE i = 1
      <4>1. r[i] = b /\ n.next[r[i]] = mpf.freelist BY <3>1, <1>5, <1>7, <1>13
      <4>2. i = Len(r) <=> s = << >> BY <3>1, <1>2, <1>7
      <4>3. s # << >> => r[i + 1] = s[1] BY <3>1, <1>2, <1>7
      <4> QED BY <4>1, <4>2, <4>3, <1>3, <1>4, <1>13
    <3>2. CASE i # 1
      <4>1. /\ i - 1 \in 1 .. Len(s) /\ r[i] = s[i - 1]
            /\ i - 1 = Len(s) <=> i = Len(r)
            /\ i # Len(r) => r[i + 1] = s[(i - 1) + 1]
        <5>1. i - 1 \in 1 .. Len(s) /\ r[i] = s[i - 1] BY <3>2, <1>8
        <5>2. i \in Int /\ Len(s) \in Int /\ Len(r) = Len(s) + 1 BY <1>2, <1>7
        <5>3. i - 1 = Len(s) <=> i = Len(r) BY <5>2
        <5>4. ASSUME i # Len(r) PROVE r[i + 1] = s[(i - 1) + 1]
          <6>1. i \in 1 .. Len(s) /\ (i - 1) + 1 = i BY <5>2, <5>4, <1>7
          <6> QED BY <6>1, <1>7
        <5> QED BY <5>1, <5>3, <5>4
      <4>2. s[i - 1] < mpf.unused
            /\ mpf.next[s[i - 1]] = IF i - 1 = Len(s) THEN INDEX_NULL ELSE s[(i - 1) + 1]
        BY <4>1, <1>1 DEF Chain
      <4>3. Linked(s, s[i - 1]) BY <4>1 DEF Linked
      <4>4. s[i - 1] # b /\ s[i - 1] \in Block BY <4>3, <1>2, <1>4
      <4> QED BY <4>1, <4>2, <4>4, <1>5, <1>13
    <3> QED BY <3>1, <3>2
  <2> QED BY <2>1, <2>2, <1>7, <1>9, <1>13 DEF Chain
<1>15. Free(n, r) = Free(mpf, s) \cup {b} BY <1>4, <1>10, <1>13 DEF Free
<1>16. \A c \in Block \ Free(n, r) : n.next[c] = INDEX_ALLOC
  BY <1>1, <1>5, <1>13, <1>15
<1>17. BlocksInv(n, r) BY <1>11, <1>12, <1>13, <1>14, <1>16 DEF BlocksInv
<1> QED BY <1>15, <1>17 DEF n

(* Task t is given block f; and block b of a task is given back.           *)
Given(h, t, f) == [h EXCEPT ![t] = @ \cup {f}]

LEMMA GiveOut ==
    ASSUME NEW m, NEW s, NEW h, HeldInv(m, s, h), NEW t \in Task,
           NEW f \in Block, \A u \in Task : f \notin h[u],
           NEW n, NEW r, Free(n, r) \subseteq Free(m, s) \ {f}
    PROVE  HeldInv(n, r, Given(h, t, f)) /\ \A u \in Task : h[u] \subseteq Given(h, t, f)[u]
<1> DEFINE g == Given(h, t, f)
<1>1. h \in [Task -> SUBSET Block] BY DEF HeldInv
<1>2. g \in [Task -> SUBSET Block] /\ g[t] = h[t] \cup {f} /\ \A u \in Task \ {t} : g[u] = h[u]
  BY <1>1 DEF Given
<1> HIDE DEF g
<1>3. \A u \in Task : h[u] \subseteq g[u] /\ g[u] \subseteq h[u] \cup {f} BY <1>2
<1>4. \A u \in Task : g[u] \cap Free(n, r) = {} BY <1>3 DEF HeldInv
<1>5. ASSUME NEW u \in Task, NEW v \in Task, u # v PROVE g[u] \cap g[v] = {}
  <2>1. h[u] \cap h[v] = {} BY <1>5 DEF HeldInv
  <2>2. CASE u = t BY <2>1, <2>2, <1>2, <1>5
  <2>3. CASE v = t BY <2>1, <2>3, <1>2, <1>5
  <2>4. CASE u # t /\ v # t BY <2>1, <2>4, <1>2
  <2> QED BY <2>2, <2>3, <2>4
<1> QED BY <1>2, <1>3, <1>4, <1>5 DEF HeldInv, g

LEMMA GiveBack ==
    ASSUME NEW m, NEW s, NEW h, HeldInv(m, s, h), NEW t \in Task, NEW b \in h[t],
           NEW n, NEW r, Free(n, r) \subseteq Free(m, s) \cup {b},
           NEW g, g = [u \in Task |-> h[u] \ {b}]
    PROVE  /\ HeldInv(n, r, g) /\ b \in Block \ Free(m, s)
           /\ \A u \in Task : b \notin g[u]
           /\ \A u \in Task \ {t} : g[u] = h[u]
<1>1. h \in [Task -> SUBSET Block] BY DEF HeldInv
<1>2. g \in [Task -> SUBSET Block] /\ \A u \in Task : g[u] = h[u] \ {b} BY <1>1
<1>3. b \in Block \ Free(m, s) BY <1>1 DEF HeldInv
<1>4. \A u \in Task : g[u] \cap Free(n, r) = {} BY <1>2 DEF HeldInv
<1>5. \A u, v \in Task : u # v => g[u] \cap g[v] = {} BY <1>2 DEF HeldInv
<1>6. \A u \in Task \ {t} : b \notin h[u] BY DEF HeldInv
<1> QED BY <1>2, <1>3, <1>4, <1>5, <1>6 DEF HeldInv

LEMMA PoolInvInit == MpfInit => PoolInv
<1> SUFFICES ASSUME MpfInit PROVE PoolInv OBVIOUS
<1>1. KernelInv BY InvInit DEF MpfInit, KernelInv
<1>2. /\ mpf.fblkcnt = blkcnt /\ mpf.unused = 0 /\ mpf.freelist = INDEX_NULL
      /\ mpf.next = [b \in Block |-> INDEX_NULL]
      /\ mpf = initialize_mempfix
  BY DEF MpfInit, initialize_mempfix
<1>3. blkcnt \in Nat /\ \A b \in Block : b \in Nat BY Sizes
<1>4. mpf \in Mpfcb BY <1>2, <1>3 DEF Mpfcb, initialize_mempfix
<1>5. Chain(mpf, << >>) BY <1>2 DEF Chain, NoTwice
<1>6. Free(mpf, << >>) = Block BY <1>2, <1>3 DEF Free
<1>7. BlocksInv(mpf, << >>) BY <1>2, <1>3, <1>4, <1>5, <1>6 DEF BlocksInv
<1>8. HeldInv(mpf, << >>, held) BY DEF MpfInit, HeldInv
<1>9. releasing \in [Task -> Block \cup {NULL}] /\ ReleasingInv(releasing, held)
  BY DEF MpfInit, ReleasingInv
<1>10. k.wque[pool] = << >> BY MpfAssumption DEF MpfInit, TaskInit, initialize_task
<1> QED BY <1>1, <1>7, <1>8, <1>9, <1>10 DEF PoolInv

LEMMA PoolCalls == PoolInv /\ RightfulCall => PoolInv'
<1> SUFFICES ASSUME PoolInv, RightfulCall PROVE PoolInv' OBVIOUS
<1>1. PICK s : BlocksInv(mpf, s) /\ HeldInv(mpf, s, held) BY DEF PoolInv
<1>2. /\ KernelInv /\ pool \in Wobj
      /\ releasing \in [Task -> Block \cup {NULL}] /\ ReleasingInv(releasing, held)
      /\ mpf.fblkcnt > 0 => k.wque[pool] = << >>
      /\ held \in [Task -> SUBSET Block]
      /\ mpf \in Mpfcb /\ mpf.fblkcnt \in 0 .. blkcnt /\ blkcnt \in Nat
  BY <1>1, Sizes, MpfAssumption DEF PoolInv, BlocksInv, HeldInv, Mpfcb
<1>3. KernelInv'
  <2>1. ASSUME NEW b \in held[k.runtsk], rel_mpf_check(b) PROVE b \in Block
    BY <1>2, <2>1, Caller DEF rel_mpf_check
  <2> QED BY <2>1, <1>2, PoolKernel DEF RightfulCall
<1>4. ASSUME take_block, k.runtsk \in Task PROVE PoolInv'
  <2> DEFINE f == first_free
  <2>1. /\ mpf.fblkcnt > 0 /\ mpf' = get_mpf_block /\ k' = k /\ releasing' = releasing
        /\ held' = Given(held, k.runtsk, f)
    BY <1>4 DEF take_block, Given
  <2>2. PICK r : /\ BlocksInv(mpf', r) /\ f \in Free(mpf, s)
                 /\ Free(mpf', r) = Free(mpf, s) \ {f} /\ mpf'.fblkcnt = mpf.fblkcnt - 1
    BY <2>1, <1>1, GetBlock
  <2>3. f \in Block /\ \A u \in Task : f \notin held[u]
    BY <2>2, <1>1 DEF Free, HeldInv
  <2> HIDE DEF f
  <2>7. Free(mpf', r) \subseteq Free(mpf, s) \ {f} BY <2>2
  <2>4. HeldInv(mpf', r, held') /\ \A u \in Task : held[u] \subseteq held'[u]
    BY <2>1, <2>3, <2>7, <1>1, <1>4, GiveOut
  <2>5. ReleasingInv(releasing', held') BY <2>1, <2>4, <1>2 DEF ReleasingInv
  <2>6. k'.wque[pool] = << >> BY <2>1, <1>2
  <2> QED BY <2>1, <2>2, <2>4, <2>5, <2>6, <1>2, <1>3 DEF PoolInv
<1>5. ASSUME mpf' = mpf, held' = held,
             releasing' \in [Task -> Block \cup {NULL}], ReleasingInv(releasing', held),
             mpf.fblkcnt > 0 => k'.wque[pool] = << >>
      PROVE  PoolInv'
  BY <1>1, <1>3, <1>5 DEF PoolInv
<1>6. CASE get_mpf \/ pget_mpf \/ tget_mpf
  <2>1. CASE take_block
    <3>1. k.runtsk \in Task
      BY <1>2, <1>6, Caller DEF get_mpf, pget_mpf, tget_mpf, MayWait
    <3> QED BY <2>1, <3>1, <1>4
  <2>2. CASE ~take_block
    <3>1. mpf.fblkcnt = 0 /\ mpf' = mpf /\ held' = held /\ releasing' = releasing
      BY <2>2, <1>6 DEF get_mpf, pget_mpf, tget_mpf, wait_block
    <3>2. ~(mpf.fblkcnt > 0) BY <3>1
    <3> QED BY <3>1, <3>2, <1>2, <1>5
  <2> QED BY <2>1, <2>2
<1>7. ASSUME NEW b \in held[k.runtsk], rel_mpf_check(b) PROVE PoolInv'
  <2>1. /\ k.runtsk \in Task /\ k' = k /\ mpf' = mpf /\ held' = held
        /\ releasing' = [releasing EXCEPT ![k.runtsk] = b]
    BY <1>2, <1>7, Caller DEF rel_mpf_check
  <2>2. b \in Block BY <2>1, <1>2, <1>7
  <2>3. /\ releasing' \in [Task -> Block \cup {NULL}] /\ releasing'[k.runtsk] = b
        /\ \A u \in Task \ {k.runtsk} : releasing'[u] = releasing[u]
    BY <2>1, <2>2, <1>2
  <2>4. ReleasingInv(releasing', held) BY <2>3, <1>2, <1>7 DEF ReleasingInv
  <2> QED BY <2>1, <2>3, <2>4, <1>2, <1>5
<1>8. CASE rel_mpf
  <2> DEFINE t == k.runtsk
             b == releasing[t]
             g == [u \in Task |-> held[u] \ {b}]
  <2>1. t \in Task /\ b # NULL /\ b \in held[t]
    <3>1. t \in Task /\ b # NULL BY <1>2, <1>8, Caller DEF rel_mpf
    <3> QED BY <3>1, <1>2 DEF ReleasingInv
  <2>2. releasing' = [releasing EXCEPT ![t] = NULL] BY <1>8 DEF rel_mpf
  <2>3. /\ releasing' \in [Task -> Block \cup {NULL}] /\ releasing'[t] = NULL
        /\ \A u \in Task \ {t} : releasing'[u] = releasing[u]
    BY <2>1, <2>2, <1>2
  <2>4. without(b) = g BY DEF without
  <2>5. CASE k.wque[pool] # << >>
    <3> DEFINE u == Head(k.wque[pool])
    <3>1. /\ k' = dispatch(wait_complete([k EXCEPT !.wque[pool] = Tail(@)], u))
          /\ held' = Given(g, u, b) /\ mpf' = mpf
      BY <2>4, <2>5, <1>8 DEF rel_mpf, queue_empty, Given
    <3>2. u \in Task BY <3>1, <2>5, <1>2, ReleaseHead DEF KernelInv
    <3> HIDE DEF u, g
    <3>3. /\ HeldInv(mpf, s, g) /\ b \in Block \ Free(mpf, s)
          /\ (\A v \in Task : b \notin g[v]) /\ \A v \in Task \ {t} : g[v] = held[v]
      BY <2>1, <1>1, GiveBack DEF g
    <3>7. Free(mpf, s) \subseteq Free(mpf, s) \ {b} BY <3>3
    <3>4. HeldInv(mpf, s, held') /\ \A v \in Task : g[v] \subseteq held'[v]
      BY <3>1, <3>2, <3>3, <3>7, GiveOut
    <3>5. ReleasingInv(releasing', held') BY <2>3, <3>3, <3>4, <1>2 DEF ReleasingInv
    <3>6. ~(mpf'.fblkcnt > 0) BY <3>1, <2>5, <1>2
    <3> QED BY <3>1, <3>4, <3>5, <3>6, <2>3, <1>1, <1>3 DEF PoolInv
  <2>6. CASE k.wque[pool] = << >>
    <3>1. mpf' = FreeBlock(b) /\ held' = g /\ k' = k
      BY <2>4, <2>6, <1>8 DEF rel_mpf, queue_empty, FreeBlock
    <3> HIDE DEF g
    <3>2. b \in Block \ Free(mpf, s) BY <2>1, <1>2, <1>1 DEF HeldInv
    <3>3. PICK r : BlocksInv(mpf', r) /\ Free(mpf', r) = Free(mpf, s) \cup {b}
      BY <3>1, <3>2, <1>1, PutBlock
    <3>4. HeldInv(mpf', r, g) /\ \A v \in Task \ {t} : g[v] = held[v]
      BY <2>1, <3>3, <1>1, GiveBack DEF g
    <3>5. ReleasingInv(releasing', held')
      BY <2>3, <3>1, <3>4, <1>2 DEF ReleasingInv
    <3>6. k'.wque[pool] = << >> BY <3>1, <2>6
    <3> QED BY <3>1, <3>3, <3>4, <3>5, <3>6, <2>3, <1>3 DEF PoolInv
  <2> QED BY <2>5, <2>6
<1>9. CASE (\A t \in Task : releasing[t] = NULL) /\ ini_mpf
  <2>1. /\ k' = dispatch(init_wait_queue(k, pool)) /\ releasing' = releasing
        /\ mpf' = [mpf EXCEPT !.fblkcnt = blkcnt, !.unused = 0, !.freelist = INDEX_NULL]
        /\ held' = [t \in Task |-> {}]
    BY <1>9 DEF ini_mpf
  <2>2. k'.wque[pool] = << >> BY <2>1, <1>2, ReleaseAll DEF KernelInv
  <2>3. mpf' \in Mpfcb
    <3>1. 0 \in 0 .. blkcnt /\ blkcnt \in 0 .. blkcnt BY <1>2
    <3> QED BY <3>1, <2>1, <1>2 DEF Mpfcb
  <2>4. mpf'.fblkcnt = blkcnt /\ mpf'.unused = 0 /\ mpf'.freelist = INDEX_NULL
    BY <2>1, <1>2 DEF Mpfcb
  <2>5. Chain(mpf', << >>) BY <2>4 DEF Chain, NoTwice
  <2>6. Free(mpf', << >>) = Block BY <2>4, Sizes DEF Free
  <2>7. BlocksInv(mpf', << >>) BY <2>3, <2>4, <2>5, <2>6, <1>2 DEF BlocksInv
  <2>8. HeldInv(mpf', << >>, held') BY <2>1 DEF HeldInv
  <2>9. ReleasingInv(releasing', held') BY <2>1, <1>9 DEF ReleasingInv
  <2> QED BY <2>1, <2>2, <2>7, <2>8, <2>9, <1>2, <1>3 DEF PoolInv
<1> QED BY <1>6, <1>7, <1>8, <1>9 DEF RightfulCall

LEMMA PoolInvNext == PoolInv /\ [RightfulNext]_mpf_vars => PoolInv'
<1> SUFFICES ASSUME PoolInv, [RightfulNext]_mpf_vars PROVE PoolInv' OBVIOUS
<1>1. CASE RightfulCall BY <1>1, PoolCalls
<1>2. ASSUME Follows(k, k'), mpf' = mpf, held' = held,
             releasing' \in [Task -> Block \cup {NULL}],
             \A t \in Task : releasing'[t] \in {NULL, releasing[t]}
      PROVE  PoolInv'
  <2>1. KernelInv' BY <1>2 DEF PoolInv, Follows, KernelInv
  <2>2. k.wque[pool] = << >> => k'.wque[pool] = << >>
    BY <1>2, StaysEmpty, MpfAssumption
  <2>3. ReleasingInv(releasing', held') BY <1>2 DEF ReleasingInv, PoolInv
  <2> QED BY <2>1, <2>2, <2>3, <1>2 DEF PoolInv
<1>3. CASE Interrupt
  <2>1. Follows(k, k') BY <1>3, SystemSteps DEF Interrupt, PoolInv, KernelInv
  <2> QED BY <2>1, <1>2, <1>3 DEF Interrupt, PoolInv
<1>4. CASE OtherCall(TaskNext)
  <2>1. Follows(k, k') BY <1>4, InvNext DEF OtherCall, PoolInv, KernelInv
  <2>2. /\ releasing' = [t \in Task |->
                            IF TSTAT_DORMANT(k'.tstat[t]) THEN NULL ELSE releasing[t]]
        /\ mpf' = mpf /\ held' = held
    BY <1>4 DEF OtherCall
  <2>3. releasing \in [Task -> Block \cup {NULL}] BY DEF PoolInv
  <2>4. /\ releasing' \in [Task -> Block \cup {NULL}]
        /\ \A t \in Task : releasing'[t] \in {NULL, releasing[t]}
    BY <2>2, <2>3
  <2> QED BY <2>1, <2>2, <2>4, <1>2
<1>5. CASE UNCHANGED mpf_vars BY <1>5 DEF mpf_vars, PoolInv, KernelInv
<1> QED BY <1>1, <1>3, <1>4, <1>5 DEF RightfulNext

(* The count of the free blocks is exact: it is the number of the blocks   *)
(* on the free list and of those never used (mempfix.c, get_mpf_block and  *)
(* rel_mpf), while the application gives back only blocks it was given.    *)
THEOREM PoolCorrect == RightfulSpec => []PoolOK
<1>1. MpfInit => PoolInv BY PoolInvInit
<1>2. PoolInv /\ [RightfulNext]_mpf_vars => PoolInv' BY PoolInvNext
<1>3. PoolInv => PoolOK
  BY CountFree DEF PoolInv, BlocksInv, PoolOK
<1> QED BY <1>1, <1>2, <1>3, PTL DEF RightfulSpec

(* No block is handed out twice or while it is free, every block that is   *)
(* not free is marked so, and no task waits while one is free (mempfix.c,  *)
(* get_mpf_block, rel_mpf, ini_mpf).                                       *)
THEOREM BlocksCorrect == RightfulSpec => []BlocksOK
<1>1. MpfInit => PoolInv BY PoolInvInit
<1>2. PoolInv /\ [RightfulNext]_mpf_vars => PoolInv' BY PoolInvNext
<1>3. PoolInv => BlocksOK
  <2> SUFFICES ASSUME PoolInv PROVE BlocksOK OBVIOUS
  <2>1. PICK s : BlocksInv(mpf, s) /\ HeldInv(mpf, s, held) BY DEF PoolInv
  <2>2. Unallocated = Free(mpf, s) BY <2>1, CountFree DEF BlocksInv
  <2> QED BY <2>1, <2>2 DEF BlocksOK, PoolInv, BlocksInv, HeldInv, queue_empty
<1> QED BY <1>1, <1>2, <1>3, PTL DEF RightfulSpec

-----------------------------------------------------------------------------
(* kernel/dataqueue.c: the ring buffer first. From its head on it holds,   *)
(* in Ring(q), the messages from the oldest to the newest, whatever the    *)
(* places of the buffer that they are in.                                  *)
Place(q, i) == IF q.head + i < dtqcnt THEN q.head + i ELSE q.head + i - dtqcnt

Ring(q) == [i \in 1 .. q.count |-> q.p_dtqmb[Place(q, i - 1)]]

RingInv(q) ==
    /\ q \in Dtqcb
    /\ dtqcnt > 0 => q.head < dtqcnt /\ q.tail = Place(q, q.count)
    /\ \A i \in 1 .. q.count : Ring(q)[i] \in Data

\* what % does to an index that has gone around at most once
LEMMA Around ==
    ASSUME NEW n \in Nat \ {0}, NEW a \in Nat, a < n + n
    PROVE  a % n = IF a < n THEN a ELSE a - n
<1>1. CASE a < n BY <1>1
<1>2. CASE a >= n
  <2>1. a = (a - n) + n /\ a - n \in 0 .. n - 1 BY <1>2
  <2>2. a % n \in 0 .. n - 1 /\ a = (a \div n) * n + (a % n) /\ a \div n \in Nat OBVIOUS
  <2>3. a \div n = 1
    <3>1. CASE a \div n = 0 BY <3>1, <2>2, <1>2
    <3>2. CASE a \div n >= 2
      <4>1. (a \div n) * n >= 2 * n BY <3>2, <2>2
      <4> QED BY <4>1, <2>2
    <3> QED BY <3>1, <3>2, <2>2
  <2> QED BY <2>2, <2>3, <1>2
<1> QED BY <1>1, <1>2

\* the messages of the ring are a sequence
LEMMA RingSeq ==
    ASSUME NEW q, q.count \in Nat, RingInv(q)
    PROVE  Ring(q) \in Seq(Data) /\ Len(Ring(q)) = q.count
<1>1. DOMAIN Ring(q) = 1 .. q.count BY DEF Ring
<1>2. Ring(q) \in [1 .. q.count -> Data]
  <2>1. Ring(q) = [i \in 1 .. q.count |-> Ring(q)[i]] BY DEF Ring
  <2>2. \A i \in 1 .. q.count : Ring(q)[i] \in Data BY DEF RingInv
  <2> HIDE DEF Ring
  <2> QED BY <2>1, <2>2
<1> HIDE DEF Ring
<1> QED BY <1>2

\* a queue with a place in it
LEMMA RingType ==
    ASSUME NEW q, dtqcnt \in Nat, RingInv(q), dtqcnt > 0
    PROVE  /\ dtqcnt \in Nat \ {0} /\ q.count \in 0 .. dtqcnt /\ q.head \in 0 .. dtqcnt - 1
           /\ q.tail = Place(q, q.count) /\ q.tail \in 0 .. dtqcnt - 1
           /\ q.p_dtqmb \in [0 .. dtqcnt - 1 -> Data \cup {NULL}]
           /\ \A i \in 0 .. dtqcnt - 1 : Place(q, i) \in 0 .. dtqcnt - 1
           /\ \A i, h \in 0 .. dtqcnt - 1 : Place(q, i) = Place(q, h) => i = h
           /\ Place(q, dtqcnt) = q.head /\ Place(q, 0) = q.head
           /\ \A i \in 0 .. dtqcnt - 1 : successor(Place(q, i)) = Place(q, i + 1)
           /\ Ring(q) \in Seq(Data) /\ Len(Ring(q)) = q.count
<1>1. /\ dtqcnt \in Nat \ {0} /\ q.count \in 0 .. dtqcnt /\ q.head \in 0 .. dtqcnt - 1
      /\ q.tail = Place(q, q.count)
      /\ q.p_dtqmb \in [0 .. dtqcnt - 1 -> Data \cup {NULL}]
  BY DEF RingInv, Dtqcb
<1>2. q.tail \in 0 .. dtqcnt - 1 BY <1>1 DEF Place
<1>3. \A i \in 0 .. dtqcnt - 1 : Place(q, i) \in 0 .. dtqcnt - 1 BY <1>1 DEF Place
<1>4. ASSUME NEW i \in 0 .. dtqcnt - 1, NEW h \in 0 .. dtqcnt - 1, Place(q, i) = Place(q, h)
      PROVE  i = h
  <2>1. q.head + i \in Int /\ q.head + h \in Int /\ q.head \in Int BY <1>1
  <2>2. CASE q.head + i < dtqcnt BY <2>2, <1>1, <1>4 DEF Place
  <2>3. CASE q.head + i >= dtqcnt BY <2>3, <1>1, <1>4 DEF Place
  <2> QED BY <2>1, <2>2, <2>3, <1>1
<1>5. Place(q, dtqcnt) = q.head /\ Place(q, 0) = q.head BY <1>1 DEF Place
<1>6. \A i \in 0 .. dtqcnt - 1 : successor(Place(q, i)) = Place(q, i + 1)
  BY <1>1 DEF Place, successor
<1>7. Ring(q) \in Seq(Data) /\ Len(Ring(q)) = q.count BY <1>1, RingSeq
<1> QED BY <1>1, <1>2, <1>3, <1>4, <1>5, <1>6, <1>7

\* enqueue_data adds the message at the end of the ring
LEMMA Enqueue ==
    ASSUME NEW q, dtqcnt \in Nat, RingInv(q), q.count < dtqcnt, NEW data \in Data
    PROVE  LET r == enqueue_data(q, data) IN
           RingInv(r) /\ r.count = q.count + 1 /\ Ring(r) = Append(Ring(q), data)
<1> DEFINE r == enqueue_data(q, data)
<1>1. dtqcnt > 0 /\ q.count \in Nat /\ q.count \in 0 .. dtqcnt - 1 BY DEF RingInv, Dtqcb
<1>2. /\ q.head \in 0 .. dtqcnt - 1
      /\ q.tail = Place(q, q.count) /\ q.tail \in 0 .. dtqcnt - 1
      /\ q.p_dtqmb \in [0 .. dtqcnt - 1 -> Data \cup {NULL}]
  BY <1>1, RingType
<1>3. /\ \A i \in 0 .. dtqcnt - 1 : Place(q, i) \in 0 .. dtqcnt - 1
      /\ \A i, h \in 0 .. dtqcnt - 1 : Place(q, i) = Place(q, h) => i = h
      /\ \A i \in 0 .. dtqcnt - 1 : successor(Place(q, i)) = Place(q, i + 1)
  BY <1>1, RingType
<1>4. Ring(q) \in Seq(Data) /\ Len(Ring(q)) = q.count BY <1>1, RingSeq
<1>5. successor(q.tail) = Place(q, q.count + 1) BY <1>1, <1>2, <1>3
<1>6. successor(q.tail) \in Nat BY <1>2 DEF successor
<1>7. /\ r.head = q.head /\ r.count = q.count + 1 /\ r.tail = successor(q.tail)
      /\ r.p_dtqmb = [q.p_dtqmb EXCEPT ![q.tail] = data]
  BY DEF enqueue_data, RingInv, Dtqcb
<1>8. r \in Dtqcb
  <2>1. q.count + 1 \in 0 .. dtqcnt BY <1>1
  <2>2. [q.p_dtqmb EXCEPT ![q.tail] = data] \in [0 .. dtqcnt - 1 -> Data \cup {NULL}]
    BY <1>2
  <2>3. r = [q EXCEPT !.p_dtqmb = [q.p_dtqmb EXCEPT ![q.tail] = data],
                      !.count = q.count + 1, !.tail = successor(q.tail)]
    BY DEF enqueue_data, RingInv, Dtqcb
  <2> HIDE DEF r
  <2> QED BY <2>1, <2>2, <2>3, <1>6 DEF RingInv, Dtqcb
<1> HIDE DEF r
<1>9. \A i : Place(r, i) = Place(q, i) BY <1>7 DEF Place
<1> DEFINE s == Append(Ring(q), data)
<1>10. /\ s \in Seq(Data) /\ Len(s) = q.count + 1 /\ s[q.count + 1] = data
      /\ \A i \in 1 .. q.count : s[i] = Ring(q)[i]
  BY <1>1, <1>4
<1> HIDE DEF s
<1>11. ASSUME NEW i \in 1 .. q.count + 1
      PROVE  r.p_dtqmb[Place(r, i - 1)] = s[i]
  <2>1. i - 1 \in 0 .. dtqcnt - 1 /\ q.count \in 0 .. dtqcnt - 1 BY <1>1
  <2>2. CASE i = q.count + 1
    <3>1. i - 1 = q.count BY <2>2, <1>1
    <3>2. Place(r, i - 1) = q.tail BY <3>1, <1>2, <1>9
    <3> QED BY <2>2, <3>2, <1>2, <1>7, <1>10
  <2>3. CASE i # q.count + 1
    <3>1. i \in 1 .. q.count /\ i - 1 # q.count BY <2>3, <1>1
    <3>2. s[i] = q.p_dtqmb[Place(q, i - 1)] BY <3>1, <1>10 DEF Ring
    <3>3. Place(q, i - 1) # q.tail BY <3>1, <2>1, <1>2, <1>3
    <3>4. Place(q, i - 1) \in 0 .. dtqcnt - 1 BY <2>1, <1>3
    <3> QED BY <3>2, <3>3, <3>4, <1>2, <1>7, <1>9
  <2> QED BY <2>2, <2>3
<1>12. Ring(r) = s
  <2>1. s = [i \in 1 .. q.count + 1 |-> s[i]] BY <1>10
  <2> QED BY <2>1, <1>7, <1>11 DEF Ring
<1>13. \A i \in 1 .. r.count : Ring(r)[i] \in Data BY <1>7, <1>10, <1>12
<1>14. r.tail = Place(r, r.count) BY <1>5, <1>7, <1>9
<1>15. RingInv(r) BY <1>2, <1>7, <1>8, <1>13, <1>14 DEF RingInv
<1> QED BY <1>7, <1>12, <1>15 DEF r, s

\* dequeue_data takes the oldest message out of it
LEMMA Dequeue ==
    ASSUME NEW q, dtqcnt \in Nat, RingInv(q), q.count > 0
    PROVE  LET r == dequeue_data(q) IN
           /\ RingInv(r) /\ r.count = q.count - 1 /\ Ring(r) = Tail(Ring(q))
           /\ Ring(q) # << >> /\ Head(Ring(q)) = q.p_dtqmb[q.head]
<1> DEFINE r == dequeue_data(q)
<1>1. dtqcnt > 0 /\ q.count \in Nat /\ q.count \in 1 .. dtqcnt BY DEF RingInv, Dtqcb
<1>2. /\ q.head \in 0 .. dtqcnt - 1
      /\ q.tail = Place(q, q.count) /\ q.tail \in 0 .. dtqcnt - 1
      /\ q.p_dtqmb \in [0 .. dtqcnt - 1 -> Data \cup {NULL}]
      /\ Place(q, 0) = q.head
  BY <1>1, RingType
<1>3. Ring(q) \in Seq(Data) /\ Len(Ring(q)) = q.count BY <1>1, RingSeq
<1>4. successor(q.head) \in 0 .. dtqcnt - 1 BY <1>2 DEF successor
<1>5. /\ r.head = successor(q.head) /\ r.count = q.count - 1 /\ r.tail = q.tail
      /\ r.p_dtqmb = q.p_dtqmb
  BY DEF dequeue_data, RingInv, Dtqcb
<1>6. r \in Dtqcb
  <2>1. q.count - 1 \in 0 .. dtqcnt BY <1>1
  <2>2. successor(q.head) \in Nat BY <1>4
  <2>3. r = [q EXCEPT !.count = q.count - 1, !.head = successor(q.head)]
    BY DEF dequeue_data, RingInv, Dtqcb
  <2> HIDE DEF r
  <2> QED BY <2>1, <2>2, <2>3 DEF RingInv, Dtqcb
<1> HIDE DEF r
<1>7. ASSUME NEW i \in 0 .. dtqcnt - 1 PROVE Place(r, i) = Place(q, i + 1)
  <2>1. r.head = IF q.head + 1 >= dtqcnt THEN 0 ELSE q.head + 1 BY <1>5 DEF successor
  <2>2. q.head + 1 >= dtqcnt <=> q.head = dtqcnt - 1 BY <1>2
  <2>3. Place(r, i) = IF r.head + i < dtqcnt THEN r.head + i ELSE r.head + i - dtqcnt
    BY DEF Place
  <2>4. Place(q, i + 1) = IF q.head + (i + 1) < dtqcnt THEN q.head + (i + 1)
                          ELSE q.head + (i + 1) - dtqcnt
    BY DEF Place
  <2>5. CASE q.head = dtqcnt - 1 BY <2>1, <2>2, <2>3, <2>4, <2>5, <1>1
  <2>6. CASE q.head # dtqcnt - 1 BY <2>1, <2>2, <2>3, <2>4, <2>6, <1>1, <1>2
  <2> QED BY <2>5, <2>6
<1> DEFINE s == Tail(Ring(q))
<1>8. /\ s \in Seq(Data) /\ Len(s) = q.count - 1
      /\ \A i \in 1 .. q.count - 1 : s[i] = Ring(q)[i + 1]
      /\ Ring(q) # << >> /\ Head(Ring(q)) = Ring(q)[1]
  BY <1>1, <1>3
<1> HIDE DEF s
<1>9. ASSUME NEW i \in 1 .. q.count - 1
      PROVE  r.p_dtqmb[Place(r, i - 1)] = s[i]
  <2>1. i - 1 \in 0 .. dtqcnt - 1 /\ i + 1 \in 1 .. q.count /\ (i - 1) + 1 = (i + 1) - 1
    BY <1>1, <1>2
  <2>2. s[i] = q.p_dtqmb[Place(q, (i + 1) - 1)] BY <2>1, <1>8 DEF Ring
  <2> QED BY <2>1, <2>2, <1>5, <1>7
<1>10. Ring(r) = s
  <2>1. s = [i \in 1 .. q.count - 1 |-> s[i]] BY <1>1, <1>8
  <2> QED BY <2>1, <1>5, <1>9 DEF Ring
<1>11. Head(Ring(q)) = q.p_dtqmb[q.head]
  <2>1. 1 \in 1 .. q.count /\ 1 - 1 = 0 BY <1>1
  <2>2. Ring(q)[1] = q.p_dtqmb[Place(q, 1 - 1)] BY <2>1 DEF Ring
  <2> QED BY <2>1, <2>2, <1>2, <1>8
<1>12. \A i \in 1 .. r.count : Ring(r)[i] \in Data BY <1>5, <1>8, <1>10
<1>13. q.count - 1 \in 0 .. dtqcnt - 1 /\ (q.count - 1) + 1 = q.count BY <1>1, <1>2
<1>14. r.tail = Place(r, r.count) BY <1>2, <1>5, <1>7, <1>13
<1>15. RingInv(r) BY <1>4, <1>5, <1>6, <1>12, <1>14 DEF RingInv
<1> QED BY <1>5, <1>8, <1>10, <1>11, <1>15 DEF r, s

\* a forced message takes the place of the oldest one
LEMMA ForceEnqueue ==
    ASSUME NEW q, dtqcnt \in Nat \ {0}, RingInv(q), NEW data \in Data
    PROVE  /\ q.count < dtqcnt => force_enqueue_data(q, data) = enqueue_data(q, data)
           /\ q.count >= dtqcnt => force_enqueue_data(q, data) = enqueue_data(dequeue_data(q), data)
<1> DEFINE n == force_enqueue_data(q, data)
           d == dequeue_data(q)
<1>1. q.count \in 0 .. dtqcnt /\ q \in Dtqcb BY DEF RingInv, Dtqcb
<1>2. n = [q EXCEPT !.p_dtqmb[q.tail] = data,
                    !.tail = successor(q.tail),
                    !.count = IF q.count < dtqcnt THEN q.count + 1 ELSE q.count,
                    !.head = IF q.count < dtqcnt THEN q.head ELSE successor(q.tail)]
  BY <1>1 DEF force_enqueue_data, Dtqcb
<1> HIDE DEF n
<1>3. /\ n.p_dtqmb = [q.p_dtqmb EXCEPT ![q.tail] = data] /\ n.tail = successor(q.tail)
      /\ n.count = IF q.count < dtqcnt THEN q.count + 1 ELSE q.count
      /\ n.head = IF q.count < dtqcnt THEN q.head ELSE successor(q.tail)
      /\ n = [count |-> n.count, head |-> n.head, tail |-> n.tail, p_dtqmb |-> n.p_dtqmb]
  BY <1>1, <1>2 DEF Dtqcb
<1>4. ASSUME NEW r \in Dtqcb,
             r.count = n.count, r.head = n.head, r.tail = n.tail, r.p_dtqmb = n.p_dtqmb
      PROVE  r = n
  <2>1. r = [count |-> r.count, head |-> r.head, tail |-> r.tail, p_dtqmb |-> r.p_dtqmb]
    BY DEF Dtqcb
  <2> QED BY <2>1, <1>3, <1>4
<1>5. CASE q.count < dtqcnt
  <2> DEFINE r == enqueue_data(q, data)
  <2>1. r \in Dtqcb BY <1>5, Enqueue DEF RingInv
  <2>2. /\ r.count = q.count + 1 /\ r.head = q.head /\ r.tail = successor(q.tail)
        /\ r.p_dtqmb = [q.p_dtqmb EXCEPT ![q.tail] = data]
    BY <1>1 DEF enqueue_data, Dtqcb
  <2> HIDE DEF r
  <2>3. r = n BY <2>1, <2>2, <1>3, <1>4, <1>5
  <2> QED BY <2>3, <1>1, <1>5 DEF n, r
<1>6. CASE q.count = dtqcnt
  <2> DEFINE r == enqueue_data(d, data)
  <2>1. q.tail = q.head BY <1>6, RingType
  <2>2. RingInv(d) /\ d.count = q.count - 1 BY <1>6, Dequeue
  <2>3. d \in Dtqcb /\ d.head = successor(q.head) /\ d.tail = q.tail /\ d.p_dtqmb = q.p_dtqmb
    BY <2>2, <1>1 DEF dequeue_data, RingInv, Dtqcb
  <2> HIDE DEF d
  <2>4. r \in Dtqcb BY <2>2, <1>6, Enqueue DEF RingInv
  <2>5. /\ r.count = d.count + 1 /\ r.head = d.head /\ r.tail = successor(d.tail)
        /\ r.p_dtqmb = [d.p_dtqmb EXCEPT ![d.tail] = data]
    BY <2>3 DEF enqueue_data, Dtqcb
  <2> HIDE DEF r
  <2>6. r.count = q.count BY <2>2, <2>5, <1>1
  <2>7. r = n BY <2>1, <2>3, <2>4, <2>5, <2>6, <1>3, <1>4, <1>6
  <2> QED BY <2>7, <1>1, <1>6 DEF n, d, r
<1> QED BY <1>1, <1>5, <1>6

Messages(q) == [i \in 1 .. q.count |-> q.p_dtqmb[(q.head + i - 1) % dtqcnt]]

\* the messages as DataqueueCalls reads them, with the remainder
LEMMA StoredIs ==
    ASSUME dtqcnt \in Nat, NEW q, RingInv(q)
    PROVE  Messages(q) = Ring(q)
<1>1. CASE dtqcnt = 0
  <2>1. q.count = 0 BY <1>1 DEF RingInv, Dtqcb
  <2> QED BY <2>1 DEF Messages, Ring
<1>2. CASE dtqcnt # 0
  <2>1. dtqcnt \in Nat \ {0} /\ q.head \in 0 .. dtqcnt - 1 /\ q.count \in 0 .. dtqcnt
    BY <1>2, RingType
  <2>2. ASSUME NEW i \in 1 .. q.count
        PROVE  (q.head + i - 1) % dtqcnt = Place(q, i - 1)
    <3> DEFINE a == q.head + (i - 1)
    <3>1. a \in Nat /\ a < dtqcnt + dtqcnt /\ q.head + i - 1 = a BY <2>1
    <3>2. Place(q, i - 1) = IF a < dtqcnt THEN a ELSE a - dtqcnt BY <2>1, <3>1 DEF Place
    <3> HIDE DEF a
    <3>3. a % dtqcnt = IF a < dtqcnt THEN a ELSE a - dtqcnt BY <2>1, <3>1, Around
    <3> QED BY <3>1, <3>2, <3>3, Zenon
  <2> QED BY <2>2 DEF Messages, Ring
<1> QED BY <1>1, <1>2

-----------------------------------------------------------------------------
(* Sequences.                                                              *)
LEMMA JoinValue ==
    ASSUME NEW S, NEW s \in Seq(S), NEW p \in Seq(S)
    PROVE  /\ s \o p \in Seq(S) /\ Len(s \o p) = Len(s) + Len(p)
           /\ \A i \in 1 .. Len(s) : (s \o p)[i] = s[i]
           /\ \A i \in 1 .. Len(p) : (s \o p)[Len(s) + i] = p[i]
OBVIOUS

LEMMA RemoveValue ==
    ASSUME NEW S, NEW p \in Seq(S), NEW i \in 1 .. Len(p)
    PROVE  /\ RemoveAt(p, i) \in Seq(S) /\ Len(RemoveAt(p, i)) = Len(p) - 1
           /\ \A x \in 1 .. Len(p) - 1 : RemoveAt(p, i)[x] = IF x < i THEN p[x] ELSE p[x + 1]
<1> DEFINE a == SubSeq(p, 1, i - 1)
           b == SubSeq(p, i + 1, Len(p))
<1>1. /\ a \in Seq(S) /\ Len(a) = i - 1 /\ Len(p) \in Nat
      /\ \A x \in 1 .. i - 1 : a[x] = p[x]
  OBVIOUS
<1>2. /\ b \in Seq(S) /\ Len(b) = Len(p) - i
      /\ \A x \in 1 .. Len(p) - i : b[x] = p[x + i]
  OBVIOUS
<1>3. RemoveAt(p, i) = a \o b BY DEF RemoveAt
<1> HIDE DEF a, b
<1>4. ASSUME NEW x \in 1 .. Len(p) - 1 PROVE (a \o b)[x] = IF x < i THEN p[x] ELSE p[x + 1]
  <2>1. CASE x < i BY <2>1, <1>1, <1>2
  <2>2. CASE ~(x < i)
    <3>1. x - (i - 1) \in 1 .. Len(b) /\ x = Len(a) + (x - (i - 1)) /\ (x - (i - 1)) + i = x + 1
      BY <2>2, <1>1, <1>2
    <3>2. (a \o b)[x] = b[x - (i - 1)] BY <3>1, <1>1, <1>2
    <3> QED BY <3>1, <3>2, <2>2, <1>2
  <2> QED BY <2>1, <2>2
<1>5. a \o b \in Seq(S) /\ Len(a \o b) = Len(p) - 1
  <2>1. a \o b \in Seq(S) /\ Len(a \o b) = Len(a) + Len(b) BY <1>1, <1>2, JoinValue
  <2> QED BY <2>1, <1>1, <1>2
<1> QED BY <1>3, <1>4, <1>5

LEMMA TailValue ==
    ASSUME NEW S, NEW p \in Seq(S), p # << >>
    PROVE  /\ Tail(p) \in Seq(S) /\ Len(Tail(p)) = Len(p) - 1
           /\ Tail(p) = [i \in 1 .. Len(p) - 1 |-> p[i + 1]]
<1> DEFINE s == Tail(p)
<1>1. /\ s \in Seq(S) /\ Len(s) = Len(p) - 1
      /\ \A i \in 1 .. Len(p) - 1 : s[i] = p[i + 1]
  OBVIOUS
<1> HIDE DEF s
<1>2. s = [i \in 1 .. Len(p) - 1 |-> s[i]] BY <1>1
<1>3. s = [i \in 1 .. Len(p) - 1 |-> p[i + 1]] BY <1>1, <1>2
<1> QED BY <1>1, <1>3 DEF s

LEMMA JoinAppend ==
    ASSUME NEW S, NEW s \in Seq(S), NEW p \in Seq(S), NEW x \in S
    PROVE  s \o Append(p, x) = Append(s \o p, x)
OBVIOUS

LEMMA JoinTail ==
    ASSUME NEW S, NEW s \in Seq(S), NEW p \in Seq(S), s # << >>
    PROVE  Tail(s \o p) = Tail(s) \o p /\ Head(s \o p) = Head(s) /\ s \o p # << >>
OBVIOUS

LEMMA JoinMove ==
    ASSUME NEW S, NEW s \in Seq(S), NEW p \in Seq(S), s # << >>, p # << >>
    PROVE  Append(Tail(s), Head(p)) \o Tail(p) = Tail(s \o p)
OBVIOUS

LEMMA JoinInsert ==
    ASSUME NEW S, NEW s \in Seq(S), NEW p \in Seq(S), NEW x \in S, s # << >>
    PROVE  InsertAt(Tail(s \o p), Len(s), x) = Append(Tail(s), x) \o p
<1> DEFINE u == Tail(s)
<1>1. u \in Seq(S) /\ Len(u) = Len(s) - 1 /\ Len(s) \in Nat /\ Len(s) >= 1 OBVIOUS
<1>2. Tail(s \o p) = u \o p BY JoinTail
<1> HIDE DEF u
<1>3. SubSeq(u \o p, 1, Len(s) - 1) = u BY <1>1
<1>4. SubSeq(u \o p, Len(s), Len(u \o p)) = p BY <1>1
<1>5. u \o <<x>> = Append(u, x) BY <1>1
<1>6. InsertAt(u \o p, Len(s), x) = u \o <<x>> \o p BY <1>3, <1>4 DEF InsertAt
<1> QED BY <1>2, <1>5, <1>6 DEF u

LEMMA JoinRemove ==
    ASSUME NEW S, NEW s \in Seq(S), NEW p \in Seq(S), NEW i \in 1 .. Len(p)
    PROVE  RemoveAt(s \o p, Len(s) + i) = s \o RemoveAt(p, i)
<1> DEFINE a == SubSeq(p, 1, i - 1)
           b == SubSeq(p, i + 1, Len(p))
<1>1. a \in Seq(S) /\ b \in Seq(S) OBVIOUS
<1>2. SubSeq(s \o p, 1, (Len(s) + i) - 1) = s \o a OBVIOUS
<1>3. SubSeq(s \o p, (Len(s) + i) + 1, Len(s \o p)) = b OBVIOUS
<1>4. (s \o a) \o b = s \o (a \o b)
  <2> HIDE DEF a, b
  <2> QED BY <1>1
<1> HIDE DEF a, b
<1>5. RemoveAt(s \o p, Len(s) + i) = (s \o a) \o b BY <1>2, <1>3, Zenon DEF RemoveAt
<1>6. RemoveAt(p, i) = a \o b BY DEF RemoveAt, a, b
<1> QED BY <1>4, <1>5, <1>6

\* the messages of the tasks in queue q
Pend(q, d) == [i \in 1 .. Len(q) |-> d[q[i]]]

\* ... are a sequence, which depends on the tasks in the queue only
LEMMA PendSeq ==
    ASSUME NEW q \in Seq(Task), NEW d, \A u \in Task : Linked(q, u) => d[u] \in Data
    PROVE  Pend(q, d) \in Seq(Data) /\ Len(Pend(q, d)) = Len(q)
<1>1. \A i \in 1 .. Len(q) : d[q[i]] \in Data BY DEF Linked
<1>2. Pend(q, d) \in [1 .. Len(q) -> Data] BY <1>1 DEF Pend
<1> HIDE DEF Pend
<1>3. Len(q) \in Nat OBVIOUS
<1> QED BY <1>2, <1>3

LEMMA PendSame ==
    ASSUME NEW q \in Seq(Task), NEW d, NEW e, \A u \in Task : Linked(q, u) => e[u] = d[u]
    PROVE  Pend(q, e) = Pend(q, d)
<1>1. \A i \in 1 .. Len(q) : e[q[i]] = d[q[i]] BY DEF Linked
<1> QED BY <1>1 DEF Pend

\* a task joins the queue,
LEMMA PendAppend ==
    ASSUME NEW q \in Seq(Task), NEW t \in Task, NEW d, NEW e,
           \A u \in Task : Linked(q, u) => e[u] = d[u] /\ d[u] \in Data
    PROVE  Pend(queue_insert_prev(q, t), e) = queue_insert_prev(Pend(q, d), e[t])
<1>1. Pend(q, d) \in Seq(Data) /\ Len(Pend(q, d)) = Len(q) BY PendSeq
<1>2. \A i \in 1 .. Len(q) : Pend(q, d)[i] = e[q[i]] BY DEF Pend, Linked
<1> DEFINE p == Pend(q, d)
           r == Append(q, t)
<1>3. /\ Len(r) = Len(q) + 1 /\ Len(q) \in Nat
      /\ \A i \in 1 .. Len(q) : r[i] = q[i]
      /\ r[Len(q) + 1] = t
  OBVIOUS
<1> HIDE DEF r
<1>4. Pend(r, e) = [i \in 1 .. Len(q) + 1 |-> IF i = Len(q) + 1 THEN e[t] ELSE p[i]]
  <2>1. ASSUME NEW i \in 1 .. Len(q) + 1
        PROVE  e[r[i]] = IF i = Len(q) + 1 THEN e[t] ELSE p[i]
    <3>1. i = Len(q) + 1 \/ i \in 1 .. Len(q) BY <1>3
    <3> QED BY <3>1, <1>2, <1>3
  <2> QED BY <2>1, <1>3 DEF Pend
<1> HIDE DEF p
<1>5. Append(p, e[t]) = [i \in 1 .. Len(q) + 1 |-> IF i = Len(q) + 1 THEN e[t] ELSE p[i]]
  BY <1>1 DEF p
<1> QED BY <1>4, <1>5 DEF p, r, queue_insert_prev

\* the first one leaves it,
LEMMA PendTail ==
    ASSUME NEW q \in Seq(Task), q # << >>, NEW d, NEW e,
           \A u \in Task : Linked(q, u) => d[u] \in Data,
           \A u \in Task : Linked(Tail(q), u) => e[u] = d[u]
    PROVE  /\ Pend(Tail(q), e) = Tail(Pend(q, d))
           /\ Pend(q, d) # << >> /\ Head(Pend(q, d)) = d[Head(q)]
<1>1. Pend(q, d) \in Seq(Data) /\ Len(Pend(q, d)) = Len(q) BY PendSeq
<1> DEFINE p == Pend(q, d)
           r == Tail(q)
<1>2. /\ r \in Seq(Task) /\ Len(r) = Len(q) - 1 /\ Len(q) \in Nat \ {0}
      /\ \A i \in 1 .. Len(q) - 1 : r[i] = q[i + 1]
      /\ Head(q) = q[1]
  OBVIOUS
<1>3. \A i \in 1 .. Len(r) : e[r[i]] = d[r[i]] BY <1>2 DEF Linked
<1> HIDE DEF r
<1>4. Pend(r, e) = [i \in 1 .. Len(q) - 1 |-> d[q[i + 1]]] BY <1>2, <1>3 DEF Pend
<1>5. \A i \in 1 .. Len(q) : p[i] = d[q[i]] BY DEF Pend
<1> HIDE DEF p
<1>6. Tail(p) = [i \in 1 .. Len(q) - 1 |-> p[i + 1]]
  <2>1. p \in Seq(Data) /\ Len(p) = Len(q) BY <1>1 DEF p
  <2>2. p # << >> BY <2>1, <1>2
  <2>3. Tail(p) = [i \in 1 .. Len(p) - 1 |-> p[i + 1]] BY <2>1, <2>2, TailValue
  <2> QED BY <2>1, <2>3
<1>7. \A i \in 1 .. Len(q) - 1 : p[i + 1] = d[q[i + 1]] BY <1>2, <1>5
<1>8. Tail(p) = [i \in 1 .. Len(q) - 1 |-> d[q[i + 1]]] BY <1>6, <1>7
<1>9. p # << >> /\ Head(p) = p[1] /\ p[1] = d[q[1]]
  <2>1. p \in Seq(Data) /\ Len(p) = Len(q) BY <1>1 DEF p
  <2> QED BY <2>1, <1>2, <1>5
<1> QED BY <1>2, <1>4, <1>8, <1>9 DEF p, r

\* or any one
LEMMA PendDelete ==
    ASSUME NEW q \in Seq(Task), NEW t, Linked(q, t), NEW d, NEW e,
           \A u \in Task : Linked(q, u) => d[u] \in Data,
           \A u \in Task : Linked(queue_delete(q, t), u) => e[u] = d[u]
    PROVE  \E i \in 1 .. Len(q) : Pend(queue_delete(q, t), e) = RemoveAt(Pend(q, d), i)
<1> DEFINE i == CHOOSE x \in 1 .. Len(q) : q[x] = t
           r == queue_delete(q, t)
           p == Pend(q, d)
<1>1. i \in 1 .. Len(q) BY DEF Linked
<1>2. r = RemoveAt(q, i) BY DEF queue_delete
<1> HIDE DEF i, r
<1>3. p \in Seq(Data) /\ Len(p) = Len(q) BY PendSeq
<1>4. Len(q) \in Nat \ {0} BY <1>1
<1>5. p \in Seq(Data) /\ Len(p) = Len(q) /\ Len(q) \in Nat \ {0} BY <1>3, <1>4
<1>6. /\ r \in Seq(Task) /\ Len(r) = Len(q) - 1
      /\ \A x \in 1 .. Len(q) - 1 : r[x] = IF x < i THEN q[x] ELSE q[x + 1]
  BY <1>1, <1>2, RemoveValue
<1>7. \A x \in 1 .. Len(r) : e[r[x]] = d[r[x]] BY <1>6 DEF Linked, r
<1>8. \A x \in 1 .. Len(q) : p[x] = d[q[x]] BY DEF Pend
<1>9. Pend(r, e) = [x \in 1 .. Len(q) - 1 |-> d[r[x]]] BY <1>6, <1>7 DEF Pend
<1> HIDE DEF p
<1>10. /\ RemoveAt(p, i) \in Seq(Data) /\ Len(RemoveAt(p, i)) = Len(q) - 1
      /\ \A x \in 1 .. Len(q) - 1 : RemoveAt(p, i)[x] = IF x < i THEN p[x] ELSE p[x + 1]
  BY <1>1, <1>5, RemoveValue
<1>11. \A x \in 1 .. Len(q) - 1 : RemoveAt(p, i)[x] = d[r[x]]
  <2>1. ASSUME NEW x \in 1 .. Len(q) - 1 PROVE RemoveAt(p, i)[x] = d[r[x]]
    <3>1. x \in 1 .. Len(q) /\ x + 1 \in 1 .. Len(q) BY <1>5
    <3>2. CASE x < i BY <3>1, <3>2, <1>6, <1>8, <1>10
    <3>3. CASE ~(x < i) BY <3>1, <3>3, <1>6, <1>8, <1>10
    <3> QED BY <3>2, <3>3
  <2> QED BY <2>1
<1>12. RemoveAt(p, i) = [x \in 1 .. Len(q) - 1 |-> RemoveAt(p, i)[x]] BY <1>10
<1>13. RemoveAt(p, i) = Pend(r, e) BY <1>9, <1>11, <1>12
<1> QED BY <1>1, <1>13 DEF r, p

(* From j to n no wait queue has changed; j is a record with the fields    *)
(* that matter here.                                                       *)
Shape(j) == "wque" \in DOMAIN j /\ "lastmtx" \in DOMAIN j

Keeps(j, n) == Shape(n) /\ n.wque = j.wque /\ n.lastmtx = j.lastmtx

LEMMA KeepsAgain ==
    ASSUME NEW j, NEW i, NEW n, Keeps(j, i), Keeps(i, n)
    PROVE  Keeps(j, n) /\ Shape(i)
BY DEF Keeps

\* the routines of task_manage.c, task.c and wait.c that leave the queues alone
LEMMA KeepsRunnable ==
    ASSUME NEW j, Shape(j), NEW t
    PROVE  /\ Keeps(j, make_runnable(j, t))
           /\ Keeps(j, make_non_runnable(j, t))
<1>1. Keeps(j, make_runnable(j, t)) BY DEF Keeps, Shape, make_runnable
<1>2. Keeps(j, make_non_runnable(j, t))
  BY DEF Keeps, Shape, make_non_runnable, ready_unlink, Check
<1> QED BY <1>1, <1>2

LEMMA KeepsActive ==
    ASSUME NEW j, Shape(j), NEW t
    PROVE  /\ Keeps(j, activate_context(j, t)) /\ Keeps(j, make_dormant(j, t))
           /\ Keeps(j, make_active(j, t))
<1>1. Keeps(j, activate_context(j, t)) BY DEF Keeps, Shape, activate_context
<1>2. Keeps(j, make_dormant(j, t)) BY DEF Keeps, Shape, make_dormant
<1> DEFINE a == activate_context(j, t)
           i == [a EXCEPT !.tstat[t] = {TS_RUNNABLE}]
<1>3. Shape(a) BY <1>1 DEF Keeps
<1>4. make_active(j, t) = make_runnable(i, t) BY DEF make_active
<1> HIDE DEF a
<1>5. Keeps(a, i) BY <1>3 DEF Keeps, Shape
<1> HIDE DEF i
<1>6. Keeps(j, i) BY <1>1, <1>5, KeepsAgain DEF a
<1>7. Keeps(i, make_runnable(i, t)) BY <1>6, KeepsRunnable DEF Keeps
<1> QED BY <1>1, <1>2, <1>4, <1>6, <1>7, KeepsAgain

LEMMA KeepsWait ==
    ASSUME NEW j, Shape(j), NEW t, NEW ercd, NEW callback
    PROVE  /\ Keeps(j, wait_dequeue_tmevtb(j, t)) /\ Keeps(j, set_wercd(j, t, ercd))
           /\ Keeps(j, make_wait(j)) /\ Keeps(j, make_wait_tmout(j, callback))
           /\ Keeps(j, make_non_wait(j, t))
<1>1. Keeps(j, wait_dequeue_tmevtb(j, t))
  BY DEF Keeps, Shape, wait_dequeue_tmevtb, tmevtb_dequeue, Check
<1>2. Keeps(j, set_wercd(j, t, ercd)) BY DEF Keeps, Shape, set_wercd
<1> DEFINE i == make_non_runnable(j, j.runtsk)
<1>3. Keeps(j, i) BY KeepsRunnable
<1>4. make_wait(j) = [i EXCEPT !.winfo[j.runtsk] = NULL] BY DEF make_wait
<1>5. make_wait_tmout(j, callback)
        = tmevtb_enqueue([i EXCEPT !.winfo[j.runtsk] = PTMEVTB], j.runtsk, callback)
  BY DEF make_wait_tmout
<1> HIDE DEF i
<1>6. Keeps(j, make_wait(j)) BY <1>3, <1>4 DEF Keeps, Shape
<1>7. Keeps(j, make_wait_tmout(j, callback))
  BY <1>3, <1>5 DEF Keeps, Shape, tmevtb_enqueue, Check
<1>8. Keeps(j, make_non_wait(j, t))
  <2> DEFINE c == Check(j, TSTAT_WAITING(j.tstat[t]), "make_non_wait")
             r == [c EXCEPT !.tstat[t] = {TS_RUNNABLE}]
             s == [c EXCEPT !.tstat[t] = {TS_SUSPENDED}]
  <2>1. make_non_wait(j, t) = IF ~TSTAT_SUSPENDED(j.tstat[t]) THEN make_runnable(r, t) ELSE s
    BY DEF make_non_wait
  <2>2. Keeps(j, c) BY DEF Keeps, Shape, Check
  <2> HIDE DEF c
  <2>3. Keeps(c, r) /\ Keeps(c, s) BY <2>2 DEF Keeps, Shape
  <2> HIDE DEF r, s
  <2>4. Keeps(j, r) /\ Keeps(j, s) BY <2>2, <2>3, KeepsAgain
  <2>5. Keeps(r, make_runnable(r, t)) BY <2>4, KeepsRunnable DEF Keeps
  <2> QED BY <2>1, <2>4, <2>5, KeepsAgain
<1> QED BY <1>1, <1>2, <1>6, <1>7, <1>8

LEMMA KeepsDispatch ==
    ASSUME NEW j, Shape(j)
    PROVE  Keeps(j, dispatcher(j)) /\ Keeps(j, dispatch(j))
<1>1. Keeps(j, dispatcher(j)) BY DEF Keeps, Shape, dispatcher, Check
<1>2. Keeps(j, j) BY DEF Keeps
<1> QED BY <1>1, <1>2 DEF dispatch

(* From j to n at most one task has left each queue that is in the order   *)
(* of arrival, and the others have kept their places.                      *)
Left(q, r) == r = q \/ \E x : Linked(q, x) /\ r = queue_delete(q, x)

OneLeft(j, n) == \A w \in Wobj \ TA_TPRI : Left(j.wque[w], n.wque[w])

Leaves(j, n) == Shape(n) /\ n.lastmtx = j.lastmtx /\ OneLeft(j, n)

\* a task that waits for an object is in its queue
Queued(j, t) ==
    /\ DOMAIN j.wque = Wobj
    /\ TSTAT_WAIT_WOBJ(j.tstat[t]) /\ j.wobj[t] \in Wobj => Linked(j.wque[j.wobj[t]], t)

LEMMA KeepsLeaves ==
    ASSUME NEW j, NEW i, NEW n
    PROVE  /\ Keeps(j, n) => Leaves(j, n)
           /\ Leaves(j, i) /\ Keeps(i, n) => Leaves(j, n)
           /\ Keeps(j, i) /\ Leaves(i, n) => Leaves(j, n)
BY DEF Keeps, Leaves, OneLeft, Left

LEMMA LeavesDispatch ==
    ASSUME NEW j, NEW n, Leaves(j, n)
    PROVE  Leaves(j, dispatcher(n)) /\ Leaves(j, dispatch(n))
<1>1. Shape(n) BY DEF Leaves
<1> QED BY <1>1, KeepsDispatch, KeepsLeaves

\* the routines that take a task out of its queue
LEMMA LeavesQueue ==
    ASSUME NEW j, Shape(j), NEW t, Queued(j, t)
    PROVE  Leaves(j, wait_dequeue_wobj(j, t))
<1> DEFINE w == j.wobj[t]
           n == wait_dequeue_wobj(j, t)
<1>1. CASE TSTAT_WAIT_WOBJ(j.tstat[t])
  <2>1. n = [j EXCEPT !.wque[w] = queue_delete(@, t)] BY <1>1 DEF wait_dequeue_wobj
  <2>2. Shape(n) /\ n.lastmtx = j.lastmtx BY <2>1 DEF Shape
  <2>3. n.wque = [j.wque EXCEPT ![w] = queue_delete(@, t)] BY <2>1 DEF Shape
  <2>4. \A v \in Wobj : n.wque[v] = IF v = w THEN queue_delete(j.wque[v], t) ELSE j.wque[v]
    BY <2>3 DEF Queued
  <2>5. w \in Wobj => Linked(j.wque[w], t) BY <1>1 DEF Queued
  <2> HIDE DEF n, w
  <2>6. OneLeft(j, n) BY <2>4, <2>5 DEF OneLeft, Left
  <2> QED BY <2>2, <2>6 DEF Leaves, n
<1>2. CASE ~TSTAT_WAIT_WOBJ(j.tstat[t])
  <2>1. n = j BY <1>2 DEF wait_dequeue_wobj
  <2>2. Keeps(j, j) BY DEF Keeps
  <2> QED BY <2>1, <2>2, KeepsLeaves
<1> QED BY <1>1, <1>2

LEMMA LeavesRelease ==
    ASSUME NEW j, Shape(j), NEW t, Queued(j, t), NEW ercd
    PROVE  LET i == wait_dequeue_wobj(j, t)
               d == wait_dequeue_tmevtb(i, t)
           IN  /\ Leaves(j, d) /\ Leaves(j, set_wercd(d, t, ercd))
               /\ Leaves(j, make_non_wait(set_wercd(d, t, ercd), t))
               /\ Leaves(j, make_non_wait(set_wercd(i, t, ercd), t))
<1> DEFINE i == wait_dequeue_wobj(j, t)
           d == wait_dequeue_tmevtb(i, t)
<1>1. Leaves(j, i) /\ Shape(i) BY LeavesQueue DEF Leaves
<1> HIDE DEF i
<1>2. Leaves(j, d) /\ Shape(d) BY <1>1, KeepsWait, KeepsLeaves DEF Leaves
<1> HIDE DEF d
<1>3. ASSUME NEW m, Leaves(j, m)
      PROVE  Leaves(j, set_wercd(m, t, ercd)) /\ Leaves(j, make_non_wait(set_wercd(m, t, ercd), t))
  <2> DEFINE s == set_wercd(m, t, ercd)
  <2>1. Shape(m) BY <1>3 DEF Leaves
  <2>2. Leaves(j, s) /\ Shape(s) BY <2>1, <1>3, KeepsWait, KeepsLeaves DEF Leaves
  <2> HIDE DEF s
  <2>3. Leaves(j, make_non_wait(s, t)) BY <2>2, KeepsWait, KeepsLeaves
  <2> QED BY <2>2, <2>3 DEF s
<1> QED BY <1>1, <1>2, <1>3 DEF i, d

LEMMA LeavesTerminate ==
    ASSUME NEW j, Shape(j), NEW t, Queued(j, t), j.lastmtx[t] = NULL
    PROVE  Leaves(j, task_terminate(j, t))
<1> DEFINE s == j.tstat[t]
           k1 == IF TSTAT_RUNNABLE(s) THEN make_non_runnable(j, t)
                 ELSE IF TSTAT_WAITING(s) THEN wait_dequeue_tmevtb(wait_dequeue_wobj(j, t), t)
                 ELSE j
           d == make_dormant(k1, t)
           k3 == activate_context(d, t)
           n == IF k3.actque[t] THEN make_active([k3 EXCEPT !.actque[t] = FALSE], t) ELSE k3
<1>1. Leaves(j, k1)
  <2>1. Keeps(j, j) BY DEF Keeps
  <2> QED BY <2>1, KeepsRunnable, LeavesRelease, KeepsLeaves
<1>2. task_terminate(j, t) = n
  <2>1. k1.lastmtx[t] = NULL BY <1>1 DEF Leaves
  <2> QED BY <2>1 DEF task_terminate
<1> HIDE DEF k1
<1>3. Leaves(j, d) /\ Shape(d) BY <1>1, KeepsActive, KeepsLeaves DEF Leaves
<1> HIDE DEF d
<1>4. Leaves(j, k3) /\ Shape(k3) BY <1>3, KeepsActive, KeepsLeaves DEF Leaves
<1> HIDE DEF k3
<1> DEFINE i == [k3 EXCEPT !.actque[t] = FALSE]
<1>5. Keeps(k3, i) BY <1>4 DEF Keeps, Shape
<1>6. Leaves(j, i) /\ Shape(i) BY <1>4, <1>5, KeepsLeaves DEF Leaves
<1> HIDE DEF i
<1>7. Leaves(j, make_active(i, t)) BY <1>6, KeepsActive, KeepsLeaves
<1> QED BY <1>2, <1>4, <1>7 DEF i

\* chg_pri moves a task only in a queue in the order of priorities
LEMMA LeavesPriority ==
    ASSUME NEW j, Shape(j), DOMAIN j.wque = Wobj, NEW t, NEW newpri
    PROVE  Leaves(j, change_priority(j, t, newpri, FALSE))
<1> DEFINE k1 == [j EXCEPT !.priority[t] = newpri]
           w == j.wobj[t]
           n == change_priority(j, t, newpri, FALSE)
<1>1. Keeps(j, k1) BY DEF Keeps, Shape
<1>2. CASE TSTAT_RUNNABLE(j.tstat[t])
  <2>1. Keeps(j, n) BY <1>2 DEF Keeps, Shape, change_priority, ready_unlink
  <2> QED BY <2>1, KeepsLeaves
<1>3. CASE ~TSTAT_RUNNABLE(j.tstat[t]) /\ TSTAT_WAIT_WOBJCB(j.tstat[t]) /\ w \in TA_TPRI
  <2>1. n = [k1 EXCEPT !.wque[w] = queue_insert_tpri(queue_delete(@, t), t, k1.priority)]
    BY <1>3 DEF change_priority, wobj_change_priority
  <2> HIDE DEF k1
  <2>2. Shape(n) /\ n.lastmtx = k1.lastmtx /\ \A v \in Wobj \ {w} : n.wque[v] = k1.wque[v]
    <3>1. Shape(n) /\ n.lastmtx = k1.lastmtx BY <2>1, <1>1 DEF Keeps, Shape
    <3>2. n.wque = [k1.wque EXCEPT ![w] = queue_insert_tpri(queue_delete(@, t), t, k1.priority)]
      BY <2>1, <1>1 DEF Keeps, Shape
    <3>3. DOMAIN k1.wque = Wobj BY <1>1 DEF Keeps
    <3> QED BY <3>1, <3>2, <3>3
  <2>3. OneLeft(j, n) BY <2>2, <1>1, <1>3 DEF OneLeft, Left, Keeps
  <2> QED BY <2>2, <2>3, <1>1 DEF Leaves, Keeps
<1>4. CASE ~TSTAT_RUNNABLE(j.tstat[t]) /\ ~(TSTAT_WAIT_WOBJCB(j.tstat[t]) /\ w \in TA_TPRI)
  <2>1. n = k1 BY <1>4 DEF change_priority, wobj_change_priority
  <2> QED BY <2>1, <1>1, KeepsLeaves
<1> QED BY <1>2, <1>3, <1>4

\* what the invariant of TaskProof says of it
LEMMA InvQueued ==
    ASSUME NEW j, Inv(j), NoneHeld(j)
    PROVE  /\ Shape(j) /\ DOMAIN j.wque = Wobj
           /\ \A t \in Task : Queued(j, t) /\ j.lastmtx[t] = NULL
<1>1. j \in KernelState /\ Plain(j) /\ Fine(j, {}) BY Known
<1>2. Shape(j) /\ DOMAIN j.wque = Wobj BY <1>1 DEF KernelState, Shape
<1> QED BY <1>1, <1>2 DEF NoneHeld, Fine, Waits, Queued

\* a record that differs elsewhere
LEMMA QueuedFrame ==
    ASSUME NEW j, NEW i, NEW t, Queued(j, t), i.wque = j.wque, i.tstat[t] = j.tstat[t],
           i.wobj = j.wobj
    PROVE  Queued(i, t)
BY DEF Queued

\* a task that was asked to terminate does when dispatching is enabled
LEMMA LeavesEnable ==
    ASSUME NEW j, Inv(j), NoneHeld(j), j.runtsk \in Task, NEW i, Keeps(j, i)
    PROVE  LET n == [i EXCEPT !.dspflg = TRUE, !.schedtsk = search_schedtsk(i)] IN
           i.tstat = j.tstat /\ i.wobj = j.wobj /\ "tstat" \in DOMAIN i /\ "wobj" \in DOMAIN i =>
           Leaves(j, task_terminate(n, j.runtsk)) /\ Keeps(j, n)
<1> DEFINE n == [i EXCEPT !.dspflg = TRUE, !.schedtsk = search_schedtsk(i)]
<1> SUFFICES ASSUME i.tstat = j.tstat, i.wobj = j.wobj, "tstat" \in DOMAIN i, "wobj" \in DOMAIN i
             PROVE  Leaves(j, task_terminate(n, j.runtsk)) /\ Keeps(j, n)
  OBVIOUS
<1>1. Keeps(i, n) BY DEF Keeps, Shape
<1>2. n.tstat = j.tstat /\ n.wobj = j.wobj OBVIOUS
<1> HIDE DEF n
<1>3. Keeps(j, n) BY <1>1, KeepsAgain
<1>4. Queued(n, j.runtsk) /\ n.lastmtx[j.runtsk] = NULL
  BY <1>2, <1>3, InvQueued, QueuedFrame DEF Keeps
<1>5. Leaves(n, task_terminate(n, j.runtsk)) BY <1>3, <1>4, LeavesTerminate DEF Keeps
<1> QED BY <1>3, <1>5, KeepsLeaves

(* No step of TaskCalls lets more than one task leave a queue in the order *)
(* of arrival, or lets the others change places.                           *)
LEMMA LeavesNext == KernelInv /\ [TaskNext]_k => OneLeft(k, k')
<1> SUFFICES ASSUME KernelInv, [TaskNext]_k PROVE Leaves(k, k') BY DEF Leaves
<1>1. /\ Inv(k) /\ NoneHeld(k) /\ Shape(k) /\ DOMAIN k.wque = Wobj
      /\ \A t \in Task : Queued(k, t) /\ k.lastmtx[t] = NULL
  BY InvQueued DEF KernelInv
<1>2. k \in KernelState BY <1>1, Known
<1>3. Keeps(k, k) BY <1>1 DEF Keeps
<1>4. ASSUME Keeps(k, k') PROVE Leaves(k, k') BY <1>4, KeepsLeaves
<1>5. ASSUME NEW n, Keeps(k, n), k' = dispatch(n) \/ k' = dispatcher(n)
      PROVE  Leaves(k, k')
  BY <1>5, KeepsLeaves, LeavesDispatch
<1>6. ASSUME NEW n, Leaves(k, n), k' = dispatch(n) \/ k' = dispatcher(n)
      PROVE  Leaves(k, k')
  BY <1>6, LeavesDispatch
<1>7. CASE loc_cpu \/ unl_cpu \/ irq_entry \/ dis_dsp \/ dis_ter \/ UNCHANGED k
  <2>1. Keeps(k, k')
    BY <1>3, <1>7, <1>1 DEF Keeps, Shape, loc_cpu, unl_cpu, irq_entry, dis_dsp, dis_ter
  <2> QED BY <2>1, <1>4
<1>8. CASE irq_exit
  <2> DEFINE k1 == [k EXCEPT !.nest = @ - 1, !.lock = FALSE]
  <2>1. Keeps(k, k1) BY <1>1 DEF Keeps, Shape
  <2>2. k' = dispatcher(k1) \/ k' = k1 BY <1>8 DEF irq_exit
  <2> HIDE DEF k1
  <2> QED BY <2>1, <2>2, <1>4, <1>5
<1>9. CASE \E pri \in Pri : rot_rdq(pri)
  <2>1. PICK pri \in Pri : k' = dispatch(rotate_ready_queue(k, pri)) BY <1>9 DEF rot_rdq
  <2>2. Keeps(k, rotate_ready_queue(k, pri)) BY <1>1, <1>3 DEF Keeps, Shape, rotate_ready_queue
  <2> QED BY <2>1, <2>2, <1>5
<1>10. ASSUME NEW i, k' = enable_dispatch(i), k.runtsk \in Task, Keeps(k, i),
              i.tstat = k.tstat, i.wobj = k.wobj, "tstat" \in DOMAIN i, "wobj" \in DOMAIN i
       PROVE  Leaves(k, k')
  <2> DEFINE n == [i EXCEPT !.dspflg = TRUE, !.schedtsk = search_schedtsk(i)]
  <2>1. Leaves(k, task_terminate(n, k.runtsk)) /\ Keeps(k, n) BY <1>1, <1>10, LeavesEnable
  <2>2. k' = dispatcher(task_terminate(n, k.runtsk)) \/ k' = dispatch(n)
    BY <1>10 DEF enable_dispatch
  <2> HIDE DEF n
  <2> QED BY <2>1, <2>2, <1>5, <1>6
<1>11. CASE ena_dsp
  <2> DEFINE i == [k EXCEPT !.enadsp = TRUE]
  <2>1. k' = enable_dispatch(i) \/ k' = i BY <1>11 DEF ena_dsp
  <2>2. k.runtsk \in Task BY <1>1, <1>11, Known DEF ena_dsp, CHECK_TSKCTX_UNL, CHECK_TSKCTX
  <2>3. Keeps(k, i) BY <1>1 DEF Keeps, Shape
  <2>4. i.tstat = k.tstat /\ i.wobj = k.wobj /\ "tstat" \in DOMAIN i /\ "wobj" \in DOMAIN i
    BY <1>2 DEF KernelState
  <2> HIDE DEF i
  <2> QED BY <2>1, <2>2, <2>3, <2>4, <1>4, <1>10
<1>12. CASE \E ipm \in Ipm : chg_ipm(ipm)
  <2>1. PICK ipm \in Ipm : chg_ipm(ipm) BY <1>12
  <2> DEFINE i == [k EXCEPT !.ipm = ipm]
             n == [i EXCEPT !.dspflg = FALSE]
  <2>2. k' = enable_dispatch(i) \/ k' = n BY <2>1 DEF chg_ipm
  <2>3. k.runtsk \in Task BY <1>1, <2>1, Known DEF chg_ipm, CHECK_TSKCTX_UNL, CHECK_TSKCTX
  <2>4. Keeps(k, i) /\ Keeps(k, n) BY <1>1 DEF Keeps, Shape
  <2>5. i.tstat = k.tstat /\ i.wobj = k.wobj /\ "tstat" \in DOMAIN i /\ "wobj" \in DOMAIN i
    BY <1>2 DEF KernelState
  <2> HIDE DEF i, n
  <2> QED BY <2>2, <2>3, <2>4, <2>5, <1>4, <1>10
<1>13. CASE ext_tsk
  <2> DEFINE k1 == [k EXCEPT !.enadsp = TRUE, !.ipm = "TIPM_ENAALL", !.lock = FALSE]
             k2 == IF ~k.enadsp \/ k.ipm # "TIPM_ENAALL"
                   THEN [k1 EXCEPT !.dspflg = TRUE, !.schedtsk = search_schedtsk(k1)]
                   ELSE k1
  <2>1. k' = dispatcher(task_terminate(k2, k.runtsk)) BY <1>13 DEF ext_tsk
  <2>2. k.runtsk \in Task BY <1>1, <1>13, Known DEF ext_tsk, CHECK_TSKCTX
  <2>3. Keeps(k, k1) BY <1>1 DEF Keeps, Shape
  <2>4. k1.tstat = k.tstat /\ k1.wobj = k.wobj /\ "tstat" \in DOMAIN k1 /\ "wobj" \in DOMAIN k1
    BY <1>2 DEF KernelState
  <2> HIDE DEF k1
  <2>5. Keeps(k, k2) BY <2>3 DEF Keeps, Shape
  <2>6. k2.tstat = k.tstat /\ k2.wobj = k.wobj BY <2>4
  <2> HIDE DEF k2
  <2>7. Queued(k2, k.runtsk) /\ k2.lastmtx[k.runtsk] = NULL
    BY <1>1, <2>2, <2>5, <2>6, QueuedFrame DEF Keeps
  <2>8. Leaves(k2, task_terminate(k2, k.runtsk)) BY <2>5, <2>7, LeavesTerminate DEF Keeps
  <2>9. Leaves(k, task_terminate(k2, k.runtsk)) BY <2>5, <2>8, KeepsLeaves
  <2> QED BY <2>1, <2>9, <1>6
<1>14. CASE ena_ter
  <2>1. k.runtsk \in Task BY <1>1, <1>14, Known DEF ena_ter, CHECK_TSKCTX_UNL, CHECK_TSKCTX
  <2>2. Leaves(k, task_terminate(k, k.runtsk)) BY <2>1, <1>1, LeavesTerminate
  <2> DEFINE n == [k EXCEPT !.enater[k.runtsk] = TRUE]
  <2>3. Keeps(k, n) BY <1>1 DEF Keeps, Shape
  <2>4. k' = dispatcher(task_terminate(k, k.runtsk)) \/ k' = n BY <1>14 DEF ena_ter
  <2> HIDE DEF n
  <2> QED BY <2>2, <2>3, <2>4, <1>4, <1>6
<1>15. CASE slp_tsk \/ tslp_tsk \/ dly_tsk
  <2>1. ASSUME NEW factor PROVE Keeps(k, waiting_for(factor))
    BY <1>1 DEF Keeps, Shape, waiting_for
  <2>2. ASSUME NEW factor, NEW callback
        PROVE  /\ Keeps(k, make_wait(waiting_for(factor)))
               /\ Keeps(k, make_wait_tmout(waiting_for(factor), callback))
    <3> DEFINE i == waiting_for(factor)
    <3>1. Keeps(k, i) /\ Shape(i) BY <2>1 DEF Keeps
    <3> HIDE DEF i
    <3> QED BY <3>1, KeepsWait, KeepsAgain DEF i
  <2>3. Keeps(k, take_wupque) BY <1>1 DEF Keeps, Shape, take_wupque
  <2>4. \/ k' = take_wupque
        \/ k' = dispatch(make_wait(waiting_for(TS_WAITING_SLP)))
        \/ k' = dispatch(make_wait_tmout(waiting_for(TS_WAITING_SLP), "wait_tmout"))
        \/ k' = dispatch(make_wait_tmout(waiting_for(TS_WAITING_DLY), "wait_tmout_ok"))
    BY <1>15 DEF slp_tsk, tslp_tsk, dly_tsk
  <2> QED BY <2>2, <2>3, <2>4, <1>4, <1>5
<1>16. ASSUME NEW t \in Task,
              \/ act_tsk(t) \/ can_act(t) \/ ter_tsk(t) \/ ras_ter(t)
              \/ wup_tsk(t) \/ can_wup(t) \/ rel_wai(t) \/ sus_tsk(t) \/ rsm_tsk(t)
              \/ signal_time(t)
              \/ \E pri \in Pri : chg_pri(t, pri)
       PROVE  Leaves(k, k')
  <2>1. Queued(k, t) /\ k.lastmtx[t] = NULL BY <1>1
  <2>2. CASE can_act(t) \/ can_wup(t)
    <3>1. Keeps(k, k') BY <1>1, <2>2 DEF Keeps, Shape, can_act, can_wup
    <3> QED BY <3>1, <1>4
  <2>3. CASE act_tsk(t)
    <3>1. Keeps(k, make_active(k, t)) BY <1>1, KeepsActive
    <3>2. Keeps(k, [k EXCEPT !.actque[t] = TRUE]) BY <1>1 DEF Keeps, Shape
    <3> QED BY <3>1, <3>2, <2>3, <1>4, <1>5 DEF act_tsk
  <2>4. CASE ter_tsk(t)
    <3>1. Leaves(k, task_terminate(k, t)) BY <2>1, <1>1, LeavesTerminate
    <3> QED BY <3>1, <2>4, <1>6 DEF ter_tsk
  <2>5. CASE ras_ter(t)
    <3> DEFINE k1 == [k EXCEPT !.raster[t] = TRUE]
               w == set_wercd(wait_dequeue_tmevtb(wait_dequeue_wobj(k1, t), t), t, "E_RASTER")
               k2 == IF TSTAT_WAITING(k.tstat[t]) THEN w ELSE k1
               k3 == [k2 EXCEPT !.tstat[t] = {TS_RUNNABLE}]
    <3>1. \/ k' = dispatch(task_terminate(k, t)) \/ k' = k1
          \/ k' = dispatch(make_runnable(k3, t))
      BY <2>5 DEF ras_ter
    <3>2. Leaves(k, task_terminate(k, t)) BY <2>1, <1>1, LeavesTerminate
    <3>3. Keeps(k, k1) /\ k1.tstat = k.tstat /\ k1.wobj = k.wobj
      BY <1>1, <1>2 DEF Keeps, Shape, KernelState
    <3> HIDE DEF k1
    <3>4. Queued(k1, t) BY <2>1, <3>3, QueuedFrame DEF Keeps
    <3>5. Leaves(k, w) BY <3>3, <3>4, LeavesRelease, KeepsLeaves DEF Keeps
    <3> HIDE DEF w
    <3>6. Leaves(k, k2) /\ Shape(k2) BY <3>3, <3>5, KeepsLeaves DEF Leaves
    <3> HIDE DEF k2
    <3>7. Keeps(k2, k3) BY <3>6 DEF Keeps, Shape
    <3>8. Leaves(k, k3) /\ Shape(k3) BY <3>6, <3>7, KeepsLeaves DEF Leaves
    <3> HIDE DEF k3
    <3>9. Leaves(k, make_runnable(k3, t)) BY <3>8, KeepsRunnable, KeepsLeaves
    <3> QED BY <3>1, <3>2, <3>3, <3>9, <1>4, <1>6
  <2>6. CASE wup_tsk(t)
    <3> DEFINE d == wait_dequeue_tmevtb(k, t)
               s == set_wercd(d, t, E_OK)
               n == [k EXCEPT !.wupque[t] = TRUE]
    <3>1. k' = dispatch(make_non_wait(s, t)) \/ k' = n BY <2>6 DEF wup_tsk, wait_complete
    <3>2. Keeps(k, d) /\ Shape(d) BY <1>1, KeepsWait DEF Keeps
    <3>3. Keeps(k, n) BY <1>1 DEF Keeps, Shape
    <3> HIDE DEF d, n
    <3>4. Keeps(k, s) /\ Shape(s) BY <3>2, KeepsWait, KeepsAgain DEF Keeps
    <3> HIDE DEF s
    <3>5. Keeps(k, make_non_wait(s, t)) BY <3>4, KeepsWait, KeepsAgain
    <3> QED BY <3>1, <3>3, <3>5, <1>4, <1>5
  <2>7. CASE rel_wai(t)
    <3> DEFINE d == wait_dequeue_tmevtb(wait_dequeue_wobj(k, t), t)
               n == make_non_wait(set_wercd(d, t, "E_RLWAI"), t)
    <3>1. k' = dispatch(n) BY <2>7 DEF rel_wai
    <3>2. Leaves(k, n) BY <2>1, <1>1, LeavesRelease
    <3> HIDE DEF n
    <3> QED BY <3>1, <3>2, <1>6
  <2>8. CASE sus_tsk(t)
    <3> DEFINE i == [k EXCEPT !.tstat[t] = {TS_SUSPENDED}]
               n == [k EXCEPT !.tstat[t] = @ \cup {TS_SUSPENDED}]
    <3>1. k' = dispatch(make_non_runnable(i, t)) \/ k' = n BY <2>8 DEF sus_tsk
    <3>2. Keeps(k, i) /\ Shape(i) /\ Keeps(k, n) BY <1>1 DEF Keeps, Shape
    <3> HIDE DEF i, n
    <3>3. Keeps(k, make_non_runnable(i, t)) BY <3>2, KeepsRunnable, KeepsAgain
    <3> QED BY <3>1, <3>2, <3>3, <1>4, <1>5
  <2>9. CASE rsm_tsk(t)
    <3> DEFINE i == [k EXCEPT !.tstat[t] = {TS_RUNNABLE}]
               n == [k EXCEPT !.tstat[t] = @ \ {TS_SUSPENDED}]
    <3>1. k' = dispatch(make_runnable(i, t)) \/ k' = n BY <2>9 DEF rsm_tsk
    <3>2. Keeps(k, i) /\ Shape(i) /\ Keeps(k, n) BY <1>1 DEF Keeps, Shape
    <3> HIDE DEF i, n
    <3>3. Keeps(k, make_runnable(i, t)) BY <3>2, KeepsRunnable, KeepsAgain
    <3> QED BY <3>1, <3>2, <3>3, <1>4, <1>5
  <2>10. CASE signal_time(t)
    <3> DEFINE i == [k EXCEPT !.tmevtb[t] = NULL]
               w == make_non_wait(set_wercd(wait_dequeue_wobj(i, t), t, "E_TMOUT"), t)
               s == set_wercd(i, t, E_OK)
    <3>1. k' = w \/ k' = make_non_wait(s, t)
      BY <2>10 DEF signal_time, wait_tmout, wait_tmout_ok
    <3>2. Keeps(k, i) /\ Shape(i) /\ i.tstat = k.tstat /\ i.wobj = k.wobj
      BY <1>1, <1>2 DEF Keeps, Shape, KernelState
    <3> HIDE DEF i
    <3>3. Queued(i, t) BY <2>1, <3>2, QueuedFrame DEF Keeps
    <3>4. Leaves(k, w) BY <3>2, <3>3, LeavesRelease, KeepsLeaves
    <3>5. Keeps(i, s) BY <3>2, KeepsWait
    <3> HIDE DEF s
    <3>6. Keeps(k, s) /\ Shape(s) BY <3>2, <3>5, KeepsAgain DEF Keeps
    <3>7. Leaves(k, make_non_wait(s, t)) BY <3>6, KeepsWait, KeepsAgain, KeepsLeaves
    <3> QED BY <3>1, <3>4, <3>7
  <2>11. CASE \E pri \in Pri : chg_pri(t, pri)
    <3>1. PICK pri \in Pri : chg_pri(t, pri) BY <2>11
    <3> DEFINE i == [k EXCEPT !.bpriority[t] = pri]
    <3>2. k' = i \/ k' = dispatch(change_priority(i, t, pri, FALSE)) BY <3>1 DEF chg_pri
    <3>3. Keeps(k, i) /\ Shape(i) /\ DOMAIN i.wque = Wobj BY <1>1 DEF Keeps, Shape
    <3> HIDE DEF i
    <3>4. Leaves(k, change_priority(i, t, pri, FALSE)) BY <3>3, LeavesPriority, KeepsLeaves
    <3> QED BY <3>2, <3>3, <3>4, <1>4, <1>6
  <2> QED BY <1>16, <2>2, <2>3, <2>4, <2>5, <2>6, <2>7, <2>8, <2>9, <2>10, <2>11
<1> QED
  BY <1>7, <1>8, <1>9, <1>11, <1>12, <1>13, <1>14, <1>15, <1>16 DEF TaskNext, OwnCall

(* The two wait queues, and the invariant: senders wait only while         *)
(* the ring buffer is full, receivers only while there is no message.      *)
Senders == k.wque[swait_queue]
Receivers == k.wque[rwait_queue]

DtqInv ==
    /\ KernelInv
    /\ dtqcnt \in Nat /\ RingInv(dtq)
    /\ sdata \in [Task -> Data \cup {NULL}]
    /\ \A t \in Task : Linked(Senders, t) => sdata[t] \in Data
    /\ Senders # << >> => dtq.count = dtqcnt
    /\ Receivers # << >> => dtq.count = 0 /\ Senders = << >>

\* what happens to the data queue: a message goes to the first receiver,
Delivers(data) ==
    /\ Receivers # << >> /\ Receivers' = Tail(Receivers) /\ Senders' = Senders
    /\ Head(Receivers) \in Task
    /\ rdata' = [nothing EXCEPT ![Head(Receivers)] = data]
    /\ dtq' = dtq /\ sdata' = sdata

\* into the ring buffer, with room or without,
Stores(data) ==
    /\ Receivers = << >> /\ dtq.count < dtqcnt
    /\ Receivers' = Receivers /\ Senders' = Senders
    /\ dtq' = enqueue_data(dtq, data) /\ sdata' = sdata /\ rdata' = nothing

Replaces(data) ==
    /\ Receivers = << >> /\ dtqcnt > 0 /\ dtq.count >= dtqcnt
    /\ Receivers' = Receivers /\ Senders' = Senders
    /\ dtq' = enqueue_data(dequeue_data(dtq), data) /\ sdata' = sdata /\ rdata' = nothing

\* or waits with its sender;
WaitsForRoom(data) ==
    /\ Receivers = << >> /\ Receivers' = Receivers /\ dtq.count >= dtqcnt
    /\ k.runtsk \in Task /\ ~Linked(Senders, k.runtsk) /\ Joins(k, k', swait_queue, k.runtsk)
    /\ sdata' = alive([sdata EXCEPT ![k.runtsk] = data])
    /\ dtq' = dtq /\ rdata' = nothing

\* a receiver gets the oldest message, and the first sender's is stored,
Takes ==
    /\ dtq.count > 0 /\ Senders = << >> /\ k.runtsk \in Task
    /\ Senders' = Senders /\ Receivers' = Receivers
    /\ rdata' = [nothing EXCEPT ![k.runtsk] = dtq.p_dtqmb[dtq.head]]
    /\ dtq' = dequeue_data(dtq) /\ sdata' = alive(sdata)

TakesAndStores ==
    /\ dtq.count > 0 /\ Senders # << >> /\ k.runtsk \in Task
    /\ Senders' = Tail(Senders) /\ Receivers' = Receivers
    /\ rdata' = [nothing EXCEPT ![k.runtsk] = dtq.p_dtqmb[dtq.head]]
    /\ dtq' = enqueue_data(dequeue_data(dtq), sdata[Head(Senders)]) /\ sdata' = alive(sdata)

\* or gets that of the first sender, or waits;
TakesFromSender ==
    /\ dtq.count = 0 /\ Senders # << >> /\ k.runtsk \in Task
    /\ Senders' = Tail(Senders) /\ Receivers' = Receivers
    /\ rdata' = [nothing EXCEPT ![k.runtsk] = sdata[Head(Senders)]]
    /\ dtq' = dtq /\ sdata' = alive(sdata)

WaitsForData ==
    /\ dtq.count = 0 /\ Senders = << >> /\ Senders' = Senders
    /\ dtq' = dtq /\ sdata' = sdata /\ rdata' = nothing

\* all is cleared; or tasks leave the queues for other reasons.
Clears ==
    /\ Senders' = << >> /\ Receivers' = << >>
    /\ dtq' = [dtq EXCEPT !.count = 0, !.head = 0, !.tail = 0]
    /\ sdata' = alive(sdata) /\ rdata' = nothing

Goes ==
    /\ OneLeft(k, k')
    /\ \A t \in Task : Linked(Senders', t) => Linked(Senders, t)
    /\ Senders = << >> => Senders' = << >>
    /\ Receivers = << >> => Receivers' = << >>
    /\ dtq' = dtq /\ sdata' = alive(sdata) /\ rdata' = nothing

Outcome ==
    \/ \E data \in Data : Delivers(data) \/ Stores(data) \/ Replaces(data) \/ WaitsForRoom(data)
    \/ Takes \/ TakesAndStores \/ TakesFromSender \/ WaitsForData \/ Clears \/ Goes

-----------------------------------------------------------------------------
\* the two queues of the data queue
LEMMA TwoQueues ==
    ASSUME DtqAssumption
    PROVE  /\ swait_queue \in Wobj /\ rwait_queue \in Wobj /\ swait_queue # rwait_queue
           /\ wfactor[swait_queue] = "SDTQ" /\ wfactor[rwait_queue] = "RDTQ"
BY DEF DtqAssumption

LEMMA QueueType ==
    ASSUME DtqAssumption, KernelInv
    PROVE  Senders \in Seq(Task) /\ Receivers \in Seq(Task)
<1>1. k \in KernelState BY Known DEF KernelInv
<1>2. k.wque \in [Wobj -> Seq(Task)] BY <1>1 DEF KernelState
<1> QED BY <1>2, TwoQueues DEF Senders, Receivers

(* The wait of a receiver is that of wobj_make_wait, in a queue in the     *)
(* order of arrival.                                                       *)
LEMMA WaitForMessage ==
    ASSUME NEW m, m.runtsk = k.runtsk, NEW w, w \notin TA_TPRI
    PROVE  [wobj_queue_insert(m, w) EXCEPT !.wobj[k.runtsk] = w]
             = [m EXCEPT !.wque[w] = queue_insert_prev(@, k.runtsk), !.wobj[k.runtsk] = w]
BY DEF wobj_queue_insert

LEMMA MakeWaitRuns ==
    ASSUME NEW j, "runtsk" \in DOMAIN j, NEW callback
    PROVE  make_wait(j).runtsk = j.runtsk /\ make_wait_tmout(j, callback).runtsk = j.runtsk
<1> DEFINE i == make_non_runnable(j, j.runtsk)
<1>1. i.runtsk = j.runtsk /\ "runtsk" \in DOMAIN i
  BY DEF make_non_runnable, ready_unlink, Check
<1>2. make_wait(j) = [i EXCEPT !.winfo[j.runtsk] = NULL] BY DEF make_wait
<1>3. make_wait_tmout(j, callback)
        = tmevtb_enqueue([i EXCEPT !.winfo[j.runtsk] = PTMEVTB], j.runtsk, callback)
  BY DEF make_wait_tmout
<1> HIDE DEF i
<1> QED BY <1>1, <1>2, <1>3 DEF tmevtb_enqueue, Check

\* wait_to_receive, with a timeout or without
LEMMA ReceiverWaits ==
    ASSUME DtqAssumption, KernelInv, MayWait,
           \/ wait_to_receive(make_wait(waiting_for("RDTQ")))
           \/ wait_to_receive(make_wait_tmout(waiting_for("RDTQ"), "wait_tmout"))
    PROVE  KernelInv' /\ Joins(k, k', rwait_queue, k.runtsk)
<1> DEFINE b == waiting_for("RDTQ")
           w == rwait_queue
<1>1. k \in KernelState BY Known DEF KernelInv
<1>2. b.runtsk = k.runtsk /\ "runtsk" \in DOMAIN b BY <1>1 DEF waiting_for, KernelState
<1>3. w \notin TA_TPRI BY DEF DtqAssumption
<1> HIDE DEF b
<1>4. make_wait(b).runtsk = k.runtsk /\ make_wait_tmout(b, "wait_tmout").runtsk = k.runtsk
  BY <1>2, MakeWaitRuns
<1>5. wobj_make_wait(b, w)
        = [make_wait(b) EXCEPT !.wque[w] = queue_insert_prev(@, k.runtsk), !.wobj[k.runtsk] = w]
  <2> DEFINE m == make_wait(b)
  <2>1. wobj_make_wait(b, w) = [wobj_queue_insert(m, w) EXCEPT !.wobj[k.runtsk] = w]
    BY <1>2 DEF wobj_make_wait
  <2> HIDE DEF m, w
  <2> QED BY <2>1, <1>3, <1>4, WaitForMessage DEF m
<1>6. wobj_make_wait_tmout(b, w)
        = [make_wait_tmout(b, "wait_tmout")
             EXCEPT !.wque[w] = queue_insert_prev(@, k.runtsk), !.wobj[k.runtsk] = w]
  <2> DEFINE m == make_wait_tmout(b, "wait_tmout")
  <2>1. wobj_make_wait_tmout(b, w) = [wobj_queue_insert(m, w) EXCEPT !.wobj[k.runtsk] = w]
    BY <1>2 DEF wobj_make_wait_tmout
  <2> HIDE DEF m, w
  <2> QED BY <2>1, <1>3, <1>4, WaitForMessage DEF m
<1>7. k' = dispatch(wobj_make_wait(b, w)) \/ k' = dispatch(wobj_make_wait_tmout(b, w))
  BY <1>5, <1>6 DEF wait_to_receive, b
<1> QED BY <1>7, TwoQueues, WaitCalls DEF b

\* the first task of queue w is released
LEMMA FirstReleased ==
    ASSUME DtqAssumption, KernelInv, NEW w \in {swait_queue, rwait_queue},
           k.wque[w] # << >>, k' = dispatch(release_first(k, w))
    PROVE  /\ KernelInv' /\ Head(k.wque[w]) \in Task /\ k'.wque[w] = Tail(k.wque[w])
           /\ \A v \in Wobj \ {w} : k'.wque[v] = k.wque[v]
<1>1. w \in Wobj BY TwoQueues
<1>2. k' = dispatch(wait_complete([k EXCEPT !.wque[w] = Tail(@)], Head(k.wque[w])))
  BY DEF release_first
<1>3. Inv(k) BY DEF KernelInv
<1>4. /\ Inv(k') /\ Head(k.wque[w]) \in Task /\ k'.lastmtx = k.lastmtx
      /\ k'.wque[w] = Tail(k.wque[w])
      /\ \A v \in Wobj \ {w} : k'.wque[v] = k.wque[v]
  BY ONLY k.wque[w] # << >>, <1>1, <1>2, <1>3, ReleaseHead, ZenonT(30)
<1> QED BY <1>4 DEF KernelInv, NoneHeld

\* what each group of calls comes to
LEMMA SendOutcome ==
    ASSUME DtqAssumption, DtqInv, NEW data \in Data
    PROVE  /\ to_receiver(data) => KernelInv' /\ Delivers(data)
           /\ send_data(data) => KernelInv' /\ Outcome
           /\ force_send_data(data) /\ dtqcnt > 0 => KernelInv' /\ Outcome
<1>1. ASSUME to_receiver(data) PROVE KernelInv' /\ Delivers(data)
  <2>1. /\ Receivers # << >> /\ k' = dispatch(release_first(k, rwait_queue))
        /\ dtq' = dtq /\ sdata' = sdata /\ rdata' = [nothing EXCEPT ![Head(Receivers)] = data]
    BY <1>1 DEF to_receiver, queue_empty, Receivers
  <2>2. /\ KernelInv' /\ Head(Receivers) \in Task /\ Receivers' = Tail(Receivers)
        /\ \A v \in Wobj \ {rwait_queue} : k'.wque[v] = k.wque[v]
    BY <2>1, FirstReleased DEF DtqInv, Receivers
  <2>3. Senders' = Senders BY <2>2, TwoQueues DEF Senders
  <2> QED BY <2>1, <2>2, <2>3 DEF Delivers
<1>2. ASSUME Receivers = << >>, k' = k, sdata' = sdata, rdata' = nothing
      PROVE  /\ KernelInv' /\ Receivers' = Receivers /\ Senders' = Senders
             /\ dtq.count < dtqcnt /\ dtq' = enqueue_data(dtq, data) => Stores(data)
  BY <1>2 DEF Stores, DtqInv, KernelInv, Senders, Receivers
<1>3. ASSUME send_data(data) PROVE KernelInv' /\ Outcome
  <2>1. CASE to_receiver(data) BY <2>1, <1>1 DEF Outcome
  <2>2. CASE ~to_receiver(data)
    <3>1. /\ Receivers = << >> /\ k' = k /\ sdata' = sdata /\ rdata' = nothing
          /\ dtq.count < dtqcnt /\ dtq' = enqueue_data(dtq, data)
      BY <1>3, <2>2 DEF send_data, queue_empty, Receivers
    <3> QED BY <3>1, <1>2 DEF Outcome
  <2> QED BY <2>1, <2>2
<1>4. ASSUME force_send_data(data), dtqcnt > 0 PROVE KernelInv' /\ Outcome
  <2>1. CASE to_receiver(data) BY <2>1, <1>1 DEF Outcome
  <2>2. CASE ~to_receiver(data)
    <3>1. /\ Receivers = << >> /\ k' = k /\ sdata' = sdata /\ rdata' = nothing
          /\ dtq' = force_enqueue_data(dtq, data)
      BY <1>4, <2>2 DEF force_send_data, queue_empty, Receivers
    <3>2. dtqcnt \in Nat \ {0} /\ RingInv(dtq) /\ dtq.count \in 0 .. dtqcnt
      BY <1>4 DEF DtqInv, RingInv, Dtqcb
    <3>3. CASE dtq.count < dtqcnt
      <4>1. dtq' = enqueue_data(dtq, data) BY <3>1, <3>2, <3>3, ForceEnqueue
      <4> QED BY <4>1, <3>1, <3>3, <1>2 DEF Outcome
    <3>4. CASE dtq.count >= dtqcnt
      <4>1. dtq' = enqueue_data(dequeue_data(dtq), data) BY <3>1, <3>2, <3>4, ForceEnqueue
      <4>2. KernelInv' /\ Receivers' = Receivers /\ Senders' = Senders BY <3>1, <1>2
      <4>3. Replaces(data) BY <4>1, <4>2, <3>1, <3>4, <1>4 DEF Replaces
      <4> QED BY <4>2, <4>3 DEF Outcome
    <3> QED BY <3>2, <3>3, <3>4
  <2> QED BY <2>1, <2>2
<1> QED BY <1>1, <1>3, <1>4

LEMMA ReceiveOutcome ==
    ASSUME DtqAssumption, DtqInv, k.runtsk \in Task, receive_data
    PROVE  KernelInv' /\ Outcome
<1> DEFINE sender == Head(k.wque[swait_queue])
<1>1. ASSUME Senders # << >>, k' = dispatch(release_first(k, swait_queue))
      PROVE  KernelInv' /\ Senders' = Tail(Senders) /\ Receivers' = Receivers
  <2>1. /\ KernelInv' /\ Senders' = Tail(Senders)
        /\ \A v \in Wobj \ {swait_queue} : k'.wque[v] = k.wque[v]
    BY <1>1, FirstReleased DEF DtqInv, Senders
  <2> QED BY <2>1, TwoQueues DEF Receivers
<1>2. CASE /\ dtq.count > 0 /\ Senders = << >> /\ k' = k /\ dtq' = dequeue_data(dtq)
           /\ rdata' = [nothing EXCEPT ![k.runtsk] = dtq.p_dtqmb[dtq.head]]
           /\ sdata' = alive(sdata)
  <2>1. KernelInv' /\ Senders' = Senders /\ Receivers' = Receivers
    BY <1>2 DEF DtqInv, KernelInv, Senders, Receivers
  <2>2. Takes BY <2>1, <1>2 DEF Takes
  <2> QED BY <2>1, <2>2 DEF Outcome
<1>3. CASE /\ dtq.count > 0 /\ Senders # << >> /\ k' = dispatch(release_first(k, swait_queue))
           /\ dtq' = enqueue_data(dequeue_data(dtq), sdata[Head(Senders)])
           /\ rdata' = [nothing EXCEPT ![k.runtsk] = dtq.p_dtqmb[dtq.head]]
           /\ sdata' = alive(sdata)
  <2>1. KernelInv' /\ Senders' = Tail(Senders) /\ Receivers' = Receivers BY <1>1, <1>3
  <2>2. TakesAndStores BY <2>1, <1>3 DEF TakesAndStores
  <2> QED BY <2>1, <2>2 DEF Outcome
<1>4. CASE /\ dtq.count = 0 /\ Senders # << >> /\ k' = dispatch(release_first(k, swait_queue))
           /\ rdata' = [nothing EXCEPT ![k.runtsk] = sdata[Head(Senders)]]
           /\ dtq' = dtq /\ sdata' = alive(sdata)
  <2>1. KernelInv' /\ Senders' = Tail(Senders) /\ Receivers' = Receivers BY <1>1, <1>4
  <2>2. TakesFromSender BY <2>1, <1>4 DEF TakesFromSender
  <2> QED BY <2>1, <2>2 DEF Outcome
<1> QED BY <1>2, <1>3, <1>4 DEF receive_data, queue_empty, Senders

LEMMA WaitOutcome ==
    ASSUME DtqAssumption, DtqInv, MayWait,
           \/ \E data \in Data :
                \/ wait_to_send(data, wobj_make_wait(waiting_for("SDTQ"), swait_queue))
                \/ wait_to_send(data, wobj_make_wait_tmout(waiting_for("SDTQ"), swait_queue))
           \/ wait_to_receive(make_wait(waiting_for("RDTQ")))
           \/ wait_to_receive(make_wait_tmout(waiting_for("RDTQ"), "wait_tmout"))
    PROVE  KernelInv' /\ Outcome
<1>1. k.runtsk \in Task BY Caller DEF DtqInv
<1>2. ASSUME NEW data \in Data,
             \/ wait_to_send(data, wobj_make_wait(waiting_for("SDTQ"), swait_queue))
             \/ wait_to_send(data, wobj_make_wait_tmout(waiting_for("SDTQ"), swait_queue))
      PROVE  KernelInv' /\ Outcome
  <2>1. /\ Receivers = << >> /\ dtq.count >= dtqcnt /\ dtq' = dtq /\ rdata' = nothing
        /\ sdata' = alive([sdata EXCEPT ![k.runtsk] = data])
        /\ \/ k' = dispatch(wobj_make_wait(waiting_for("SDTQ"), swait_queue))
           \/ k' = dispatch(wobj_make_wait_tmout(waiting_for("SDTQ"), swait_queue))
    BY <1>2 DEF wait_to_send, send_data_fails, queue_empty, Receivers
  <2>2. KernelInv' /\ Joins(k, k', swait_queue, k.runtsk)
    BY <2>1, TwoQueues, WaitCalls DEF DtqInv
  <2>3. Receivers' = Receivers BY <2>2, TwoQueues DEF Joins, Receivers
  <2>4. ~Linked(Senders, k.runtsk) BY <1>1, TwoQueues, NotQueued DEF DtqInv, Senders
  <2>5. WaitsForRoom(data) BY <1>1, <2>1, <2>2, <2>3, <2>4 DEF WaitsForRoom
  <2> QED BY <2>2, <2>5 DEF Outcome
<1>3. CASE \/ wait_to_receive(make_wait(waiting_for("RDTQ")))
           \/ wait_to_receive(make_wait_tmout(waiting_for("RDTQ"), "wait_tmout"))
  <2>1. KernelInv' /\ Joins(k, k', rwait_queue, k.runtsk) BY <1>3, ReceiverWaits DEF DtqInv
  <2>2. Senders' = Senders BY <2>1, TwoQueues DEF Joins, Senders
  <2>3. WaitsForData
    BY <1>3, <2>2 DEF WaitsForData, wait_to_receive, receive_data_fails, queue_empty, Senders
  <2> QED BY <2>1, <2>3 DEF Outcome
<1> QED BY <1>2, <1>3

LEMMA ClearOutcome ==
    ASSUME DtqAssumption, DtqInv, ini_dtq
    PROVE  KernelInv' /\ Outcome
<1> DEFINE i == init_wait_queue(k, swait_queue)
           n == init_wait_queue(i, rwait_queue)
<1>1. Settled(k) /\ Fine(k, {}) /\ Inv(k) BY DEF DtqInv, KernelInv, Inv
<1>2. i \in Released(k, swait_queue) /\ i.wque[swait_queue] = << >>
  BY <1>1, TwoQueues, InitQueue
<1> HIDE DEF i
<1>3. Settled(i) /\ Fine(i, {}) /\ SameRest(k, i) /\ Runnable(k) \subseteq Runnable(i)
  BY <1>2 DEF Released
<1>4. n \in Released(i, rwait_queue) /\ n.wque[rwait_queue] = << >>
  BY <1>3, TwoQueues, InitQueue
<1>5. k' = dispatch(n) BY DEF ini_dtq, i
<1> HIDE DEF n
<1>6. /\ Settled(n) /\ Fine(n, {}) /\ SameRest(i, n) /\ Runnable(i) \subseteq Runnable(n)
      /\ \A v \in Wobj \ {rwait_queue} : n.wque[v] = i.wque[v]
  BY <1>4 DEF Released
<1>7. SameRest(k, n) BY <1>3, <1>6 DEF SameRest
<1>8. /\ Inv(k') /\ k'.wque = n.wque /\ k'.lastmtx = k.lastmtx
  BY <1>1, <1>3, <1>5, <1>6, <1>7, LeaveReleased
<1>9. Senders' = << >> /\ Receivers' = << >>
  BY <1>2, <1>4, <1>6, <1>8, TwoQueues DEF Senders, Receivers
<1>10. Clears BY <1>9 DEF Clears, ini_dtq
<1> QED BY <1>8, <1>10 DEF Outcome, DtqInv, KernelInv, NoneHeld

LEMMA TaskOutcome ==
    ASSUME DtqAssumption, DtqInv, [TaskNext]_k, sdata' = alive(sdata), rdata' = nothing,
           dtq' = dtq
    PROVE  KernelInv' /\ Outcome
<1>1. Follows(k, k') BY InvNext DEF DtqInv, KernelInv
<1>2. OneLeft(k, k') BY LeavesNext DEF DtqInv
<1>3. \A t \in Task : Linked(Senders', t) => Linked(Senders, t)
  BY <1>1, TwoQueues DEF Follows, Senders
<1>4. Senders = << >> => Senders' = << >> BY <1>1, TwoQueues, StaysEmpty DEF Senders
<1>5. Receivers = << >> => Receivers' = << >> BY <1>1, TwoQueues, StaysEmpty DEF Receivers
<1>6. Goes BY <1>2, <1>3, <1>4, <1>5 DEF Goes
<1> QED BY <1>1, <1>6 DEF DtqInv, Follows, KernelInv, Outcome

\* every call, and every step of the tasks, has one of the outcomes
LEMMA Outcomes == DtqAssumption /\ DtqInv /\ DtqNext => KernelInv' /\ Outcome
<1> SUFFICES ASSUME DtqAssumption, DtqInv, DtqNext PROVE KernelInv' /\ Outcome OBVIOUS
<1>1. CASE \E data \in Data : snd_dtq(data) \/ psnd_dtq(data) \/ tsnd_dtq(data) \/ fsnd_dtq(data)
  <2>1. PICK data \in Data : snd_dtq(data) \/ psnd_dtq(data) \/ tsnd_dtq(data) \/ fsnd_dtq(data)
    BY <1>1
  <2>2. CASE send_data(data) \/ (force_send_data(data) /\ dtqcnt > 0) BY <2>2, SendOutcome
  <2>3. CASE /\ MayWait
             /\ \/ wait_to_send(data, wobj_make_wait(waiting_for("SDTQ"), swait_queue))
                \/ wait_to_send(data, wobj_make_wait_tmout(waiting_for("SDTQ"), swait_queue))
    BY <2>3, WaitOutcome
  <2> QED BY <2>1, <2>2, <2>3 DEF snd_dtq, psnd_dtq, tsnd_dtq, fsnd_dtq, MayWait
<1>2. CASE rcv_dtq \/ prcv_dtq \/ trcv_dtq
  <2>1. k.runtsk \in Task
    BY <1>2, Caller DEF rcv_dtq, prcv_dtq, trcv_dtq, MayWait, DtqInv
  <2>2. CASE receive_data BY <2>1, <2>2, ReceiveOutcome
  <2>3. CASE /\ MayWait
             /\ \/ wait_to_receive(make_wait(waiting_for("RDTQ")))
                \/ wait_to_receive(make_wait_tmout(waiting_for("RDTQ"), "wait_tmout"))
    BY <2>3, WaitOutcome
  <2> QED BY <1>2, <2>2, <2>3 DEF rcv_dtq, prcv_dtq, trcv_dtq, MayWait
<1>3. CASE ini_dtq BY <1>3, ClearOutcome
<1>4. CASE TaskNext /\ sdata' = alive(sdata) /\ rdata' = nothing /\ dtq' = dtq
  BY <1>4, TaskOutcome
<1> QED BY <1>1, <1>2, <1>3, <1>4 DEF DtqNext, DtqCall

\* the ring buffer without a message
LEMMA NoMessage ==
    ASSUME dtqcnt \in Nat, NEW q \in Dtqcb, q.count = 0, q.head = 0, q.tail = 0
    PROVE  RingInv(q) /\ Ring(q) = << >>
<1>1. dtqcnt > 0 => q.tail = Place(q, q.count) BY DEF Place
<1>2. Ring(q) = [i \in 1 .. 0 |-> q.p_dtqmb[Place(q, i - 1)]] BY DEF Ring
<1>3. Ring(q) = << >> BY <1>2
<1>4. \A i \in 1 .. q.count : Ring(q)[i] \in Data OBVIOUS
<1> QED BY <1>1, <1>3, <1>4 DEF RingInv

LEMMA ClearRing ==
    ASSUME dtqcnt \in Nat, NEW q, RingInv(q)
    PROVE  LET r == [q EXCEPT !.count = 0, !.head = 0, !.tail = 0] IN
           RingInv(r) /\ r.count = 0 /\ Ring(r) = << >>
<1> DEFINE r == [q EXCEPT !.count = 0, !.head = 0, !.tail = 0]
<1>1. q \in Dtqcb BY DEF RingInv
<1>2. 0 \in 0 .. dtqcnt /\ 0 \in Nat OBVIOUS
<1>3. r \in Dtqcb BY <1>1, <1>2 DEF Dtqcb
<1>4. r.count = 0 /\ r.head = 0 /\ r.tail = 0 BY <1>1 DEF Dtqcb
<1> HIDE DEF r
<1>5. RingInv(r) /\ Ring(r) = << >> BY <1>3, <1>4, NoMessage
<1> QED BY <1>4, <1>5 DEF r

\* the invariant holds at first and is kept
LEMMA DtqInvInit == DtqAssumption /\ DtqInit => DtqInv
<1> SUFFICES ASSUME DtqAssumption, DtqInit PROVE DtqInv OBVIOUS
<1>1. KernelInv BY InvInit DEF DtqInit, KernelInv
<1>2. dtqcnt \in Nat BY DEF DtqInit, DtqAssumption
<1>3. dtq \in Dtqcb /\ dtq.count = 0 /\ dtq.head = 0 /\ dtq.tail = 0
  BY <1>2 DEF DtqInit, initialize_dataqueue, Dtqcb
<1>4. RingInv(dtq) BY <1>2, <1>3, NoMessage
<1>5. \A w \in Wobj : k.wque[w] = << >> BY DEF DtqInit, TaskInit, initialize_task
<1>6. Senders = << >> /\ Receivers = << >> BY <1>5, TwoQueues DEF Senders, Receivers
<1>7. sdata \in [Task -> Data \cup {NULL}] BY DEF DtqInit, nothing
<1>8. \A t \in Task : ~Linked(Senders, t) BY <1>6 DEF Linked
<1> QED BY <1>1, <1>2, <1>4, <1>6, <1>7, <1>8 DEF DtqInv

\* the message of a task lives on while the task is in the queue
LEMMA Alive ==
    ASSUME NEW d \in [Task -> Data \cup {NULL}], sdata' = alive(d)
    PROVE  /\ sdata' \in [Task -> Data \cup {NULL}]
           /\ \A t \in Task : Linked(Senders', t) => sdata'[t] = d[t]
<1>1. \A t \in Task : Contains(k'.wque[swait_queue], t) <=> Linked(Senders', t)
  BY DEF Contains, Linked, Senders
<1>2. sdata' = [t \in Task |-> IF Linked(Senders', t) THEN d[t] ELSE NULL] BY <1>1 DEF alive
<1> QED BY <1>2

\* the head and the rest of a wait queue
LEMMA LinkedTail ==
    ASSUME NEW q \in Seq(Task), q # << >>
    PROVE  /\ Head(q) \in Task /\ Linked(q, Head(q))
           /\ \A t : Linked(Tail(q), t) => Linked(q, t)
<1>1. /\ Len(q) \in Nat \ {0} /\ Len(Tail(q)) = Len(q) - 1 /\ Head(q) = q[1] /\ q[1] \in Task
      /\ \A i \in 1 .. Len(q) - 1 : Tail(q)[i] = q[i + 1]
  OBVIOUS
<1>2. 1 \in 1 .. Len(q) /\ \A i \in 1 .. Len(q) - 1 : i + 1 \in 1 .. Len(q) BY <1>1
<1> QED BY <1>1, <1>2 DEF Linked

\* dtqcnt is the same before and after a step
LEMMA RingPrimed ==
    ASSUME dtqcnt' = dtqcnt, RingInv(dtq')
    PROVE  RingInv(dtq)'
BY DEF RingInv, Ring, Place, Dtqcb

LEMMA DtqInvKept ==
    ASSUME DtqAssumption, DtqInv, KernelInv', dtqcnt' = dtqcnt, Outcome
    PROVE  DtqInv'
<1>1. /\ dtqcnt \in Nat /\ RingInv(dtq) /\ dtq.count \in 0 .. dtqcnt
      /\ sdata \in [Task -> Data \cup {NULL}]
      /\ \A t \in Task : Linked(Senders, t) => sdata[t] \in Data
      /\ Senders # << >> => dtq.count = dtqcnt
      /\ Receivers # << >> => dtq.count = 0 /\ Senders = << >>
  BY DEF DtqInv, RingInv, Dtqcb
<1>2. Senders \in Seq(Task) /\ Receivers \in Seq(Task) BY QueueType DEF DtqInv
<1>3. ASSUME RingInv(dtq'), sdata' \in [Task -> Data \cup {NULL}],
             \A t \in Task : Linked(Senders', t) => sdata'[t] \in Data,
             Senders' # << >> => dtq'.count = dtqcnt,
             Receivers' # << >> => dtq'.count = 0 /\ Senders' = << >>
      PROVE  DtqInv'
  <2>1. RingInv(dtq)' BY <1>3, RingPrimed
  <2>2. dtqcnt' \in Nat BY <1>1
  <2> QED BY <2>1, <2>2, <1>3 DEF DtqInv
<1>4. ASSUME NEW data \in Data, Delivers(data) PROVE DtqInv'
  <2>1. /\ Receivers # << >> /\ Senders' = Senders /\ dtq' = dtq /\ sdata' = sdata
    BY <1>4 DEF Delivers
  <2> QED BY <2>1, <1>1, <1>3
<1>5. ASSUME NEW data \in Data, Stores(data) PROVE DtqInv'
  <2>1. /\ Receivers' = << >> /\ Senders' = Senders /\ sdata' = sdata /\ dtq.count < dtqcnt
        /\ dtq' = enqueue_data(dtq, data)
    BY <1>5 DEF Stores
  <2>2. RingInv(dtq') BY <2>1, <1>1, Enqueue
  <2>3. Senders = << >> BY <2>1, <1>1
  <2> QED BY <2>1, <2>2, <2>3, <1>1, <1>3
<1>6. ASSUME NEW data \in Data, Replaces(data) PROVE DtqInv'
  <2>1. /\ Receivers' = << >> /\ Senders' = Senders
        /\ sdata' = sdata /\ dtqcnt > 0 /\ dtq.count = dtqcnt
        /\ dtq' = enqueue_data(dequeue_data(dtq), data)
    BY <1>1, <1>6 DEF Replaces
  <2> DEFINE d == dequeue_data(dtq)
  <2>2. RingInv(d) /\ d.count = dtq.count - 1 BY <2>1, <1>1, Dequeue
  <2> HIDE DEF d
  <2>3. d.count < dtqcnt /\ d.count + 1 = dtqcnt BY <2>1, <2>2, <1>1
  <2>4. RingInv(enqueue_data(d, data)) /\ enqueue_data(d, data).count = dtqcnt
    BY <2>2, <2>3, <1>1, Enqueue
  <2>5. dtq' = enqueue_data(d, data) BY <2>1 DEF d
  <2>6. RingInv(dtq') /\ dtq'.count = dtqcnt BY <2>4, <2>5
  <2> QED BY <2>1, <2>6, <1>1, <1>3
<1>7. ASSUME NEW data \in Data, WaitsForRoom(data) PROVE DtqInv'
  <2> DEFINE d == [sdata EXCEPT ![k.runtsk] = data]
  <2>1. /\ Receivers' = << >> /\ dtq.count = dtqcnt /\ dtq' = dtq /\ k.runtsk \in Task
        /\ sdata' = alive(d) /\ Joins(k, k', swait_queue, k.runtsk)
    BY <1>1, <1>7 DEF WaitsForRoom
  <2>2. d \in [Task -> Data \cup {NULL}] BY <1>1
  <2>3. \A t \in Task : d[t] = IF t = k.runtsk THEN data ELSE sdata[t] BY <1>1
  <2> HIDE DEF d
  <2>4. /\ sdata' \in [Task -> Data \cup {NULL}]
        /\ \A t \in Task : Linked(Senders', t) => sdata'[t] = d[t]
    BY <2>1, <2>2, Alive
  <2>5. \A t \in Task : Linked(Senders', t) => Linked(Senders, t) \/ t = k.runtsk
    BY <2>1 DEF Joins, Senders
  <2>6. \A t \in Task : Linked(Senders', t) => sdata'[t] \in Data BY <2>3, <2>4, <2>5, <1>1
  <2> QED BY <2>1, <2>4, <2>6, <1>1, <1>3
<1>8. ASSUME sdata' = alive(sdata), \A t \in Task : Linked(Senders', t) => Linked(Senders, t)
      PROVE  /\ sdata' \in [Task -> Data \cup {NULL}]
             /\ \A t \in Task : Linked(Senders', t) => sdata'[t] \in Data
  BY <1>1, <1>8, Alive
<1>9. CASE Takes
  <2>1. /\ Receivers' = Receivers /\ Senders' = << >> /\ sdata' = alive(sdata) /\ dtq.count > 0
        /\ dtq' = dequeue_data(dtq)
    BY <1>9 DEF Takes
  <2>2. RingInv(dtq') BY <2>1, <1>1, Dequeue
  <2>3. \A t \in Task : ~Linked(Senders', t) BY <2>1 DEF Linked
  <2>4. Receivers = << >> BY <2>1, <1>1
  <2> QED BY <2>1, <2>2, <2>3, <2>4, <1>3, <1>8
<1>10. ASSUME Senders # << >> PROVE Head(Senders) \in Task /\ sdata[Head(Senders)] \in Data /\ Receivers = << >>
  BY <1>1, <1>2, <1>10, LinkedTail
<1>11. CASE TakesAndStores
  <2>1. /\ Receivers' = Receivers /\ Senders' = Tail(Senders) /\ Senders # << >>
        /\ sdata' = alive(sdata) /\ dtq.count > 0
        /\ dtq' = enqueue_data(dequeue_data(dtq), sdata[Head(Senders)])
    BY <1>11 DEF TakesAndStores
  <2> DEFINE d == dequeue_data(dtq)
             x == sdata[Head(Senders)]
  <2>2. RingInv(d) /\ d.count = dtq.count - 1 BY <2>1, <1>1, Dequeue
  <2>3. dtq' = enqueue_data(d, x) BY <2>1
  <2>4. x \in Data BY <2>1, <1>10
  <2> HIDE DEF d, x
  <2>5. d.count < dtqcnt /\ d.count + 1 = dtqcnt BY <2>1, <2>2, <1>1
  <2>6. RingInv(enqueue_data(d, x)) /\ enqueue_data(d, x).count = dtqcnt
    BY <2>2, <2>4, <2>5, <1>1, Enqueue
  <2>7. RingInv(dtq') /\ dtq'.count = dtqcnt BY <2>3, <2>6
  <2>8. \A t \in Task : Linked(Senders', t) => Linked(Senders, t) BY <2>1, <1>2, LinkedTail
  <2> QED BY <2>1, <2>7, <2>8, <1>3, <1>8, <1>10
<1>12. CASE TakesFromSender
  <2>1. /\ Receivers' = Receivers /\ Senders' = Tail(Senders) /\ Senders # << >>
        /\ sdata' = alive(sdata) /\ dtq' = dtq
    BY <1>12 DEF TakesFromSender
  <2>2. \A t \in Task : Linked(Senders', t) => Linked(Senders, t) BY <2>1, <1>2, LinkedTail
  <2> QED BY <2>1, <2>2, <1>1, <1>3, <1>8, <1>10
<1>13. CASE WaitsForData
  <2>1. dtq.count = 0 /\ Senders = << >> /\ Senders' = << >> /\ dtq' = dtq /\ sdata' = sdata
    BY <1>13 DEF WaitsForData
  <2>2. \A t \in Task : Linked(Senders', t) => sdata'[t] \in Data BY <2>1 DEF Linked
  <2> QED BY <2>1, <2>2, <1>1, <1>3
<1>14. CASE Clears
  <2>1. /\ Senders' = << >> /\ Receivers' = << >> /\ sdata' = alive(sdata)
        /\ dtq' = [dtq EXCEPT !.count = 0, !.head = 0, !.tail = 0]
    BY <1>14 DEF Clears
  <2>2. RingInv(dtq') BY <2>1, <1>1, ClearRing
  <2>3. \A t \in Task : ~Linked(Senders', t) BY <2>1 DEF Linked
  <2> QED BY <2>1, <2>2, <2>3, <1>3, <1>8
<1>15. CASE Goes
  <2>1. /\ \A t \in Task : Linked(Senders', t) => Linked(Senders, t)
        /\ Senders = << >> => Senders' = << >>
        /\ Receivers = << >> => Receivers' = << >>
        /\ dtq' = dtq /\ sdata' = alive(sdata)
    BY <1>15 DEF Goes
  <2> QED BY <2>1, <1>1, <1>3, <1>8
<1> QED BY <1>4, <1>5, <1>6, <1>7, <1>9, <1>11, <1>12, <1>13, <1>14, <1>15 DEF Outcome

LEMMA DtqInvNext == DtqAssumption /\ DtqInv /\ [DtqNext]_dtq_vars => DtqInv'
<1> SUFFICES ASSUME DtqAssumption, DtqInv, [DtqNext]_dtq_vars PROVE DtqInv' OBVIOUS
<1>1. CASE DtqNext
  <2>1. KernelInv' /\ Outcome BY <1>1, Outcomes
  <2>2. dtqcnt' = dtqcnt BY <1>1 DEF DtqNext
  <2> QED BY <2>1, <2>2, DtqInvKept
<1>2. CASE UNCHANGED dtq_vars
  <2>1. k' = k /\ dtqcnt' = dtqcnt /\ dtq' = dtq /\ sdata' = sdata BY <1>2 DEF dtq_vars
  <2>2. RingInv(dtq') BY <2>1 DEF DtqInv
  <2>3. RingInv(dtq)' BY <2>1, <2>2, RingPrimed
  <2> QED BY <2>1, <2>3 DEF DtqInv, KernelInv, Senders, Receivers
<1> QED BY <1>1, <1>2

\* ... and it says what DtqOK says
LEMMA DtqInvOK == DtqInv => DtqOK
<1> SUFFICES ASSUME DtqInv PROVE DtqOK OBVIOUS
<1>1. dtqcnt \in Nat /\ RingInv(dtq) /\ dtq \in Dtqcb BY DEF DtqInv, RingInv
<1>2. ASSUME dtqcnt > 0
      PROVE  dtq.head < dtqcnt /\ dtq.tail = (dtq.head + dtq.count) % dtqcnt
  <2>1. /\ dtqcnt \in Nat \ {0} /\ dtq.count \in 0 .. dtqcnt /\ dtq.head \in 0 .. dtqcnt - 1
        /\ dtq.tail = Place(dtq, dtq.count)
    BY <1>1, <1>2, RingType
  <2> DEFINE a == dtq.head + dtq.count
             v == IF a < dtqcnt THEN a ELSE a - dtqcnt
  <2>2. a \in Nat /\ a < dtqcnt + dtqcnt BY <2>1
  <2>3. dtq.tail = v BY <2>1 DEF Place
  <2> HIDE DEF a
  <2>4. a % dtqcnt = v BY <2>1, <2>2, Around
  <2> HIDE DEF v
  <2>5. dtq.tail = a % dtqcnt BY <2>3, <2>4
  <2>6. dtq.head < dtqcnt BY <2>1
  <2> QED BY <2>5, <2>6 DEF a
<1> QED BY <1>1, <1>2 DEF DtqInv, DtqOK, queue_empty, Senders, Receivers

(* The indices of the ring buffer agree, senders wait only while it is     *)
(* full, receivers only while there is no message at all, and the tasks,   *)
(* the queues and the dispatcher stay as TaskCalls promises: for every     *)
(* number of tasks and messages and every size of the buffer, none too,    *)
(* senders in the order of arrival or of priorities (dataqueue.c, wait.c). *)
THEOREM DataqueueCorrect ==
    ASSUME DtqAssumption
    PROVE  DtqSpec => [](DtqOK /\ TasksOK)
<1>1. DtqInit => DtqInv BY DtqInvInit
<1>2. DtqInv /\ [DtqNext]_dtq_vars => DtqInv' BY DtqInvNext
<1>3. DtqInv => DtqOK /\ TasksOK BY DtqInvOK, TasksSafe DEF DtqInv
<1> QED BY <1>1, <1>2, <1>3, PTL DEF DtqSpec

(* The channel: the messages in the ring, then those of the senders.       *)
LEMMA ChanIs ==
    ASSUME DtqInv
    PROVE  Stored \o Pending = Ring(dtq) \o Pend(Senders, sdata)
<1>1. Stored = Messages(dtq) BY DEF Stored, Messages
<1>2. Stored = Ring(dtq) BY <1>1, StoredIs DEF DtqInv
<1>3. Pending = Pend(Senders, sdata) BY DEF Pending, Pend, Senders
<1> QED BY <1>2, <1>3

LEMMA ChanNext ==
    ASSUME DtqInv, dtqcnt' = dtqcnt, RingInv(dtq')
    PROVE  (Stored \o Pending)' = Ring(dtq') \o Pend(Senders', sdata')
<1>1. Stored' = Messages(dtq') BY DEF Stored, Messages
<1>2. Stored' = Ring(dtq') BY <1>1, StoredIs DEF DtqInv
<1>3. Pending' = Pend(Senders', sdata') BY DEF Pending, Pend, Senders
<1> QED BY <1>2, <1>3

\* the parts it is made of
LEMMA ChanParts ==
    ASSUME DtqAssumption, DtqInv
    PROVE  /\ Senders \in Seq(Task) /\ dtqcnt \in Nat /\ dtq.count \in 0 .. dtqcnt /\ RingInv(dtq)
           /\ Ring(dtq) \in Seq(Data) /\ Len(Ring(dtq)) = dtq.count
           /\ Pend(Senders, sdata) \in Seq(Data) /\ Len(Pend(Senders, sdata)) = Len(Senders)
           /\ \A t \in Task : Linked(Senders, t) => sdata[t] \in Data
<1>1. dtqcnt \in Nat /\ dtq.count \in 0 .. dtqcnt /\ RingInv(dtq)
      /\ \A t \in Task : Linked(Senders, t) => sdata[t] \in Data
  BY DEF DtqInv, RingInv, Dtqcb
<1>2. Senders \in Seq(Task) BY QueueType DEF DtqInv
<1>3. Ring(dtq) \in Seq(Data) /\ Len(Ring(dtq)) = dtq.count BY <1>1, RingSeq
<1>4. Pend(Senders, sdata) \in Seq(Data) /\ Len(Pend(Senders, sdata)) = Len(Senders)
  BY <1>1, <1>2, PendSeq
<1> QED BY <1>1, <1>2, <1>3, <1>4

\* InsertAt and RemoveAt as the instance of Channel names them
LEMMA ChannelEdits ==
    \A s, i, x : /\ AbsChannel!InsertAt(s, i, x) = InsertAt(s, i, x)
                /\ AbsChannel!RemoveAt(s, i) = RemoveAt(s, i)
BY DEF AbsChannel!InsertAt, AbsChannel!RemoveAt, InsertAt, RemoveAt

LEMMA NoPend == \A d : Pend(<< >>, d) = << >>
BY DEF Pend

LEMMA JoinNothing ==
    ASSUME NEW S, NEW s \in Seq(S)
    PROVE  s \o << >> = s /\ << >> \o s = s
OBVIOUS

\* a message goes in
LEMMA SendSteps ==
    ASSUME DtqAssumption, swait_queue \notin TA_TPRI, DtqInv, dtqcnt' = dtqcnt,
           NEW data \in Data
    PROVE  /\ Delivers(data) => AbsChannel!Pass(Head(Receivers)) /\ Head(Receivers) \in Task
           /\ Stores(data) => AbsChannel!Send
           /\ Replaces(data) => AbsChannel!Force
           /\ WaitsForRoom(data) => AbsChannel!Send
<1> DEFINE c == Stored \o Pending
           s == Ring(dtq)
           p == Pend(Senders, sdata)
<1>1. /\ Senders \in Seq(Task) /\ dtqcnt \in Nat /\ dtq.count \in 0 .. dtqcnt /\ RingInv(dtq)
      /\ s \in Seq(Data) /\ Len(s) = dtq.count
      /\ p \in Seq(Data) /\ Len(p) = Len(Senders)
      /\ \A t \in Task : Linked(Senders, t) => sdata[t] \in Data
  BY ChanParts
<1>2. c = s \o p BY ChanIs
<1>3. RingInv(dtq') => c' = Ring(dtq') \o Pend(Senders', sdata') BY ChanNext
<1>4. AbsChannel!nothing = nothing BY DEF AbsChannel!nothing, nothing
<1> HIDE DEF s, p
<1>5. ASSUME Delivers(data) PROVE AbsChannel!Pass(Head(Receivers)) /\ Head(Receivers) \in Task
  <2>1. /\ Receivers # << >> /\ Senders' = Senders
    /\ Head(Receivers) \in Task /\ dtq' = dtq /\ sdata' = sdata
        /\ rdata' = [nothing EXCEPT ![Head(Receivers)] = data]
    BY <1>5 DEF Delivers
  <2>2. dtq.count = 0 /\ Senders = << >> BY <2>1 DEF DtqInv
  <2>3. s = << >> /\ p = << >> BY <2>2, <1>1
  <2>4. c = << >> BY <2>3, <1>2
  <2>5. c' = s \o p BY <2>1, <1>1, <1>3 DEF s, p
  <2>6. c' = c BY <2>5, <1>2
  <2> HIDE DEF c
  <2>7. c = << >> /\ c' = c BY <2>4, <2>6
  <2> QED BY <2>1, <2>7, <1>4 DEF AbsChannel!Pass, c
<1>6. ASSUME NEW x \in Data, c' = Append(c, x), rdata' = nothing PROVE AbsChannel!Send
  <2> HIDE DEF c
  <2> QED BY <1>4, <1>6 DEF AbsChannel!Send, c
<1>7. ASSUME Stores(data) PROVE AbsChannel!Send
  <2>1. /\ Senders' = Senders /\ dtq.count < dtqcnt /\ sdata' = sdata /\ rdata' = nothing
        /\ dtq' = enqueue_data(dtq, data)
    BY <1>7 DEF Stores
  <2>2. RingInv(dtq') /\ Ring(dtq') = Append(s, data) BY <2>1, <1>1, Enqueue DEF s
  <2>3. Senders = << >>
    <3>1. dtq.count # dtqcnt BY <2>1, <1>1
    <3> QED BY <3>1 DEF DtqInv
  <2>4. p = << >> /\ Pend(Senders', sdata') = << >> BY <2>1, <2>3, NoPend DEF p
  <2>5. c = s BY <2>4, <1>1, <1>2, JoinNothing
  <2>6. Append(s, data) \in Seq(Data) BY <1>1
  <2>7. c' = Append(s, data) BY <2>2, <2>4, <2>6, <1>3, JoinNothing
  <2> QED BY <2>1, <2>5, <2>7, <1>6
<1>8. ASSUME Replaces(data) PROVE AbsChannel!Force
  <2>1. /\ Senders' = Senders
        /\ dtqcnt > 0 /\ dtq.count = dtqcnt /\ sdata' = sdata /\ rdata' = nothing
        /\ dtq' = enqueue_data(dequeue_data(dtq), data)
    BY <1>1, <1>8 DEF Replaces
  <2> DEFINE d == dequeue_data(dtq)
  <2>2. RingInv(d) /\ d.count = dtq.count - 1 /\ Ring(d) = Tail(s) /\ s # << >>
    BY <2>1, <1>1, Dequeue DEF s
  <2>3. dtq' = enqueue_data(d, data) BY <2>1
  <2> HIDE DEF d
  <2>4. d.count < dtqcnt BY <2>1, <2>2, <1>1
  <2>5. RingInv(dtq') /\ Ring(dtq') = Append(Tail(s), data)
    BY <2>2, <2>3, <2>4, <1>1, Enqueue
  <2>6. c' = Append(Tail(s), data) \o p BY <2>1, <2>5, <1>3 DEF p
  <2>7. Append(Tail(s), data) \o p = InsertAt(Tail(s \o p), Len(s), data)
    BY <2>2, <1>1, JoinInsert
  <2>8. c' = InsertAt(Tail(c), dtqcnt, data)
    <3>1. Len(s) = dtqcnt BY <2>1, <1>1
    <3> QED BY ONLY <3>1, <2>6, <2>7, <1>2
  <2>9. Len(c) >= dtqcnt
    <3>1. Len(s \o p) = Len(s) + Len(p) /\ Len(p) \in Nat BY <1>1
    <3> QED BY <3>1, <2>1, <1>1, <1>2
  <2>10. c' = AbsChannel!InsertAt(Tail(c), dtqcnt, data) BY <2>8, ChannelEdits
  <2> HIDE DEF c
  <2> QED BY <2>1, <2>9, <2>10, <1>4 DEF AbsChannel!Force, c
<1>9. ASSUME WaitsForRoom(data) PROVE AbsChannel!Send
  <2> DEFINE t == k.runtsk
             e == [sdata EXCEPT ![t] = data]
  <2>1. /\ t \in Task /\ ~Linked(Senders, t) /\ Joins(k, k', swait_queue, t)
        /\ dtq' = dtq /\ sdata' = alive(e) /\ rdata' = nothing
    BY <1>9 DEF WaitsForRoom
  <2>2. sdata \in [Task -> Data \cup {NULL}] BY DEF DtqInv
  <2>3. e \in [Task -> Data \cup {NULL}] /\ e[t] = data
        /\ \A u \in Task \ {t} : e[u] = sdata[u]
    BY <2>1, <2>2
  <2> HIDE DEF e, t
  <2>4. \A u \in Task : Linked(Senders', u) => sdata'[u] = e[u] BY <2>1, <2>3, Alive
  <2>5. AbsChannel!Send
    <3>1. Senders' = Append(Senders, t) BY <2>1 DEF Joins, Senders
    <3>2. \A u : Linked(Senders', u) <=> Linked(Senders, u) \/ u = t BY <2>1 DEF Joins, Senders
    <3>3. sdata'[t] = data BY <3>2, <2>1, <2>3, <2>4
    <3>4. \A u \in Task : Linked(Senders, u) => sdata'[u] = sdata[u] /\ sdata[u] \in Data
      BY <3>2, <2>1, <2>3, <2>4, <1>1
    <3>5. Pend(Senders', sdata') = Append(p, data)
      <4> DEFINE f == sdata'
                 r == Senders'
      <4>1. t \in Task /\ Senders \in Seq(Task) BY <1>1, <2>1
      <4>2. \A u \in Task : Linked(Senders, u) => f[u] = sdata[u] /\ sdata[u] \in Data BY <3>4
      <4>3. r = queue_insert_prev(Senders, t) /\ f[t] = data BY <3>1, <3>3 DEF queue_insert_prev
      <4> HIDE DEF f, r
      <4>4. Pend(r, f) = queue_insert_prev(Pend(Senders, sdata), data)
        BY <4>1, <4>2, <4>3, PendAppend
      <4> QED BY <4>4 DEF f, r, p, queue_insert_prev
    <3>6. c' = s \o Append(p, data) BY <3>5, <2>1, <1>1, <1>3 DEF s
    <3>7. c' = Append(c, data) BY <3>6, <1>1, <1>2, JoinAppend
    <3> QED BY <3>7, <2>1, <1>6
  <2> QED BY <2>5
<1> QED BY <1>5, <1>7, <1>8, <1>9

\* a message comes out, or none does
LEMMA TakeSteps ==
    ASSUME DtqAssumption, DtqInv, RingInv(dtq'), dtqcnt' = dtqcnt
    PROVE  /\ Takes \/ TakesAndStores \/ TakesFromSender =>
                k.runtsk \in Task /\ AbsChannel!Receive(k.runtsk)
           /\ WaitsForData => AbsChannel!Other
           /\ Clears => AbsChannel!Reset
<1> DEFINE c == Stored \o Pending
           s == Ring(dtq)
           p == Pend(Senders, sdata)
           t == k.runtsk
<1>1. /\ Senders \in Seq(Task) /\ dtqcnt \in Nat /\ dtq.count \in 0 .. dtqcnt /\ RingInv(dtq)
      /\ s \in Seq(Data) /\ Len(s) = dtq.count
      /\ p \in Seq(Data) /\ Len(p) = Len(Senders)
      /\ \A u \in Task : Linked(Senders, u) => sdata[u] \in Data
  BY ChanParts
<1>2. c = s \o p BY ChanIs
<1>3. c' = Ring(dtq') \o Pend(Senders', sdata') BY ChanNext
<1>4. AbsChannel!nothing = nothing BY DEF AbsChannel!nothing, nothing
<1>5. sdata \in [Task -> Data \cup {NULL}] BY DEF DtqInv
<1> HIDE DEF s, p
<1>6. ASSUME c # << >>, t \in Task, c' = Tail(c), rdata' = [nothing EXCEPT ![t] = Head(c)]
      PROVE  k.runtsk \in Task /\ AbsChannel!Receive(k.runtsk)
  <2> HIDE DEF c
  <2> QED BY <1>4, <1>6 DEF AbsChannel!Receive, c
\* the first sender leaves its queue
<1>7. ASSUME Senders # << >>, Senders' = Tail(Senders), sdata' = alive(sdata)
      PROVE  Pend(Senders', sdata') = Tail(p) /\ p # << >> /\ Head(p) = sdata[Head(Senders)]
  <2>1. \A u \in Task : Linked(Senders', u) => sdata'[u] = sdata[u] BY <1>5, <1>7, Alive
  <2>2. \A u \in Task : Linked(Tail(Senders), u) => sdata'[u] = sdata[u] BY <2>1, <1>7
  <2> DEFINE f == sdata'
             q == Senders
  <2>3. \A u \in Task : Linked(Tail(q), u) => f[u] = sdata[u] BY <2>2
  <2>4. q \in Seq(Task) /\ q # << >> /\ \A u \in Task : Linked(q, u) => sdata[u] \in Data
    BY <1>1, <1>7
  <2> HIDE DEF f, q
  <2>5. /\ Pend(Tail(q), f) = Tail(Pend(q, sdata))
        /\ Pend(q, sdata) # << >> /\ Head(Pend(q, sdata)) = sdata[Head(q)]
    BY <2>3, <2>4, PendTail
  <2> QED BY <2>5, <1>7 DEF f, q, p
<1>8. ASSUME dtq.count > 0
      PROVE  /\ RingInv(dequeue_data(dtq)) /\ Ring(dequeue_data(dtq)) = Tail(s)
             /\ dequeue_data(dtq).count = dtq.count - 1
             /\ s # << >> /\ Head(s) = dtq.p_dtqmb[dtq.head]
  BY <1>1, <1>8, Dequeue DEF s
<1>9. ASSUME dtq.count > 0, rdata' = [nothing EXCEPT ![t] = dtq.p_dtqmb[dtq.head]], t \in Task,
             c' = Tail(s \o p)
      PROVE  k.runtsk \in Task /\ AbsChannel!Receive(k.runtsk)
  <2>1. Head(s \o p) = Head(s) /\ s \o p # << >> BY <1>1, <1>8, <1>9, JoinTail
  <2>2. c # << >> /\ c' = Tail(c) /\ Head(c) = dtq.p_dtqmb[dtq.head]
    BY <2>1, <1>2, <1>8, <1>9
  <2> HIDE DEF c, t
  <2> QED BY <2>2, <1>6, <1>9
<1>10. ASSUME Takes PROVE k.runtsk \in Task /\ AbsChannel!Receive(k.runtsk)
  <2>1. /\ dtq.count > 0 /\ Senders = << >> /\ Senders' = << >> /\ t \in Task
        /\ dtq' = dequeue_data(dtq) /\ sdata' = alive(sdata)
        /\ rdata' = [nothing EXCEPT ![t] = dtq.p_dtqmb[dtq.head]]
    BY <1>10 DEF Takes
  <2>2. p = << >> /\ Pend(Senders', sdata') = << >> BY <2>1, NoPend DEF p
  <2>3. c' = Tail(s) \o p BY <2>1, <2>2, <1>3, <1>8
  <2>4. Tail(s \o p) = Tail(s) \o p BY <2>1, <1>1, <1>8, JoinTail
  <2> HIDE DEF c
  <2> QED BY <2>1, <2>3, <2>4, <1>9
<1>11. ASSUME TakesAndStores PROVE k.runtsk \in Task /\ AbsChannel!Receive(k.runtsk)
  <2>1. /\ dtq.count > 0 /\ Senders # << >> /\ Senders' = Tail(Senders) /\ t \in Task
        /\ dtq' = enqueue_data(dequeue_data(dtq), sdata[Head(Senders)]) /\ sdata' = alive(sdata)
        /\ rdata' = [nothing EXCEPT ![t] = dtq.p_dtqmb[dtq.head]]
    BY <1>11 DEF TakesAndStores
  <2>2. Pend(Senders', sdata') = Tail(p) /\ p # << >> /\ Head(p) = sdata[Head(Senders)]
    BY <2>1, <1>7
  <2> DEFINE d == dequeue_data(dtq)
             x == sdata[Head(Senders)]
  <2>3. RingInv(d) /\ Ring(d) = Tail(s) /\ d.count = dtq.count - 1 /\ s # << >>
    BY <2>1, <1>8
  <2>4. x \in Data /\ dtq' = enqueue_data(d, x)
    <3>1. Head(p) \in Data BY <2>2, <1>1
    <3> QED BY <3>1, <2>1, <2>2
  <2> HIDE DEF d, x
  <2>5. d.count < dtqcnt BY <2>3, <1>1
  <2>6. Ring(dtq') = Append(Tail(s), x) BY <2>3, <2>4, <2>5, <1>1, Enqueue
  <2>7. c' = Append(Tail(s), Head(p)) \o Tail(p) BY <2>2, <2>6, <1>3 DEF x
  <2>8. Append(Tail(s), Head(p)) \o Tail(p) = Tail(s \o p) BY <2>2, <2>3, <1>1, JoinMove
  <2>9. c' = Tail(s \o p) BY <2>7, <2>8
  <2> HIDE DEF c
  <2> QED BY <2>1, <2>9, <1>9
<1>12. ASSUME TakesFromSender PROVE k.runtsk \in Task /\ AbsChannel!Receive(k.runtsk)
  <2>1. /\ dtq.count = 0 /\ Senders # << >> /\ Senders' = Tail(Senders) /\ t \in Task
        /\ dtq' = dtq /\ sdata' = alive(sdata)
        /\ rdata' = [nothing EXCEPT ![t] = sdata[Head(Senders)]]
    BY <1>12 DEF TakesFromSender
  <2>2. Pend(Senders', sdata') = Tail(p) /\ p # << >> /\ Head(p) = sdata[Head(Senders)]
    BY <2>1, <1>7
  <2>3. s = << >> /\ Ring(dtq') = << >> BY <2>1, <1>1 DEF s
  <2>4. Tail(p) \in Seq(Data) BY <2>2, <1>1
  <2>5. c = p BY <2>3, <1>1, <1>2, JoinNothing
  <2>6. c' = Tail(p) BY <2>2, <2>3, <2>4, <1>3, JoinNothing
  <2> HIDE DEF c
  <2> QED BY <2>1, <2>2, <2>5, <2>6, <1>6
<1>13. ASSUME WaitsForData PROVE AbsChannel!Other
  <2>1. Senders' = Senders /\ dtq' = dtq /\ sdata' = sdata /\ rdata' = nothing
    BY <1>13 DEF WaitsForData
  <2>2. c' = c BY <2>1, <1>2, <1>3 DEF s, p
  <2> HIDE DEF c
  <2> QED BY <2>1, <2>2, <1>4 DEF AbsChannel!Other, c
<1>14. ASSUME Clears PROVE AbsChannel!Reset
  <2>1. /\ Senders' = << >> /\ dtq' = [dtq EXCEPT !.count = 0, !.head = 0, !.tail = 0]
        /\ rdata' = nothing
    BY <1>14 DEF Clears
  <2>2. Ring(dtq') = << >> BY <2>1, <1>1, ClearRing
  <2>3. Pend(Senders', sdata') = << >> BY <2>1, NoPend
  <2>4. c' = << >> BY <2>2, <2>3, <1>3
  <2> HIDE DEF c
  <2> QED BY <2>1, <2>4, <1>4 DEF AbsChannel!Reset, c
<1> QED BY <1>10, <1>11, <1>12, <1>13, <1>14

\* a sender leaves its queue: it has been released, or its timeout has come
LEMMA GoSteps ==
    ASSUME DtqAssumption, swait_queue \notin TA_TPRI, DtqInv, dtqcnt' = dtqcnt, Goes
    PROVE  AbsChannel!Other \/ AbsChannel!Withdraw
<1> DEFINE c == Stored \o Pending
           s == Ring(dtq)
           p == Pend(Senders, sdata)
<1>1. /\ Senders \in Seq(Task) /\ dtqcnt \in Nat /\ dtq.count \in 0 .. dtqcnt /\ RingInv(dtq)
      /\ s \in Seq(Data) /\ Len(s) = dtq.count
      /\ p \in Seq(Data) /\ Len(p) = Len(Senders)
      /\ \A u \in Task : Linked(Senders, u) => sdata[u] \in Data
  BY ChanParts
<1>2. /\ dtq' = dtq /\ sdata' = alive(sdata) /\ rdata' = nothing /\ Left(Senders, Senders')
  BY TwoQueues DEF Goes, OneLeft, Senders
<1>3. c = s \o p BY ChanIs
<1>4. c' = s \o Pend(Senders', sdata') BY <1>1, <1>2, ChanNext
<1>5. AbsChannel!nothing = nothing BY DEF AbsChannel!nothing, nothing
<1> HIDE DEF s
<1>6. \A u \in Task : Linked(Senders', u) => sdata'[u] = sdata[u] BY <1>2, Alive DEF DtqInv
<1>7. CASE Senders' = Senders
  <2>1. Pend(Senders', sdata') = p BY <1>1, <1>6, <1>7, PendSame
  <2>2. c' = c BY <2>1, <1>3, <1>4
  <2> HIDE DEF c
  <2> QED BY <2>2, <1>2, <1>5 DEF AbsChannel!Other, c
<1>8. CASE \E x : Linked(Senders, x) /\ Senders' = queue_delete(Senders, x)
  <2>1. PICK x : Linked(Senders, x) /\ Senders' = queue_delete(Senders, x) BY <1>8
  <2>2. \A u \in Task : Linked(queue_delete(Senders, x), u) => sdata'[u] = sdata[u]
    BY <2>1, <1>6
  <2>3. \E i \in 1 .. Len(Senders) : Pend(queue_delete(Senders, x), sdata') = RemoveAt(p, i)
    <3> DEFINE f == sdata'
               q == Senders
    <3>1. /\ q \in Seq(Task) /\ Linked(q, x)
          /\ \A u \in Task : Linked(q, u) => sdata[u] \in Data
      BY <1>1, <2>1
    <3>2. \A u \in Task : Linked(queue_delete(q, x), u) => f[u] = sdata[u] BY <2>2
    <3> HIDE DEF f, q
    <3>3. \E i \in 1 .. Len(q) : Pend(queue_delete(q, x), f) = RemoveAt(Pend(q, sdata), i)
      BY ONLY <3>1, <3>2, PendDelete
    <3> QED BY <3>3 DEF f, q, p
  <2>4. PICK i \in 1 .. Len(Senders) : Pend(Senders', sdata') = RemoveAt(p, i) BY <2>1, <2>3
  <2> HIDE DEF p
  <2>5. c' = RemoveAt(s \o p, Len(s) + i)
    <3>1. c' = s \o RemoveAt(p, i) BY <2>4, <1>4
    <3>2. i \in 1 .. Len(p) /\ p \in Seq(Data) /\ s \in Seq(Data) BY <1>1
    <3>3. RemoveAt(s \o p, Len(s) + i) = s \o RemoveAt(p, i) BY ONLY <3>2, JoinRemove
    <3> HIDE DEF c
    <3> QED BY <3>1, <3>3
  <2>6. Senders # << >> BY <2>1 DEF Linked
  <2>7. Len(s) = dtqcnt BY <2>6, <1>1 DEF DtqInv
  <2>8. c' = RemoveAt(c, dtqcnt + i) BY <2>5, <2>7, <1>3
  <2>9. dtqcnt + i \in dtqcnt + 1 .. Len(c)
    <3>1. Len(s \o p) = Len(s) + Len(p) BY <1>1
    <3>2. Len(c) = dtqcnt + Len(Senders) BY <3>1, <2>7, <1>1, <1>3
    <3>3. Len(Senders) \in Nat BY <1>1
    <3> QED BY <3>2, <3>3, <2>4, <1>1
  <2>10. c' = AbsChannel!RemoveAt(c, dtqcnt + i) BY <2>8, ChannelEdits
  <2> HIDE DEF c
  <2> QED BY <2>9, <2>10, <1>2, <1>5 DEF AbsChannel!Withdraw, c
<1> QED BY <1>2, <1>7, <1>8 DEF Left

\* the steps of the refinement
LEMMA ChannelInit == DtqAssumption /\ DtqInit => AbsChannel!ChannelInit
<1> SUFFICES ASSUME DtqAssumption, DtqInit PROVE AbsChannel!ChannelInit OBVIOUS
<1>1. DtqInv BY DtqInvInit
<1>2. dtqcnt \in Nat /\ dtq.count = 0 /\ rdata = nothing
  BY DEF DtqInit, DtqAssumption, initialize_dataqueue
<1>3. \A w \in Wobj : k.wque[w] = << >> BY DEF DtqInit, TaskInit, initialize_task
<1>4. Senders = << >> BY <1>3, TwoQueues DEF Senders
<1>5. Ring(dtq) = << >> BY <1>1, <1>2, ChanParts
<1>6. Pend(Senders, sdata) = << >> BY <1>4, NoPend
<1>7. Stored \o Pending = << >> BY <1>1, <1>5, <1>6, ChanIs
<1> QED BY <1>2, <1>7 DEF AbsChannel!ChannelInit, AbsChannel!nothing, nothing

LEMMA ChannelStep ==
    /\ DtqAssumption /\ swait_queue \notin TA_TPRI
    /\ DtqInv /\ DtqInv' /\ [DtqNext]_dtq_vars
    => [AbsChannel!ChannelNext]_(AbsChannel!channel_vars)
<1> SUFFICES ASSUME DtqAssumption, swait_queue \notin TA_TPRI, DtqInv, DtqInv',
                    [DtqNext]_dtq_vars
             PROVE  [AbsChannel!ChannelNext]_(AbsChannel!channel_vars)
  OBVIOUS
<1>1. CASE UNCHANGED dtq_vars
  <2>1. k' = k /\ dtqcnt' = dtqcnt /\ dtq' = dtq /\ sdata' = sdata /\ rdata' = rdata
    BY <1>1 DEF dtq_vars
  <2>2. (Stored \o Pending)' = Stored \o Pending BY <2>1 DEF Stored, Pending
  <2> QED BY <2>1, <2>2 DEF AbsChannel!channel_vars
<1>2. CASE DtqNext
  <2>1. Outcome BY <1>2, Outcomes
  <2>2. dtqcnt' = dtqcnt BY <1>2 DEF DtqNext
  <2>3. RingInv(dtq') BY <2>2 DEF DtqInv, RingInv, Ring, Place, Dtqcb
  <2>4. ASSUME \/ AbsChannel!Send \/ AbsChannel!Force \/ AbsChannel!Withdraw
               \/ AbsChannel!Reset \/ AbsChannel!Other
               \/ \E r \in Task : AbsChannel!Receive(r) \/ AbsChannel!Pass(r)
        PROVE  AbsChannel!ChannelNext
    BY <2>2, <2>4 DEF AbsChannel!ChannelNext
  <2>5. CASE \E data \in Data :
               Delivers(data) \/ Stores(data) \/ Replaces(data) \/ WaitsForRoom(data)
    BY <2>2, <2>4, <2>5, SendSteps
  <2>6. CASE Takes \/ TakesAndStores \/ TakesFromSender \/ WaitsForData \/ Clears
    BY <2>2, <2>3, <2>4, <2>6, TakeSteps
  <2>7. CASE Goes BY <2>2, <2>4, <2>7, GoSteps
  <2> QED BY <2>1, <2>5, <2>6, <2>7 DEF Outcome
<1> QED BY <1>1, <1>2

(* With its senders in the order of arrival the data queue is a first-in-  *)
(* first-out channel: each message that goes in comes out once, in order,  *)
(* or is taken back by a sender that stops waiting, or is dropped by       *)
(* fsnd_dtq or ini_dtq, whatever calls, releases, priority changes,        *)
(* terminations and timeouts come between (dataqueue.c).                   *)
THEOREM ChannelImplemented ==
    ASSUME DtqAssumption, swait_queue \notin TA_TPRI
    PROVE  DtqSpec => ImplementsChannel
<1>1. DtqInit => DtqInv /\ AbsChannel!ChannelInit BY DtqInvInit, ChannelInit
<1>2. DtqInv /\ [DtqNext]_dtq_vars => DtqInv' BY DtqInvNext
<1>3. DtqInv /\ DtqInv' /\ [DtqNext]_dtq_vars
        => [AbsChannel!ChannelNext]_(AbsChannel!channel_vars)
  BY ChannelStep
<1> QED BY <1>1, <1>2, <1>3, PTL DEF DtqSpec, ImplementsChannel, AbsChannel!ChannelSpec
=============================================================================
