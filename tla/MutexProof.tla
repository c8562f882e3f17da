----------------------------- MODULE MutexProof -----------------------------
(***************************************************************************)
(* Proofs about the calls of mutex.c, for every set of tasks and mutexes   *)
(* and every ceiling: they keep the invariant of TaskProof (MutexTasks); a *)
(* mutex and its owner's chain agree about who holds it                    *)
(* (OwnershipCorrect); every current priority is the one the held ceilings *)
(* call for (CeilingCorrect); and a mutex passes only from its owner to    *)
(* the first task that waits for it (HandOverCorrect). The last three rest *)
(* on Owned below, the state of the chains between two calls, which the    *)
(* routines inside a call keep but for the tasks and mutexes they have in  *)
(* hand.                                                                   *)
(***************************************************************************)
EXTENDS MutexCalls, TaskProof

-----------------------------------------------------------------------------
(* The kernel. No more than the chains changes.                            *)
SameButChains(j, n) ==
    /\ n.tstat = j.tstat /\ n.bpriority = j.bpriority /\ n.priority = j.priority
    /\ n.actque = j.actque /\ n.wupque = j.wupque /\ n.raster = j.raster
    /\ n.enater = j.enater /\ n.winfo = j.winfo /\ n.wobj = j.wobj /\ n.tmevtb = j.tmevtb
    /\ n.readyq = j.readyq /\ n.primap = j.primap /\ n.wque = j.wque
    /\ n.runtsk = j.runtsk /\ n.schedtsk = j.schedtsk /\ n.enadsp = j.enadsp
    /\ n.dspflg = j.dspflg /\ n.ipm = j.ipm /\ n.nest = j.nest /\ n.broken = j.broken

\* what a routine of mutex.c leaves to the one that called it
Keeps(j, n) ==
    /\ Settled(n) /\ Fine(n, {}) /\ SameMode(j, n)
    /\ n.raster = j.raster /\ n.enater = j.enater
    /\ Runnable(j) \subseteq Runnable(n)

LEMMA KeepsAgain ==
    ASSUME NEW j, NEW i, NEW n, Keeps(j, i), Keeps(i, n)
    PROVE  Keeps(j, n)
BY DEF Keeps, SameMode

LEMMA KeepsChains ==
    ASSUME NEW j, Settled(j), Fine(j, {}), NEW n \in KernelState, SameButChains(j, n)
    PROVE  Keeps(j, n) /\ Runnable(n) = Runnable(j)
<1>1. SameMode(j, n) /\ SameWait(j, n) BY DEF SameMode, SameWait, SameButChains
<1>2. Settled(n) /\ Runnable(n) = Runnable(j) BY <1>1, SettledMode DEF SameButChains
<1>3. Fine(n, {}) BY <1>1, FineFrame DEF SameButChains
<1> QED BY <1>1, <1>2, <1>3 DEF Keeps, SameButChains

(* A task of any state is given another current priority.                  *)
LEMMA ChangeKeeps ==
    ASSUME NEW j, Settled(j), Fine(j, {}), NEW t \in Task, NEW newpri \in Pri,
           NEW mtxmode \in BOOLEAN
    PROVE  LET n == change_priority(j, t, newpri, mtxmode) IN
           Keeps(j, n) /\ Runnable(n) = Runnable(j) /\ SameRest(j, n)
<1> DEFINE n == change_priority(j, t, newpri, mtxmode)
<1>1. Ready(j, Runnable(j)) /\ Plain(j) BY DEF Settled
<1>2. TSTAT_RUNNABLE(j.tstat[t]) <=> t \in Runnable(j) BY DEF TSTAT_RUNNABLE, Runnable
<1>3. CASE ~TSTAT_WAIT_WOBJCB(j.tstat[t])
  <2>1. Ready(n, Runnable(j)) /\ Same(j, n) BY <1>1, <1>2, <1>3, ChangePriority
  <2> HIDE DEF n
  <2>2. Runnable(n) = Runnable(j) /\ SameRest(j, n) /\ SameWait(j, n) /\ n.tstat = j.tstat
    BY <2>1 DEF Runnable, Same, SameRest, SameWait
  <2>3. Settled(n) BY <2>1, <2>2 DEF Settled, Plain, Same
  <2>4. Fine(n, {}) BY <2>2, FineFrame
  <2>5. SameMode(j, n) BY <2>2, SameRestSys
  <2>6. Keeps(j, n) BY <2>2, <2>3, <2>4, <2>5 DEF Keeps, SameRest
  <2> QED BY <2>2, <2>6 DEF n
<1>4. CASE TSTAT_WAIT_WOBJCB(j.tstat[t])
  <2>1. t \notin Runnable(j)
    <3>1. j.tstat[t] \in TaskStates BY <1>1 DEF Plain
    <3> QED BY <3>1, <1>4, States DEF Runnable
  <2>2. Settled(n) /\ Fine(n, {}) /\ SameRest(j, n) /\ Runnable(n) = Runnable(j)
    BY <2>1, <1>4, ChangeWaiting
  <2> HIDE DEF n
  <2>3. SameMode(j, n) BY <2>2, SameRestSys
  <2>4. Keeps(j, n) BY <2>2, <2>3 DEF Keeps, SameRest
  <2> QED BY <2>2, <2>4 DEF n
<1> QED BY <1>3, <1>4

(* mutex_calc_priority returns the best of the base priority and the       *)
(* ceilings.                                                               *)
LEMMA Calc ==
    ASSUME NEW j, j \in KernelState, NEW t \in Task
    PROVE  LET p == mutex_calc_priority(j, t) IN
           /\ p \in Pri
           /\ p \in {j.bpriority[t]} \cup CeilingsOf(j, t)
           /\ \A c \in {j.bpriority[t]} \cup CeilingsOf(j, t) : p <= c
<1> DEFINE S == {j.bpriority[t]} \cup CeilingsOf(j, t)
<1>1. CeilingsOf(j, t) \subseteq Pri
  BY WobjAssumption DEF CeilingsOf, MTX_CEILING
<1>2. j.bpriority[t] \in Pri BY DEF KernelState
<1>3. S \in SUBSET Nat /\ S # {} /\ S \subseteq Pri BY <1>1, <1>2, PriNat
<1>4. mutex_calc_priority(j, t) = Min(S) BY DEF mutex_calc_priority
<1> HIDE DEF S
<1>5. PICK p \in S : \A c \in S : p <= c BY <1>3, LeastElement
<1>6. Min(S) \in S /\ \A c \in S : Min(S) <= c BY <1>5 DEF Min
<1> QED BY <1>3, <1>4, <1>6 DEF S

(* mutex_drop_priority lowers the priority of a task or leaves it.         *)
LEMMA DropKeeps ==
    ASSUME NEW j, Settled(j), Fine(j, {}), NEW t \in Task, NEW m
    PROVE  LET n == mutex_drop_priority(j, t, m) IN
           Keeps(j, n) /\ Runnable(n) = Runnable(j) /\ SameRest(j, n)
<1> DEFINE p == mutex_calc_priority(j, t)
           n == mutex_drop_priority(j, t, m)
<1>1. j \in KernelState BY DEF Settled, Ready, Core
<1>2. p \in Pri /\ TRUE \in BOOLEAN BY <1>1, Calc
<1>3. n = j \/ n = change_priority(j, t, p, TRUE) BY DEF mutex_drop_priority
<1> HIDE DEF n, p
<1>4. CASE n = j BY <1>4 DEF Keeps, SameMode, SameRest, n
<1>5. CASE n = change_priority(j, t, p, TRUE)
  <2>1. Keeps(j, n) /\ Runnable(n) = Runnable(j) /\ SameRest(j, n)
    BY <1>2, <1>5, ChangeKeeps
  <2> QED BY <2>1 DEF n
<1> QED BY <1>3, <1>4, <1>5

(* Leaving a call, once the kernel is in order.                            *)
LEMMA LeaveKept ==
    ASSUME NEW j, Inv(j), NEW n, Keeps(j, n)
    PROVE  Inv(dispatch(n)) /\ (dispatch(n).runtsk # j.runtsk => dispatch(n).nest = 0 /\ dispatch(n).dspflg)
<1>1. Asked(n, {})
  <2>1. Asked(j, {}) BY Known
  <2> QED BY <2>1 DEF Asked, Keeps, SameMode
<1>2. n.nest # 0 /\ n.runtsk # NULL => n.runtsk \in Runnable(n)
  BY Known DEF Keeps, SameMode
<1>3. Follows(n, dispatch(n)) BY <1>1, <1>2, Dispatch DEF Keeps
<1> QED BY <1>3 DEF Follows, Keeps, SameMode

(* The chains are fields of their own.                                     *)
LEMMA PushFields ==
    ASSUME NEW j, j \in KernelState, NEW t \in Task, NEW m \in Mutex
    PROVE  LET n == chain_push(j, t, m) IN
           /\ n \in KernelState /\ SameButChains(j, n)
           /\ n.loctsk = [j.loctsk EXCEPT ![m] = t]
           /\ n.prevmtx = [j.prevmtx EXCEPT ![m] = j.lastmtx[t]]
           /\ n.lastmtx = [j.lastmtx EXCEPT ![t] = m]
<1> DEFINE n == chain_push(j, t, m)
           p == j.lastmtx[t]
<1>1. p \in Mutex \cup {NULL} BY DEF KernelState
<1>2. n = [j EXCEPT !.loctsk[m] = t, !.prevmtx[m] = p, !.lastmtx[t] = m]
  BY DEF chain_push
<1> HIDE DEF p, n
<1>3. n \in KernelState
  BY ONLY <1>1, <1>2, j \in KernelState, t \in Task, m \in Mutex DEF KernelState
<1>4. /\ n.loctsk = [j.loctsk EXCEPT ![m] = t] /\ n.prevmtx = [j.prevmtx EXCEPT ![m] = p]
      /\ n.lastmtx = [j.lastmtx EXCEPT ![t] = m]
  BY <1>2 DEF KernelState
<1>5. SameButChains(j, n) BY <1>2 DEF KernelState, SameButChains
<1> QED BY <1>3, <1>4, <1>5 DEF n, p

Popped(j, t, m) == [j EXCEPT !.lastmtx[t] = j.prevmtx[m]]

LEMMA PopFields ==
    ASSUME NEW j, j \in KernelState, NEW t \in Task, NEW m \in Mutex
    PROVE  LET n == Popped(j, t, m) IN
           /\ n \in KernelState /\ SameButChains(j, n)
           /\ n.loctsk = j.loctsk /\ n.prevmtx = j.prevmtx
           /\ n.lastmtx = [j.lastmtx EXCEPT ![t] = j.prevmtx[m]]
<1> DEFINE n == Popped(j, t, m)
           p == j.prevmtx[m]
<1>1. p \in Mutex \cup {NULL} BY DEF KernelState
<1>2. n = [j EXCEPT !.lastmtx[t] = p] BY DEF Popped
<1> HIDE DEF p, n
<1>3. n \in KernelState
  BY ONLY <1>1, <1>2, j \in KernelState, t \in Task DEF KernelState
<1>4. /\ n.loctsk = j.loctsk /\ n.prevmtx = j.prevmtx
      /\ n.lastmtx = [j.lastmtx EXCEPT ![t] = p]
  BY <1>2 DEF KernelState
<1>5. SameButChains(j, n) BY <1>2 DEF KernelState, SameButChains
<1> QED BY <1>3, <1>4, <1>5 DEF n, p

\* what the walk along a chain visits, from its head and its links
Walk(head, prev) ==
    LET walk[n \in 0 .. Cardinality(Mutex)] ==
          IF n = 0 THEN {head} \ {NULL}
          ELSE walk[n - 1] \cup ({prev[m] : m \in walk[n - 1]} \ {NULL})
    IN  walk[Cardinality(Mutex)]

LEMMA ChainOfIs ==
    ASSUME NEW j, NEW t
    PROVE  ChainOf(j, t) = Walk(j.lastmtx[t], j.prevmtx)
BY Zenon DEF ChainOf, Walk

Unchained(j, t, m) == chain_remove([j EXCEPT !.loctsk[m] = NULL], t, m)

\* the fields that it changes
Removed(j, n, t, m) ==
    /\ n \in KernelState /\ SameButChains(j, n)
    /\ n.loctsk = [j.loctsk EXCEPT ![m] = NULL]
    /\ n.prevmtx = [x \in Mutex |->
           IF x \in ChainOf(j, t) /\ j.prevmtx[x] = m THEN j.prevmtx[m] ELSE j.prevmtx[x]]
    /\ n.lastmtx = [j.lastmtx EXCEPT ![t] = IF @ = m THEN j.prevmtx[m] ELSE @]

LEMMA RemoveFields ==
    ASSUME NEW j, j \in KernelState, NEW t \in Task, NEW m \in Mutex
    PROVE  Removed(j, Unchained(j, t, m), t, m)
<1> DEFINE f == [j EXCEPT !.loctsk[m] = NULL]
           n == Unchained(j, t, m)
           p == [x \in Mutex |->
                  IF x \in ChainOf(j, t) /\ j.prevmtx[x] = m THEN j.prevmtx[m]
                  ELSE j.prevmtx[x]]
           l == IF j.lastmtx[t] = m THEN j.prevmtx[m] ELSE j.lastmtx[t]
<1>1. f \in KernelState
  <2>1. NULL \in Task \cup {NULL} OBVIOUS
  <2> QED BY ONLY <2>1, j \in KernelState, m \in Mutex DEF KernelState
<1>2. /\ f.loctsk = [j.loctsk EXCEPT ![m] = NULL] /\ f.lastmtx = j.lastmtx
      /\ f.prevmtx = j.prevmtx /\ SameButChains(j, f)
  <2>1. f.loctsk = [j.loctsk EXCEPT ![m] = NULL] /\ f.lastmtx = j.lastmtx BY DEF KernelState
  <2>2. f.prevmtx = j.prevmtx BY DEF KernelState
  <2>3. SameButChains(j, f) BY DEF KernelState, SameButChains
  <2> QED BY <2>1, <2>2, <2>3
<1>3. ChainOf(f, t) = ChainOf(j, t) BY <1>2, ChainOfIs
<1>4. j.prevmtx \in [Mutex -> Mutex \cup {NULL}] /\ j.lastmtx \in [Task -> Mutex \cup {NULL}]
  BY DEF KernelState
<1>5. p \in [Mutex -> Mutex \cup {NULL}] /\ l \in Mutex \cup {NULL} BY <1>4
<1>6. n = [f EXCEPT !.lastmtx[t] = l, !.prevmtx = p]
  <2> DEFINE lf == IF f.lastmtx[t] = m THEN f.prevmtx[m] ELSE f.lastmtx[t]
             pf == [x \in Mutex |->
                      IF x \in ChainOf(f, t) /\ f.prevmtx[x] = m THEN f.prevmtx[m]
                      ELSE f.prevmtx[x]]
  <2>1. n = [f EXCEPT !.lastmtx[t] = lf, !.prevmtx = pf] BY DEF Unchained, chain_remove
  <2>2. lf = l BY <1>2
  <2>3. pf = p BY <1>2, <1>3
  <2> HIDE DEF lf, pf, l, p, n, f
  <2> QED BY <2>1, <2>2, <2>3
<1>7. p = [x \in Mutex |->
              IF x \in ChainOf(j, t) /\ j.prevmtx[x] = m THEN j.prevmtx[m]
              ELSE j.prevmtx[x]]
  OBVIOUS
<1>8. [j.lastmtx EXCEPT ![t] = IF @ = m THEN j.prevmtx[m] ELSE @] = [j.lastmtx EXCEPT ![t] = l]
  BY <1>4
<1> HIDE DEF f, n, p, l
<1>9. n \in KernelState
  BY ONLY <1>1, <1>5, <1>6, t \in Task DEF KernelState
<1>10. /\ n.loctsk = f.loctsk /\ n.prevmtx = p /\ n.lastmtx = [f.lastmtx EXCEPT ![t] = l]
  BY <1>1, <1>6 DEF KernelState
<1>11. SameButChains(f, n) BY <1>1, <1>6 DEF KernelState, SameButChains
<1>12. SameButChains(j, n) BY <1>2, <1>11 DEF SameButChains
<1>13. Removed(j, n, t, m) BY <1>2, <1>7, <1>8, <1>9, <1>10, <1>12 DEF Removed
<1> QED BY <1>13 DEF n

(* The task that should run keeps the processor when its priority rises.   *)
LEMMA RaiseSelf ==
    ASSUME NEW j, j \in KernelState, NEW t \in Task, t \in Runnable(j), j.schedtsk = t,
           NEW newpri \in Pri, newpri < j.priority[t]
    PROVE  change_priority(j, t, newpri, TRUE).schedtsk = t
<1> DEFINE k1 == [j EXCEPT !.priority[t] = newpri]
           u1 == ready_unlink(k1, t, j.priority[t])
           k2 == [u1 EXCEPT !.readyq[newpri] = queue_insert_next(@, t),
                            !.primap = @ \cup {newpri}]
           s  == IF ~j.dspflg THEN k2.schedtsk
                 ELSE IF k2.schedtsk = t
                 THEN (IF newpri >= j.priority[t] THEN search_schedtsk(k2) ELSE k2.schedtsk)
                 ELSE IF \/ newpri < k1.priority[j.schedtsk]
                         \/ TRUE /\ newpri = k1.priority[j.schedtsk]
                      THEN t ELSE k2.schedtsk
<1>1. TSTAT_RUNNABLE(j.tstat[t]) BY DEF Runnable, TSTAT_RUNNABLE
<1>2. change_priority(j, t, newpri, TRUE) = [k2 EXCEPT !.schedtsk = s]
  BY <1>1 DEF change_priority
<1>3. "schedtsk" \in DOMAIN k1 /\ k1.schedtsk = t BY DEF KernelState
<1> HIDE DEF k1
<1>4. "schedtsk" \in DOMAIN u1 /\ u1.schedtsk = t BY <1>3 DEF ready_unlink
<1> HIDE DEF u1
<1>5. "schedtsk" \in DOMAIN k2 /\ k2.schedtsk = t BY <1>4
<1> HIDE DEF k2
<1>6. ~(newpri >= j.priority[t])
  <2>1. newpri \in Int /\ j.priority[t] \in Int BY PriNat DEF KernelState
  <2> QED BY <2>1
<1>7. s = t BY <1>5, <1>6
<1> HIDE DEF s
<1> QED BY <1>2, <1>5, <1>7

(* A free mutex is locked: the running task keeps the processor, as the    *)
(* assert says.                                                            *)
LEMMA LockFree ==
    ASSUME Inv(k), CHECK_TSKCTX_UNL, NEW m \in Mutex, lock_free(m)
    PROVE  Inv(k)' /\ k'.runtsk = k.runtsk /\ k' = mutex_acquire(k, k.runtsk, m)
<1> DEFINE t == k.runtsk
           p == chain_push(k, t, m)
           c == change_priority(p, t, ceilpri[m], TRUE)
           n == mutex_acquire(k, t, m)
<1>1. /\ k \in KernelState /\ Settled(k) /\ Fine(k, {}) /\ t \in Task /\ t \in Runnable(k)
      /\ k.nest = 0 /\ k.schedtsk = t /\ Asked(k, {})
  BY Known DEF CHECK_TSKCTX_UNL, CHECK_TSKCTX
<1>2. p \in KernelState /\ SameButChains(k, p) BY <1>1, PushFields
<1>3. Keeps(k, p) /\ Runnable(p) = Runnable(k) BY <1>1, <1>2, KeepsChains
<1>4. p.schedtsk = t BY <1>1, <1>2 DEF SameButChains
<1>5. n = p \/ (MTX_CEILING(m) /\ ceilpri[m] < p.priority[t] /\ n = c)
  BY <1>2 DEF mutex_acquire, SameButChains
<1> HIDE DEF p, n
<1>6. Keeps(k, n) /\ n.schedtsk = t
  <2>1. CASE n = p BY <2>1, <1>3, <1>4
  <2>2. CASE MTX_CEILING(m) /\ ceilpri[m] < p.priority[t] /\ n = c
    <3>1. ceilpri[m] \in Pri BY <2>2, WobjAssumption DEF MTX_CEILING
    <3>2. c.schedtsk = t BY <3>1, <2>2, <1>1, <1>2, <1>3, <1>4, RaiseSelf
    <3>3. Keeps(p, c)
      <4>1. TRUE \in BOOLEAN OBVIOUS
      <4> QED BY <4>1, <3>1, <1>1, <1>3, ChangeKeeps DEF Keeps
    <3> QED BY <3>2, <3>3, <2>2, <1>3, KeepsAgain
  <2> QED BY <1>5, <2>1, <2>2
<1>7. n.runtsk = t BY <1>6 DEF Keeps, SameMode
<1>8. k' = n
  <2>1. k' = Check(n, n.runtsk = n.schedtsk, "mutex") BY DEF lock_free, n
  <2> QED BY <2>1, <1>6, <1>7 DEF Check
<1>9. Inv(n)
  <2>1. Settled(n) /\ Fine(n, {}) BY <1>6 DEF Keeps
  <2>2. Asked(n, {}) BY <1>1, <1>6 DEF Keeps, Asked, SameMode
  <2>3. t \in Runnable(n) BY <1>1, <1>6 DEF Keeps
  <2> QED BY <2>1, <2>2, <2>3, <1>6, <1>7 DEF Inv
<1> QED BY <1>7, <1>8, <1>9 DEF n

(* The steps of unl_mtx and ini_mtx, up to their dispatch.                 *)
Unlocked(j, t, m) == mutex_release(mutex_drop_priority(Popped(j, t, m), t, m), m)

LEMMA UnlockKeeps ==
    ASSUME NEW j, Settled(j), Fine(j, {}), NEW t \in Task, NEW m \in Mutex
    PROVE  Keeps(j, Unlocked(j, t, m))
<1> DEFINE k1 == Popped(j, t, m)
           k2 == mutex_drop_priority(k1, t, m)
           n  == mutex_release(k2, m)
<1>1. j \in KernelState BY DEF Settled, Ready, Core
<1>2. Keeps(j, k1) BY <1>1, PopFields, KeepsChains
<1> HIDE DEF k1
<1>3. Keeps(k1, k2) BY <1>2, DropKeeps DEF Keeps
<1> HIDE DEF k2
<1>4. Keeps(k2, n) BY <1>3, MutexRelease DEF Keeps
<1> HIDE DEF n
<1>5. Keeps(j, n) BY <1>2, <1>3, <1>4, KeepsAgain
<1> QED BY <1>5 DEF n, k2, k1, Unlocked

Reinit(j, m) ==
    LET k1 == init_wait_queue(j, m)
        t  == k1.loctsk[m]
    IN  IF t = NULL THEN k1 ELSE mutex_drop_priority(Unchained(k1, t, m), t, m)

LEMMA ReinitKeeps ==
    ASSUME NEW j, Settled(j), Fine(j, {}), NEW m \in Mutex
    PROVE  Keeps(j, Reinit(j, m))
<1> DEFINE k1 == init_wait_queue(j, m)
           t  == k1.loctsk[m]
           k2 == Unchained(k1, t, m)
           n  == mutex_drop_priority(k2, t, m)
<1>1. m \in Wobj BY WobjAssumption
<1>2. k1 \in Released(j, m) BY <1>1, InitQueue
<1>3. k1 \in KernelState /\ Keeps(j, k1) BY <1>2, SameRestSys DEF Released, Keeps, SameRest
<1>4. t \in Task \cup {NULL} BY <1>3 DEF KernelState
<1> HIDE DEF k1
<1>5. CASE t = NULL BY <1>3, <1>5 DEF Reinit, k1
<1>6. CASE t # NULL
  <2>1. t \in Task BY <1>4, <1>6
  <2>2. k2 \in KernelState /\ SameButChains(k1, k2) BY <2>1, <1>3, RemoveFields DEF Removed
  <2>3. Keeps(k1, k2) BY <2>2, <1>3, KeepsChains DEF Keeps
  <2> HIDE DEF k2
  <2>4. Keeps(k2, n) BY <2>1, <2>3, DropKeeps DEF Keeps
  <2>5. Keeps(j, n) BY <2>3, <2>4, <1>3, KeepsAgain
  <2> QED BY <2>5, <1>6 DEF Reinit, k1, k2
<1> QED BY <1>5, <1>6

LEMMA UnlockCall ==
    ASSUME NEW m, unl_mtx(m)
    PROVE  CHECK_TSKCTX_UNL /\ m = k.lastmtx[k.runtsk] /\ k' = dispatch(Unlocked(k, k.runtsk, m))
BY DEF unl_mtx, Unlocked, Popped

LEMMA ReinitCall ==
    ASSUME NEW m, ini_mtx(m)
    PROVE  CHECK_TSKCTX_UNL /\ k' = dispatch(Reinit(k, m))
BY DEF ini_mtx, Reinit, Unchained

LEMMA LockCall ==
    ASSUME NEW m, loc_mtx(m) \/ tloc_mtx(m), ~lock_free(m)
    PROVE  /\ MayWait /\ within_ceiling(m) /\ contended(m)
           /\ \/ k' = dispatch(wobj_make_wait(waiting_for("MTX"), m))
              \/ k' = dispatch(wobj_make_wait_tmout(waiting_for("MTX"), m))
BY DEF loc_mtx, tloc_mtx, MayWait

(* Every call of mutex.c keeps the invariant of the tasks.                 *)
LEMMA MutexSteps ==
    ASSUME Inv(k), NEW m \in Mutex, MutexCall(m)
    PROVE  Inv(k)' /\ (k'.runtsk # k.runtsk => k'.nest = 0 /\ k'.dspflg)
<1>1. Settled(k) /\ Fine(k, {}) BY Known
<1>2. CHECK_TSKCTX_UNL BY DEF MutexCall, loc_mtx, ploc_mtx, tloc_mtx, unl_mtx, ini_mtx, CHECK_DISPATCH
<1>3. CASE lock_free(m) BY <1>2, <1>3, LockFree
<1>4. CASE (loc_mtx(m) \/ tloc_mtx(m)) /\ ~lock_free(m)
  <2>1. MayWait BY <1>4, LockCall
  <2>2. \/ k' = dispatch(wobj_make_wait(waiting_for("MTX"), m))
        \/ k' = dispatch(wobj_make_wait_tmout(waiting_for("MTX"), m))
    BY <1>4, LockCall
  <2>3. m \in Wobj /\ wfactor[m] = "MTX" BY WobjAssumption
  <2> QED BY <2>1, <2>2, <2>3, InvWaitCalls
<1>5. CASE unl_mtx(m)
  <2>1. k.runtsk \in Task BY <1>2, InvCaller
  <2>2. Keeps(k, Unlocked(k, k.runtsk, m)) BY <2>1, <1>1, UnlockKeeps
  <2> QED BY <2>2, <1>5, UnlockCall, LeaveKept
<1>6. CASE ini_mtx(m)
  <2>1. Keeps(k, Reinit(k, m)) BY <1>1, ReinitKeeps
  <2> QED BY <2>1, <1>6, ReinitCall, LeaveKept
<1> QED BY <1>3, <1>4, <1>5, <1>6 DEF MutexCall, ploc_mtx

LEMMA KernelNext ==
    Inv(k) /\ [MutexNext]_k => Inv(k)' /\ (k'.runtsk # k.runtsk => k'.nest = 0 /\ k'.dspflg)
<1>1. CASE TaskNext \/ k' = k BY <1>1, InvNext DEF Follows
<1>2. ASSUME NEW m \in Mutex, MutexCall(m), Inv(k)
      PROVE  Inv(k)' /\ (k'.runtsk # k.runtsk => k'.nest = 0 /\ k'.dspflg)
  BY <1>2, MutexSteps
<1> QED BY <1>1, <1>2 DEF MutexNext

(* With the mutexes and their ceilings every queue stays consistent, the   *)
(* task that should run runs, no timeout is lost and no assert fails: the  *)
(* priority of the caller rises without a dispatch (mutex_acquire), falls  *)
(* or rises with one (mutex_drop_priority, mutex_release), and a task that *)
(* is terminated hands over what it holds (mutex_release_all).             *)
THEOREM MutexTasks == MutexSpec => []TasksOK
<1>1. TaskInit => Inv(k) BY InvInit
<1>2. Inv(k) /\ [MutexNext]_k => Inv(k)' BY KernelNext
<1>3. Inv(k) => TasksOK BY InvTasks
<1> QED BY <1>1, <1>2, <1>3, PTL DEF MutexSpec

(* No assert fails: mutex_acquire raises the running task without a        *)
(* dispatch, and hand-over and termination call for one where they must.   *)
THEOREM MutexAsserts == MutexSpec => []AssertsHold
<1>1. TasksOK => AssertsHold BY DEF TasksOK
<1> QED BY <1>1, MutexTasks, PTL

(* The running task changes only outside interrupt handlers and with       *)
(* dispatching enabled, and to the scheduled task: neither the task to     *)
(* which it hands a mutex (unl_mtx), nor its own falling priority          *)
(* (mutex_drop_priority), nor a ceiling that raises it (mutex_acquire)     *)
(* switches otherwise.                                                     *)
THEOREM MutexNoPreemption == MutexSpec => NoPreemption
<1>1. TaskInit => Inv(k) BY InvInit
<1>2. Inv(k) /\ [MutexNext]_k => Inv(k)' BY KernelNext
<1>3. Inv(k) /\ [MutexNext]_k =>
          [k'.runtsk # k.runtsk => k'.nest = 0 /\ k'.dspflg /\ k'.runtsk = k'.schedtsk]_k
  <2>1. Inv(k)' /\ k'.nest = 0 => k'.runtsk = k'.schedtsk BY DEF Inv
  <2> QED BY <2>1, KernelNext
<1> QED BY <1>1, <1>2, <1>3, PTL DEF MutexSpec, NoPreemption
-----------------------------------------------------------------------------
(* What most routines leave alone: the chains, the priorities and the      *)
(* wait queues; and they make no task dormant.                             *)
Shaped(j) ==
    /\ "lastmtx" \in DOMAIN j /\ "prevmtx" \in DOMAIN j /\ "loctsk" \in DOMAIN j
    /\ "bpriority" \in DOMAIN j /\ "priority" \in DOMAIN j /\ "wque" \in DOMAIN j
    /\ "tstat" \in DOMAIN j /\ DOMAIN j.tstat = Task

SameOwners(j, n) ==
    /\ n.lastmtx = j.lastmtx /\ n.prevmtx = j.prevmtx /\ n.loctsk = j.loctsk
    /\ n.bpriority = j.bpriority /\ n.priority = j.priority
    /\ \A t \in Task : n.tstat[t] = {} => j.tstat[t] = {}

Quiet(j, n) == Shaped(n) /\ SameOwners(j, n) /\ n.wque = j.wque

LEMMA QuietSelf ==
    ASSUME NEW j, Shaped(j)
    PROVE  Quiet(j, j)
BY DEF Quiet, SameOwners

LEMMA QuietAgain ==
    ASSUME NEW j, NEW i, NEW n, Quiet(j, i), Quiet(i, n)
    PROVE  Quiet(j, n)
BY DEF Quiet, SameOwners

LEMMA ShapedState ==
    ASSUME NEW j, j \in KernelState
    PROVE  Shaped(j)
BY DEF KernelState, Shaped

\* a field that is not among these may change
LEMMA QuietFields ==
    ASSUME NEW j, Shaped(j), NEW t, NEW v
    PROVE  /\ Quiet(j, [j EXCEPT !.winfo[t] = v]) /\ Quiet(j, [j EXCEPT !.wobj[t] = v])
           /\ Quiet(j, [j EXCEPT !.tmevtb[t] = v]) /\ Quiet(j, [j EXCEPT !.schedtsk = v])
           /\ Quiet(j, [j EXCEPT !.broken = v]) /\ Quiet(j, [j EXCEPT !.actque[t] = v])
<1>1. Quiet(j, [j EXCEPT !.winfo[t] = v]) BY DEF Quiet, SameOwners, Shaped
<1>2. Quiet(j, [j EXCEPT !.wobj[t] = v]) BY DEF Quiet, SameOwners, Shaped
<1>3. Quiet(j, [j EXCEPT !.tmevtb[t] = v]) BY DEF Quiet, SameOwners, Shaped
<1>4. Quiet(j, [j EXCEPT !.schedtsk = v]) BY DEF Quiet, SameOwners, Shaped
<1>5. Quiet(j, [j EXCEPT !.broken = v]) BY DEF Quiet, SameOwners, Shaped
<1>6. Quiet(j, [j EXCEPT !.actque[t] = v]) BY DEF Quiet, SameOwners, Shaped
<1> QED BY <1>1, <1>2, <1>3, <1>4, <1>5, <1>6

\* a task is given a state that is not dormant
LEMMA QuietTstat ==
    ASSUME NEW j, Shaped(j), NEW t, NEW s, s # {}
    PROVE  Quiet(j, [j EXCEPT !.tstat[t] = s])
BY DEF Quiet, SameOwners, Shaped

LEMMA QuietCheck ==
    ASSUME NEW j, Shaped(j), NEW ok, NEW who
    PROVE  Quiet(j, Check(j, ok, who))
BY QuietSelf DEF Check, Quiet, SameOwners, Shaped

LEMMA QuietRunnable ==
    ASSUME NEW j, Shaped(j), NEW t
    PROVE  /\ Quiet(j, make_runnable(j, t))
           /\ Quiet(j, make_non_runnable(j, t))
<1>1. Quiet(j, make_runnable(j, t)) BY DEF Quiet, SameOwners, Shaped, make_runnable
<1> DEFINE pri == j.priority[t]
           k1 == ready_unlink(j, t, pri)
           next == IF ~queue_empty(k1.readyq[pri]) THEN Head(k1.readyq[pri])
                   ELSE IF primap_empty(k1) THEN NULL ELSE search_schedtsk(k1)
           c == [k1 EXCEPT !.schedtsk = next]
           d == Check(c, j.dspflg, "make_non_runnable")
<1>2. Quiet(j, k1) BY DEF Quiet, SameOwners, Shaped, ready_unlink
<1>3. make_non_runnable(j, t) = IF j.schedtsk = t THEN d ELSE k1
  BY DEF make_non_runnable
<1> HIDE DEF k1, next
<1>4. Shaped(k1) BY <1>2 DEF Quiet
<1>5. Quiet(k1, c) BY <1>4, QuietFields
<1> HIDE DEF c
<1>6. Quiet(c, d)
  <2>1. Shaped(c) BY <1>5 DEF Quiet
  <2> QED BY <2>1, QuietCheck
<1> HIDE DEF d
<1> QED BY <1>1, <1>2, <1>3, <1>5, <1>6, QuietAgain

LEMMA QuietActive ==
    ASSUME NEW j, Shaped(j), NEW t
    PROVE  Quiet(j, activate_context(j, t)) /\ Quiet(j, make_active(j, t))
<1> DEFINE a == activate_context(j, t)
           i == [a EXCEPT !.tstat[t] = {TS_RUNNABLE}]
<1>1. Quiet(j, a) BY DEF Quiet, SameOwners, Shaped, activate_context
<1>2. make_active(j, t) = make_runnable(i, t) BY DEF make_active
<1> HIDE DEF a
<1>3. Shaped(a) BY <1>1 DEF Quiet
<1>4. Quiet(a, i) BY <1>3, QuietTstat
<1> HIDE DEF i
<1>5. Shaped(i) BY <1>4 DEF Quiet
<1>6. Quiet(i, make_runnable(i, t)) BY <1>5, QuietRunnable
<1>7. Quiet(j, make_runnable(i, t)) BY <1>1, <1>4, <1>6, QuietAgain
<1> QED BY <1>1, <1>2, <1>7 DEF a

LEMMA QuietWait ==
    ASSUME NEW j, Shaped(j), NEW t, NEW ercd, NEW callback
    PROVE  /\ Quiet(j, wait_dequeue_tmevtb(j, t)) /\ Quiet(j, set_wercd(j, t, ercd))
           /\ Quiet(j, make_wait(j)) /\ Quiet(j, make_wait_tmout(j, callback))
           /\ Quiet(j, make_non_wait(j, t))
<1>1. Quiet(j, wait_dequeue_tmevtb(j, t))
  <2> DEFINE d == [j EXCEPT !.tmevtb[t] = NULL]
             c == Check(d, j.winfo[t] = PTMEVTB /\ j.tmevtb[t] # NULL, "tmevtb_dequeue")
  <2>1. wait_dequeue_tmevtb(j, t) = IF j.winfo[t] # NULL THEN c ELSE j
    BY DEF wait_dequeue_tmevtb, tmevtb_dequeue
  <2>2. Quiet(j, d) /\ Quiet(j, j) BY QuietFields, QuietSelf
  <2>3. Shaped(d) BY <2>2 DEF Quiet
  <2> HIDE DEF d
  <2>4. Quiet(d, c) BY <2>3, QuietCheck
  <2> HIDE DEF c
  <2> QED BY <2>1, <2>2, <2>4, QuietAgain
<1>2. Quiet(j, set_wercd(j, t, ercd)) BY QuietFields DEF set_wercd
<1> DEFINE r == j.runtsk
           i == make_non_runnable(j, r)
           w == [i EXCEPT !.winfo[r] = NULL]
           p == [i EXCEPT !.winfo[r] = PTMEVTB]
           e == [p EXCEPT !.tmevtb[r] = callback]
           c == Check(e, p.tmevtb[r] = NULL, "tmevtb_enqueue")
<1>3. Quiet(j, i) BY QuietRunnable
<1>4. make_wait(j) = w BY DEF make_wait
<1>5. make_wait_tmout(j, callback) = c BY DEF make_wait_tmout, tmevtb_enqueue
<1> HIDE DEF i, r
<1>6. Shaped(i) BY <1>3 DEF Quiet
<1>7. Quiet(i, w) /\ Quiet(i, p) BY <1>6, QuietFields
<1> HIDE DEF w, p
<1>8. Quiet(j, w) /\ Quiet(j, p) /\ Shaped(p) BY <1>3, <1>7, QuietAgain DEF Quiet
<1>9. Quiet(p, e) BY <1>8, QuietFields
<1> HIDE DEF e
<1>10. Quiet(e, c)
  <2>1. Shaped(e) BY <1>9 DEF Quiet
  <2> QED BY <2>1, QuietCheck
<1> HIDE DEF c
<1>11. Quiet(j, c) BY <1>8, <1>9, <1>10, QuietAgain
<1>12. Quiet(j, make_non_wait(j, t))
  <2> DEFINE x == Check(j, TSTAT_WAITING(j.tstat[t]), "make_non_wait")
             u == [x EXCEPT !.tstat[t] = {TS_RUNNABLE}]
             s == [x EXCEPT !.tstat[t] = {TS_SUSPENDED}]
             v == make_runnable(u, t)
  <2>1. make_non_wait(j, t) = IF ~TSTAT_SUSPENDED(j.tstat[t]) THEN v ELSE s
    BY DEF make_non_wait
  <2>2. Quiet(j, x) BY QuietCheck
  <2> HIDE DEF x
  <2>3. Shaped(x) BY <2>2 DEF Quiet
  <2>4. Quiet(x, u) /\ Quiet(x, s)
    <3>1. {TS_RUNNABLE} # {} /\ {TS_SUSPENDED} # {} OBVIOUS
    <3> QED BY <2>3, <3>1, QuietTstat
  <2> HIDE DEF u, s
  <2>5. Shaped(u) BY <2>4 DEF Quiet
  <2>6. Quiet(u, v) BY <2>5, QuietRunnable
  <2> HIDE DEF v
  <2>7. Quiet(j, v) /\ Quiet(j, s) BY <2>2, <2>4, <2>6, QuietAgain
  <2> QED BY <2>1, <2>7
<1> QED BY <1>1, <1>2, <1>4, <1>5, <1>8, <1>11, <1>12

LEMMA QuietDispatch ==
    ASSUME NEW j, Shaped(j)
    PROVE  Quiet(j, dispatcher(j)) /\ Quiet(j, dispatch(j))
<1>1. Quiet(j, dispatcher(j))
  <2> DEFINE c == Check(j, j.dspflg /\ j.enadsp /\ j.ipm = "TIPM_ENAALL", "dispatcher")
  <2>1. Quiet(j, c) BY QuietCheck
  <2>2. dispatcher(j) = [c EXCEPT !.runtsk = j.schedtsk,
                   !.winfo = [x \in Task |-> IF x = j.schedtsk THEN NULL ELSE @[x]],
                   !.wobj  = [x \in Task |-> IF x = j.schedtsk THEN NULL ELSE @[x]]]
    BY DEF dispatcher
  <2> HIDE DEF c
  <2>3. Quiet(c, dispatcher(j)) BY <2>1, <2>2 DEF Quiet, SameOwners, Shaped
  <2> QED BY <2>1, <2>3, QuietAgain
<1>2. Quiet(j, j) BY QuietSelf
<1> QED BY <1>1, <1>2 DEF dispatch

(* A task leaves the wait queue that it is in, and the others keep their   *)
(* places.                                                                 *)
Neat(j) == j.wque \in [Wobj -> Seq(Task)] /\ \A w \in Wobj : NoTwice(j.wque[w])

Thinned(j, n) ==
    /\ Shaped(n) /\ SameOwners(j, n) /\ Neat(n)
    /\ \A w \in Wobj :
         /\ \A u : Linked(n.wque[w], u) => Linked(j.wque[w], u)
         /\ \A a, b : Before(n.wque[w], a, b) => Before(j.wque[w], a, b)

LEMMA QuietThins ==
    ASSUME NEW j, Neat(j), NEW n, Quiet(j, n)
    PROVE  Thinned(j, n)
BY DEF Quiet, Thinned, Neat

LEMMA ThinnedAgain ==
    ASSUME NEW j, NEW i, NEW n, Thinned(j, i)
    PROVE  Thinned(i, n) \/ Quiet(i, n) => Thinned(j, n)
<1>1. Neat(i) BY DEF Thinned
<1>2. Quiet(i, n) => Thinned(i, n) BY <1>1, QuietThins
<1>3. ASSUME Thinned(i, n) PROVE Thinned(j, n)
  <2>1. SameOwners(j, n) BY <1>3 DEF Thinned, SameOwners
  <2> QED BY <2>1, <1>3 DEF Thinned
<1> QED BY <1>2, <1>3

LEMMA NeatWaits ==
    ASSUME NEW j, j \in KernelState, NEW X, Waits(j, X)
    PROVE  Neat(j)
BY DEF Neat, Waits, KernelState

LEMMA ThinnedQueue ==
    ASSUME NEW j, j \in KernelState, NEW t \in Task, Waits(j, {})
    PROVE  Thinned(j, wait_dequeue_wobj(j, t))
<1> DEFINE w == j.wobj[t]
           n == wait_dequeue_wobj(j, t)
<1>1. Shaped(j) /\ Neat(j) BY ShapedState, NeatWaits
<1>2. CASE TSTAT_WAIT_WOBJ(j.tstat[t])
  <2> DEFINE q == j.wque[w]
             r == queue_delete(q, t)
  <2>1. n = [j EXCEPT !.wque[w] = r] BY <1>2 DEF wait_dequeue_wobj
  <2>2. w \in Wobj /\ NoTwice(q) /\ Linked(q, t)
    <3>1. w \in Wobj BY <1>2 DEF Waits
    <3> QED BY <3>1, <1>2 DEF Waits
  <2>3. q \in Seq(Task) BY <2>2, <1>1 DEF Neat
  <2>4. r \in Seq(Task) /\ NoTwice(r) /\ Moved(q, r, t)
        /\ \A u : Linked(r, u) <=> Linked(q, u) /\ u # t
    BY <2>2, <2>3, Delete
  <2> HIDE DEF r
  <2>5. \A a, b : Before(r, a, b) => Before(q, a, b)
    <3>1. ASSUME NEW a, NEW b, Before(r, a, b) PROVE Before(q, a, b)
      <4>1. Linked(r, a) /\ Linked(r, b)
        <5>1. r \in Seq(Task) BY <2>4
        <5> QED BY <5>1, <3>1 DEF Before, Linked
      <4>2. a # t /\ b # t BY <4>1, <2>4
      <4> QED BY <4>2, <3>1, <2>4 DEF Moved
    <3> QED BY <3>1
  <2>6. Shaped(n) /\ SameOwners(j, n) BY <2>1, <1>1 DEF Shaped, SameOwners
  <2>7. n.wque = [j.wque EXCEPT ![w] = r] BY <2>1, <1>1 DEF Shaped
  <2> HIDE DEF n
  <2>8. \A v \in Wobj : n.wque[v] = IF v = w THEN r ELSE j.wque[v] BY <2>7, <1>1 DEF Neat
  <2>9. Neat(n) BY <2>4, <2>7, <2>8, <1>1 DEF Neat
  <2>10. \A v \in Wobj :
           /\ \A u : Linked(n.wque[v], u) => Linked(j.wque[v], u)
           /\ \A a, b : Before(n.wque[v], a, b) => Before(j.wque[v], a, b)
    BY <2>4, <2>5, <2>8
  <2> QED BY <2>6, <2>9, <2>10 DEF Thinned, n
<1>3. CASE ~TSTAT_WAIT_WOBJ(j.tstat[t])
  <2>1. n = j BY <1>3 DEF wait_dequeue_wobj
  <2>2. Quiet(j, j) BY <1>1, QuietSelf
  <2> QED BY <2>1, <2>2, <1>1, QuietThins
<1> QED BY <1>2, <1>3

LEMMA ThinnedRelease ==
    ASSUME NEW j, j \in KernelState, NEW t \in Task, Waits(j, {}), NEW ercd
    PROVE  LET i == wait_dequeue_wobj(j, t)
               d == wait_dequeue_tmevtb(i, t)
           IN  /\ Thinned(j, d) /\ Thinned(j, set_wercd(d, t, ercd))
               /\ Thinned(j, make_non_wait(set_wercd(d, t, ercd), t))
               /\ Thinned(j, make_non_wait(set_wercd(i, t, ercd), t))
<1> DEFINE i == wait_dequeue_wobj(j, t)
           d == wait_dequeue_tmevtb(i, t)
<1>1. Thinned(j, i) /\ Shaped(i) BY ThinnedQueue DEF Thinned
<1> HIDE DEF i
<1>2. Thinned(j, d) /\ Shaped(d)
  <2>1. Quiet(i, d) BY <1>1, QuietWait
  <2> QED BY <2>1, <1>1, ThinnedAgain DEF Quiet
<1> HIDE DEF d
<1>3. ASSUME NEW m, Thinned(j, m)
      PROVE  /\ Thinned(j, set_wercd(m, t, ercd))
             /\ Thinned(j, make_non_wait(set_wercd(m, t, ercd), t))
  <2> DEFINE s == set_wercd(m, t, ercd)
  <2>1. Shaped(m) BY <1>3 DEF Thinned
  <2>2. Quiet(m, s) BY <2>1, QuietWait
  <2> HIDE DEF s
  <2>3. Thinned(j, s) /\ Shaped(s) BY <2>2, <1>3, ThinnedAgain DEF Quiet
  <2>4. Quiet(s, make_non_wait(s, t)) BY <2>3, QuietWait
  <2>5. Thinned(j, make_non_wait(s, t)) BY <2>3, <2>4, ThinnedAgain
  <2> QED BY <2>3, <2>5 DEF s
<1> QED BY <1>1, <1>2, <1>3 DEF i, d

LEMMA ThinnedDispatch ==
    ASSUME NEW j, NEW n, Thinned(j, n)
    PROVE  Thinned(j, dispatch(n)) /\ Thinned(j, dispatcher(n))
<1>1. Shaped(n) BY DEF Thinned
<1> QED BY <1>1, QuietDispatch, ThinnedAgain

(* Giving up the processor to another task, ...                            *)
Left(j, n) == \E i : Quiet(j, i) /\ (n = i \/ n = dispatch(i) \/ n = dispatcher(i))

LEMMA LeftQuiet ==
    ASSUME NEW j, NEW n, Left(j, n)
    PROVE  Quiet(j, n)
<1>1. PICK i : Quiet(j, i) /\ (n = i \/ n = dispatch(i) \/ n = dispatcher(i)) BY DEF Left
<1>2. Shaped(i) BY <1>1 DEF Quiet
<1>3. Quiet(i, dispatch(i)) /\ Quiet(i, dispatcher(i)) BY <1>2, QuietDispatch
<1> QED BY <1>1, <1>3, QuietAgain

(* ... and the steps of TaskCalls that end no task and change no priority. *)
Ending(t) ==
    \E i : /\ Settled(i) /\ Fine(i, {}) /\ (i.dspflg \/ t # i.runtsk)
           /\ Quiet(k, i)
           /\ \/ k' = dispatch(task_terminate(i, t))
              \/ k' = dispatcher(task_terminate(i, t))

LEMMA ManageQuiet ==
    ASSUME Inv(k), NEW t \in Task, act_tsk(t) \/ can_act(t)
    PROVE  Thinned(k, k')
<1>1. Shaped(k) /\ Neat(k)
  <2>1. k \in KernelState /\ Waits(k, {}) BY Known DEF Fine
  <2> QED BY <2>1, ShapedState, NeatWaits
<1> DEFINE i == make_active(k, t)
           a == [k EXCEPT !.actque[t] = TRUE]
           b == [k EXCEPT !.actque[t] = FALSE]
<1>2. k' = dispatch(i) \/ k' = a \/ k' = b BY DEF act_tsk, can_act
<1>3. Quiet(k, i) BY <1>1, QuietActive
<1>4. Quiet(k, a) /\ Quiet(k, b) BY <1>1, QuietFields
<1> HIDE DEF i, a, b
<1>5. Left(k, k') BY <1>2, <1>3, <1>4 DEF Left
<1> QED BY <1>1, <1>5, LeftQuiet, QuietThins

LEMMA SyncQuiet ==
    ASSUME Inv(k),
           \/ slp_tsk \/ tslp_tsk \/ dly_tsk
           \/ \E t \in Task : \/ wup_tsk(t) \/ can_wup(t) \/ rel_wai(t) \/ sus_tsk(t) \/ rsm_tsk(t)
                              \/ signal_time(t)
    PROVE  Thinned(k, k')
<1>1. /\ k \in KernelState /\ Waits(k, {}) /\ Fine(k, {}) /\ Shaped(k) /\ Neat(k)
  <2>1. k \in KernelState /\ Waits(k, {}) /\ Fine(k, {}) BY Known DEF Fine
  <2> QED BY <2>1, ShapedState, NeatWaits
<1>2. \A t : Quiet(k, [k EXCEPT !.wupque[t] = TRUE]) /\ Quiet(k, [k EXCEPT !.wupque[t] = FALSE])
  BY <1>1 DEF Quiet, SameOwners, Shaped
<1>3. ASSUME slp_tsk \/ tslp_tsk \/ dly_tsk PROVE Thinned(k, k')
  <2> DEFINE r == k.runtsk
             s == [k EXCEPT !.tstat[r] = {TS_WAITING_SLP}]
             d == [k EXCEPT !.tstat[r] = {TS_WAITING_DLY}]
             a == make_wait(s)
             b == make_wait_tmout(s, "wait_tmout")
             c == make_wait_tmout(d, "wait_tmout_ok")
  <2>1. \/ k' = [k EXCEPT !.wupque[r] = FALSE]
        \/ k' = dispatch(a) \/ k' = dispatch(b) \/ k' = dispatch(c)
    BY <1>3 DEF slp_tsk, tslp_tsk, dly_tsk, waiting_for, take_wupque
  <2>2. Quiet(k, s) /\ Quiet(k, d)
    <3>1. {TS_WAITING_SLP} # {} /\ {TS_WAITING_DLY} # {} OBVIOUS
    <3> QED BY <1>1, <3>1, QuietTstat
  <2> HIDE DEF s, d
  <2>3. Quiet(s, a) /\ Quiet(s, b) /\ Quiet(d, c)
    <3>1. Shaped(s) /\ Shaped(d) BY <2>2 DEF Quiet
    <3> QED BY <3>1, QuietWait
  <2> HIDE DEF a, b, c
  <2>4. Quiet(k, a) /\ Quiet(k, b) /\ Quiet(k, c) BY <2>2, <2>3, QuietAgain
  <2>5. Left(k, k') BY <2>1, <2>4, <1>2 DEF Left
  <2> QED BY <2>5, <1>1, LeftQuiet, QuietThins
<1>4. ASSUME NEW t \in Task, wup_tsk(t) \/ can_wup(t) PROVE Thinned(k, k')
  <2> DEFINE d == wait_dequeue_tmevtb(k, t)
             s == set_wercd(d, t, E_OK)
             n == make_non_wait(s, t)
  <2>1. \/ k' = [k EXCEPT !.wupque[t] = TRUE] \/ k' = [k EXCEPT !.wupque[t] = FALSE]
        \/ k' = dispatch(n)
    BY <1>4 DEF wup_tsk, can_wup, wait_complete
  <2>2. Quiet(k, d) BY <1>1, QuietWait
  <2> HIDE DEF d
  <2>3. Quiet(d, s)
    <3>1. Shaped(d) BY <2>2 DEF Quiet
    <3> QED BY <3>1, QuietWait
  <2> HIDE DEF s
  <2>4. Quiet(s, n)
    <3>1. Shaped(s) BY <2>3 DEF Quiet
    <3> QED BY <3>1, QuietWait
  <2> HIDE DEF n
  <2>5. Quiet(k, n) BY <2>2, <2>3, <2>4, QuietAgain
  <2>6. Left(k, k') BY <2>1, <2>5, <1>2 DEF Left
  <2> QED BY <2>6, <1>1, LeftQuiet, QuietThins
<1>5. ASSUME NEW t \in Task, rel_wai(t) PROVE Thinned(k, k')
  <2> DEFINE n == make_non_wait(set_wercd(wait_dequeue_tmevtb(wait_dequeue_wobj(k, t), t), t,
                                          "E_RLWAI"), t)
  <2>1. k' = dispatch(n) BY <1>5 DEF rel_wai
  <2>2. Thinned(k, n) BY <1>1, ThinnedRelease
  <2> QED BY <2>1, <2>2, ThinnedDispatch
<1>6. ASSUME NEW t \in Task, sus_tsk(t) \/ rsm_tsk(t) PROVE Thinned(k, k')
  <2> DEFINE a == [k EXCEPT !.tstat[t] = {TS_SUSPENDED}]
             b == make_non_runnable(a, t)
             c == [k EXCEPT !.tstat[t] = k.tstat[t] \cup {TS_SUSPENDED}]
             d == [k EXCEPT !.tstat[t] = k.tstat[t] \ {TS_SUSPENDED}]
             e == [k EXCEPT !.tstat[t] = {TS_RUNNABLE}]
             f == make_runnable(e, t)
  <2>1. k' = dispatch(b) \/ k' = c \/ (k' = d /\ TSTAT_WAITING(k.tstat[t])) \/ k' = dispatch(f)
    <3>1. sus_tsk(t) => k' = dispatch(b) \/ k' = c BY DEF sus_tsk
    <3>2. rsm_tsk(t) => (k' = d /\ TSTAT_WAITING(k.tstat[t])) \/ k' = dispatch(f)
      BY DEF rsm_tsk
    <3> HIDE DEF b, c, d, f
    <3> QED BY <3>1, <3>2, <1>6
  <2>2. Quiet(k, a) /\ Quiet(k, c) /\ Quiet(k, e)
    <3>1. {TS_RUNNABLE} # {} /\ {TS_SUSPENDED} # {} /\ k.tstat[t] \cup {TS_SUSPENDED} # {}
      OBVIOUS
    <3> QED BY <3>1, <1>1, QuietTstat
  <2>3. TSTAT_WAITING(k.tstat[t]) => Quiet(k, d)
    <3>1. TSTAT_WAITING(k.tstat[t]) => k.tstat[t] \ {TS_SUSPENDED} # {}
      BY Factors DEF TSTAT_WAITING
    <3> QED BY <3>1, <1>1, QuietTstat
  <2> HIDE DEF a, c, d, e
  <2>4. Quiet(a, b) /\ Quiet(e, f)
    <3>1. Shaped(a) /\ Shaped(e) BY <2>2 DEF Quiet
    <3> QED BY <3>1, QuietRunnable
  <2> HIDE DEF b, f
  <2>5. Quiet(k, b) /\ Quiet(k, f) BY <2>2, <2>4, QuietAgain
  <2>6. Left(k, k') BY <2>1, <2>2, <2>3, <2>5 DEF Left
  <2> QED BY <2>6, <1>1, LeftQuiet, QuietThins
<1>7. ASSUME NEW t \in Task, signal_time(t) PROVE Thinned(k, k')
  <2> DEFINE i == [k EXCEPT !.tmevtb[t] = NULL]
             s == set_wercd(i, t, E_OK)
             n == make_non_wait(s, t)
  <2>1. Quiet(k, i) BY <1>1, QuietFields
  <2>2. i \in KernelState /\ i.tstat = k.tstat /\ i.wque = k.wque /\ i.wobj = k.wobj
    BY <1>1 DEF KernelState
  <2>3. k' = make_non_wait(set_wercd(wait_dequeue_wobj(i, t), t, "E_TMOUT"), t) \/ k' = n
    BY <1>7 DEF signal_time, wait_tmout, wait_tmout_ok
  <2> HIDE DEF i
  <2>4. Waits(i, {}) BY <2>2, <1>1, WaitsFrame
  <2>5. Thinned(i, make_non_wait(set_wercd(wait_dequeue_wobj(i, t), t, "E_TMOUT"), t))
    BY <2>2, <2>4, ThinnedRelease
  <2>6. Quiet(i, n)
    <3>1. Quiet(i, s)
      <4>1. Shaped(i) BY <2>1 DEF Quiet
      <4> QED BY <4>1, QuietWait
    <3> HIDE DEF s
    <3>2. Quiet(s, n)
      <4>1. Shaped(s) BY <3>1 DEF Quiet
      <4> QED BY <4>1, QuietWait
    <3> QED BY <3>1, <3>2, QuietAgain
  <2> HIDE DEF n
  <2>7. Thinned(k, i) BY <2>1, <1>1, QuietThins
  <2> QED BY <2>3, <2>5, <2>6, <2>7, ThinnedAgain
<1> QED BY <1>3, <1>4, <1>5, <1>6, <1>7

\* dispatching is enabled again
LEMMA Enabled ==
    ASSUME Inv(k), k.runtsk \in Task, NEW n, n \in KernelState, Quiet(k, n),
           n.readyq = k.readyq, n.primap = k.primap, n.tstat = k.tstat, SameWait(k, n),
           n.enadsp, n.ipm = "TIPM_ENAALL"
    PROVE  LET i == [n EXCEPT !.dspflg = TRUE, !.schedtsk = search_schedtsk(n)] IN
           Quiet(k, i) /\ Settled(i) /\ Fine(i, {}) /\ i.dspflg
<1> DEFINE i == [n EXCEPT !.dspflg = TRUE, !.schedtsk = search_schedtsk(n)]
<1>1. /\ Core(k, Runnable(k)) /\ Plain(k) /\ Fine(k, {}) /\ k.runtsk \in Runnable(k)
  BY Known, NullNotTask
<1>2. Runnable(n) = Runnable(k) BY DEF Runnable
<1>3. Core(n, Runnable(n))
  <2>1. \A p \in Pri, u \in Task \ Runnable(k) : ~Linked(n.readyq[p], u)
    BY <1>1, NotLinked
  <2>2. n.priority = k.priority BY DEF Quiet, SameOwners
  <2> QED BY <2>1, <2>2, <1>1, <1>2, CoreFrame
<1>4. Plain(n) /\ Fine(n, {}) BY <1>1, FineFrame DEF Plain
<1>5. Settled(i) /\ Fine(i, {}) /\ i.dspflg BY <1>1, <1>2, <1>3, <1>4, Enable
<1>6. Quiet(n, i) BY DEF Quiet, SameOwners, Shaped
<1> HIDE DEF i
<1>7. Quiet(k, i) BY <1>6, QuietAgain
<1> QED BY <1>5, <1>7 DEF i

LEMMA EnableEnds ==
    ASSUME Inv(k), k.runtsk \in Task, NEW n, n \in KernelState, Quiet(k, n),
           n.readyq = k.readyq, n.primap = k.primap, n.tstat = k.tstat, SameWait(k, n),
           n.enadsp, n.ipm = "TIPM_ENAALL", k' = enable_dispatch(n)
    PROVE  Left(k, k') \/ \E t \in Task : Ending(t)
<1> DEFINE i == [n EXCEPT !.dspflg = TRUE, !.schedtsk = search_schedtsk(n)]
<1>1. Quiet(k, i) /\ Settled(i) /\ Fine(i, {}) /\ i.dspflg BY Enabled
<1>2. k' = dispatcher(task_terminate(i, k.runtsk)) \/ k' = dispatch(i) BY DEF enable_dispatch
<1> HIDE DEF i
<1> QED BY <1>1, <1>2 DEF Left, Ending

LEMMA SystemQuiet ==
    ASSUME Inv(k),
           \/ loc_cpu \/ unl_cpu \/ dis_dsp \/ ena_dsp \/ irq_entry \/ irq_exit
           \/ (\E pri \in Pri : rot_rdq(pri)) \/ (\E ipm \in Ipm : chg_ipm(ipm))
    PROVE  Left(k, k') \/ \E t \in Task : Ending(t)
<1>1. k \in KernelState /\ Shaped(k) BY Known, ShapedState
<1>2. /\ Quiet(k, [k EXCEPT !.lock = TRUE]) /\ Quiet(k, [k EXCEPT !.lock = FALSE])
      /\ Quiet(k, [k EXCEPT !.enadsp = FALSE, !.dspflg = FALSE])
      /\ Quiet(k, [k EXCEPT !.nest = k.nest + 1])
      /\ Quiet(k, [k EXCEPT !.nest = k.nest - 1, !.lock = FALSE])
  <2>1. Quiet(k, [k EXCEPT !.lock = TRUE]) BY <1>1 DEF Quiet, SameOwners, Shaped
  <2>2. Quiet(k, [k EXCEPT !.lock = FALSE]) BY <1>1 DEF Quiet, SameOwners, Shaped
  <2>3. Quiet(k, [k EXCEPT !.enadsp = FALSE, !.dspflg = FALSE])
    BY <1>1 DEF Quiet, SameOwners, Shaped
  <2>4. Quiet(k, [k EXCEPT !.nest = k.nest + 1]) BY <1>1 DEF Quiet, SameOwners, Shaped
  <2>5. Quiet(k, [k EXCEPT !.nest = k.nest - 1, !.lock = FALSE])
    BY <1>1 DEF Quiet, SameOwners, Shaped
  <2> QED BY <2>1, <2>2, <2>3, <2>4, <2>5
<1>3. CASE loc_cpu \/ unl_cpu \/ dis_dsp \/ irq_entry
  BY <1>2, <1>3 DEF Left, loc_cpu, unl_cpu, dis_dsp, irq_entry
<1>4. CASE irq_exit
  <2> DEFINE i == [k EXCEPT !.nest = k.nest - 1, !.lock = FALSE]
  <2>1. k' = dispatcher(i) \/ k' = i BY <1>4 DEF irq_exit
  <2>2. Quiet(k, i) BY <1>2
  <2> HIDE DEF i
  <2> QED BY <2>1, <2>2 DEF Left
<1>5. CASE ena_dsp
  <2> DEFINE n == [k EXCEPT !.enadsp = TRUE]
  <2>1. k.runtsk \in Task BY <1>5, InvCaller DEF ena_dsp
  <2>2. n \in KernelState BY <1>1 DEF KernelState
  <2>3. n.readyq = k.readyq /\ n.primap = k.primap /\ n.tstat = k.tstat /\ SameWait(k, n)
        /\ n.enadsp = TRUE /\ n.ipm = k.ipm
    BY <1>1 DEF KernelState, SameWait
  <2>4. Quiet(k, n) BY <1>1 DEF Quiet, SameOwners, Shaped
  <2>5. k' = IF k.ipm = "TIPM_ENAALL" THEN enable_dispatch(n) ELSE n BY <1>5 DEF ena_dsp
  <2> HIDE DEF n
  <2>6. CASE k.ipm = "TIPM_ENAALL" BY <2>1, <2>2, <2>3, <2>4, <2>5, <2>6, EnableEnds
  <2>7. CASE k.ipm # "TIPM_ENAALL" BY <2>4, <2>5, <2>7 DEF Left
  <2> QED BY <2>6, <2>7
<1>6. ASSUME NEW ipm \in Ipm, chg_ipm(ipm) PROVE Left(k, k') \/ \E t \in Task : Ending(t)
  <2> DEFINE n == [k EXCEPT !.ipm = ipm]
             d == [n EXCEPT !.dspflg = FALSE]
  <2>1. k.runtsk \in Task BY <1>6, InvCaller DEF chg_ipm
  <2>2. n \in KernelState BY <1>1 DEF KernelState
  <2>3. n.readyq = k.readyq /\ n.primap = k.primap /\ n.tstat = k.tstat /\ SameWait(k, n)
        /\ n.enadsp = k.enadsp /\ n.ipm = ipm
    BY <1>1 DEF KernelState, SameWait
  <2>4. Quiet(k, n) BY <1>1 DEF Quiet, SameOwners, Shaped
  <2>5. k' = IF ipm = "TIPM_ENAALL" /\ k.enadsp THEN enable_dispatch(n) ELSE d
    BY <1>6 DEF chg_ipm
  <2> HIDE DEF n
  <2>6. Quiet(n, d) BY <2>4 DEF Quiet, SameOwners, Shaped
  <2> HIDE DEF d
  <2>7. CASE ipm = "TIPM_ENAALL" /\ k.enadsp
    BY <2>1, <2>2, <2>3, <2>4, <2>5, <2>7, EnableEnds
  <2>8. CASE ~(ipm = "TIPM_ENAALL" /\ k.enadsp)
    <3>1. Quiet(k, d) BY <2>4, <2>6, QuietAgain
    <3> QED BY <3>1, <2>5, <2>8 DEF Left
  <2> QED BY <2>7, <2>8
<1>7. ASSUME NEW pri \in Pri, rot_rdq(pri) PROVE Left(k, k')
  <2> DEFINE n == rotate_ready_queue(k, pri)
  <2>1. k' = dispatch(n) BY <1>7 DEF rot_rdq
  <2>2. Quiet(k, n) BY <1>1, QuietSelf DEF rotate_ready_queue, Quiet, SameOwners, Shaped
  <2> HIDE DEF n
  <2> QED BY <2>1, <2>2 DEF Left
<1> QED BY <1>3, <1>4, <1>5, <1>6, <1>7

LEMMA TermQuiet ==
    ASSUME Inv(k),
           \/ ext_tsk \/ dis_ter \/ ena_ter
           \/ \E t \in Task : ras_ter(t) \/ ter_tsk(t)
    PROVE  Thinned(k, k') \/ \E t \in Task : Ending(t)
<1>1. /\ k \in KernelState /\ Waits(k, {}) /\ Settled(k) /\ Fine(k, {}) /\ Shaped(k) /\ Neat(k)
      /\ k.nest = 0 => k.runtsk = k.schedtsk
  <2>1. k \in KernelState /\ Waits(k, {}) /\ Settled(k) /\ Fine(k, {}) BY Known DEF Fine
  <2> QED BY <2>1, Known, ShapedState, NeatWaits
<1>2. Quiet(k, k) BY <1>1, QuietSelf
<1>3. CASE ext_tsk
  <2> DEFINE k1 == [k EXCEPT !.enadsp = TRUE, !.ipm = "TIPM_ENAALL", !.lock = FALSE]
             k2 == IF ~k.enadsp \/ k.ipm # "TIPM_ENAALL"
                   THEN [k1 EXCEPT !.dspflg = TRUE, !.schedtsk = search_schedtsk(k1)]
                   ELSE k1
  <2>1. k.runtsk \in Task BY <1>3, Known DEF ext_tsk, CHECK_TSKCTX
  <2>2. k' = dispatcher(task_terminate(k2, k.runtsk)) BY <1>3 DEF ext_tsk
  <2>3. k1 \in KernelState BY <1>1 DEF KernelState, Ipm
  <2>4. /\ k1.readyq = k.readyq /\ k1.primap = k.primap /\ k1.tstat = k.tstat
        /\ SameWait(k, k1) /\ k1.enadsp = TRUE /\ k1.ipm = "TIPM_ENAALL"
        /\ k1.schedtsk = k.schedtsk /\ k1.dspflg = k.dspflg /\ k1.runtsk = k.runtsk
        /\ k1.nest = k.nest
    BY <1>1 DEF KernelState, SameWait
  <2>5. Quiet(k, k1) BY <1>1 DEF Quiet, SameOwners, Shaped
  <2> HIDE DEF k1
  <2>6. Quiet(k, k2) /\ Settled(k2) /\ Fine(k2, {}) /\ k2.dspflg
    <3>1. CASE ~k.enadsp \/ k.ipm # "TIPM_ENAALL"
      <4>1. k2 = [k1 EXCEPT !.dspflg = TRUE, !.schedtsk = search_schedtsk(k1)] BY <3>1
      <4> HIDE DEF k2
      <4> QED BY <4>1, <2>1, <2>3, <2>4, <2>5, Enabled
    <3>2. CASE ~(~k.enadsp \/ k.ipm # "TIPM_ENAALL")
      <4>1. k2 = k1 BY <3>2
      <4>2. k.dspflg /\ k1.enadsp = k.enadsp /\ k1.ipm = k.ipm
        <5>1. k.enadsp \in BOOLEAN BY <1>1 DEF KernelState
        <5>2. k.dspflg BY <3>2, Known
        <5> QED BY <5>1, <5>2, <3>2, <2>4
      <4>3. SameSys(k, k1) BY <4>2, <2>4, <2>5 DEF SameSys, Quiet, SameOwners
      <4>4. k1.priority = k.priority BY <2>5 DEF Quiet, SameOwners
      <4>5. Settled(k1) BY <4>3, <4>4, <2>3, <2>4, <1>1, SettledFrame
      <4>6. Fine(k1, {}) BY <2>4, <1>1, FineFrame
      <4> QED BY <4>1, <4>2, <4>5, <4>6, <2>4, <2>5
    <3> QED BY <3>1, <3>2
  <2> HIDE DEF k2
  <2>7. Ending(k.runtsk) BY <2>2, <2>6 DEF Ending
  <2> QED BY <2>1, <2>7
<1>4. CASE dis_ter
  <2>1. k' = [k EXCEPT !.enater[k.runtsk] = FALSE] BY <1>4 DEF dis_ter
  <2>2. Quiet(k, k') BY <2>1, <1>1 DEF Quiet, SameOwners, Shaped
  <2> QED BY <2>2, <1>1, QuietThins
<1>5. CASE ena_ter
  <2>1. k.runtsk \in Task BY <1>5, InvCaller DEF ena_ter
  <2>2. CASE k.raster[k.runtsk] /\ k.dspflg
    <3>1. k' = dispatcher(task_terminate(k, k.runtsk)) BY <1>5, <2>2 DEF ena_ter
    <3>2. Ending(k.runtsk) BY <3>1, <2>2, <1>1, <1>2 DEF Ending
    <3> QED BY <3>2, <2>1
  <2>3. CASE ~(k.raster[k.runtsk] /\ k.dspflg)
    <3>1. k' = [k EXCEPT !.enater[k.runtsk] = TRUE] BY <1>5, <2>3 DEF ena_ter
    <3>2. Quiet(k, k') BY <3>1, <1>1 DEF Quiet, SameOwners, Shaped
    <3> QED BY <3>2, <1>1, QuietThins
  <2> QED BY <2>2, <2>3
<1>6. ASSUME NEW t \in Task, ter_tsk(t) \/ (ras_ter(t) /\ k.enater[t])
      PROVE  Ending(t)
  <2>1. t # k.runtsk /\ k' = dispatch(task_terminate(k, t)) BY <1>6 DEF ter_tsk, ras_ter
  <2> QED BY <2>1, <1>1, <1>2 DEF Ending
<1>7. ASSUME NEW t \in Task, ras_ter(t), ~k.enater[t] PROVE Thinned(k, k')
  <2> DEFINE k1 == [k EXCEPT !.raster[t] = TRUE]
             e == set_wercd(wait_dequeue_tmevtb(wait_dequeue_wobj(k1, t), t), t, "E_RASTER")
             k2 == IF TSTAT_WAITING(k.tstat[t]) THEN e ELSE k1
             k3 == [k2 EXCEPT !.tstat[t] = {TS_RUNNABLE}]
             n == make_runnable(k3, t)
  <2>1. k' = k1 \/ k' = dispatch(n) BY <1>7 DEF ras_ter
  <2>2. k1 \in KernelState /\ k1.wque = k.wque /\ k1.tstat = k.tstat /\ k1.wobj = k.wobj
    BY <1>1 DEF KernelState
  <2>3. Quiet(k, k1) BY <1>1 DEF Quiet, SameOwners, Shaped
  <2> HIDE DEF k1
  <2>4. Waits(k1, {}) BY <2>2, <1>1, WaitsFrame
  <2>5. Thinned(k1, e) BY <2>2, <2>4, ThinnedRelease
  <2> HIDE DEF e
  <2>6. Thinned(k, k1) BY <2>3, <1>1, QuietThins
  <2>7. Thinned(k, k2) /\ Shaped(k2) BY <2>5, <2>6, ThinnedAgain DEF Thinned
  <2> HIDE DEF k2
  <2>8. Quiet(k2, k3)
    <3>1. {TS_RUNNABLE} # {} OBVIOUS
    <3> QED BY <3>1, <2>7, QuietTstat
  <2> HIDE DEF k3
  <2>9. Quiet(k3, n)
    <3>1. Shaped(k3) BY <2>8 DEF Quiet
    <3> QED BY <3>1, QuietRunnable
  <2> HIDE DEF n
  <2>10. Thinned(k, n) BY <2>7, <2>8, <2>9, QuietAgain, ThinnedAgain
  <2> QED BY <2>1, <2>6, <2>10, ThinnedDispatch
<1> QED BY <1>3, <1>4, <1>5, <1>6, <1>7

\* all of them
LEMMA StepCases ==
    ASSUME Inv(k), TaskNext
    PROVE  \/ Thinned(k, k')
           \/ \E t \in Task : Ending(t)
           \/ \E t \in Task, pri \in Pri : chg_pri(t, pri)
<1>1. Neat(k)
  <2>1. k \in KernelState /\ Waits(k, {}) BY Known DEF Fine
  <2> QED BY <2>1, NeatWaits
<1>2. Left(k, k') => Thinned(k, k') BY <1>1, LeftQuiet, QuietThins
<1>3. CASE \/ ext_tsk \/ dis_ter \/ ena_ter
           \/ \E t \in Task : ras_ter(t) \/ ter_tsk(t)
  BY <1>3, TermQuiet
<1>4. CASE \/ slp_tsk \/ tslp_tsk \/ dly_tsk
           \/ \E t \in Task : \/ wup_tsk(t) \/ can_wup(t) \/ rel_wai(t) \/ sus_tsk(t) \/ rsm_tsk(t)
                              \/ signal_time(t)
  BY <1>4, SyncQuiet
<1>5. CASE \/ loc_cpu \/ unl_cpu \/ dis_dsp \/ ena_dsp \/ irq_entry \/ irq_exit
           \/ (\E pri \in Pri : rot_rdq(pri)) \/ (\E ipm \in Ipm : chg_ipm(ipm))
  BY <1>5, <1>2, SystemQuiet
<1>6. CASE \E t \in Task : act_tsk(t) \/ can_act(t) BY <1>6, ManageQuiet
<1> QED BY <1>3, <1>4, <1>5, <1>6 DEF TaskNext, OwnCall

-----------------------------------------------------------------------------
(* The chain of a task is a sequence c: p_lastmtx points to its first      *)
(* mutex, p_prevmtx from each to the next, and from the last to none.      *)
At(c, i) == IF i <= Len(c) THEN c[i] ELSE NULL

IsChain(head, prev, c) ==
    /\ c \in Seq(Mutex) /\ NoTwice(c)
    /\ head = At(c, 1)
    /\ \A i \in 1 .. Len(c) : prev[c[i]] = At(c, i + 1)

LEMMA NullNotMutex == NULL \notin Mutex
BY TaskAssumption

LEMMA ChainLength ==
    ASSUME NEW head, NEW prev, NEW c, IsChain(head, prev, c)
    PROVE  Len(c) \in Nat /\ Len(c) <= Cardinality(Mutex) /\ Cardinality(Mutex) \in Nat
<1> DEFINE D == 1 .. Len(c)
<1>1. c \in Seq(Mutex) /\ NoTwice(c) BY DEF IsChain
<1>2. Len(c) \in Nat BY <1>1
<1>3. c \in [D -> Mutex] BY <1>1
<1>4. c \in Injection(D, Mutex)
  <2>1. \A a, b \in D : c[a] = c[b] => a = b BY <1>1 DEF NoTwice
  <2> HIDE DEF D
  <2> QED BY <1>3, <2>1 DEF Injection, IsInjective
<1>5. IsFiniteSet(Mutex) BY WobjAssumption
<1>6. Cardinality(D) = Len(c)
  <2>1. 1 \in Int /\ Len(c) \in Int BY <1>2
  <2>2. Cardinality(D) = IF 1 > Len(c) THEN 0 ELSE Len(c) - 1 + 1 BY <2>1, FS_Interval
  <2> QED BY <2>2, <1>2
<1>7. Cardinality(D) <= Cardinality(Mutex)
  <2> HIDE DEF D
  <2> QED BY <1>4, <1>5, FS_Injection
<1>8. Cardinality(Mutex) \in Nat BY <1>5, FS_CardinalityType
<1> QED BY <1>2, <1>6, <1>7, <1>8

\* the walk visits the mutexes of the chain and no other
LEMMA WalkVisits ==
    ASSUME NEW head, NEW prev, NEW c, IsChain(head, prev, c)
    PROVE  Walk(head, prev) = {m \in Mutex : Linked(c, m)}
<1> DEFINE top == Cardinality(Mutex)
           seen(n) == {c[i] : i \in {x \in 1 .. Len(c) : x <= n + 1}}
           V == [n \in 0 .. top |-> seen(n)]
           body(g) == [n \in 0 .. Cardinality(Mutex) |->
                         IF n = 0 THEN {head} \ {NULL}
                         ELSE g[n - 1] \cup ({prev[m] : m \in g[n - 1]} \ {NULL})]
           walk[n \in 0 .. Cardinality(Mutex)] ==
             IF n = 0 THEN {head} \ {NULL}
             ELSE walk[n - 1] \cup ({prev[m] : m \in walk[n - 1]} \ {NULL})
<1>1. walk = CHOOSE g : g = body(g) BY Zenon
<1>2. Walk(head, prev) = walk[Cardinality(Mutex)] BY Zenon DEF Walk
<1> HIDE DEF walk
<1>3. /\ c \in Seq(Mutex) /\ head = At(c, 1) /\ Len(c) \in Nat
      /\ \A i \in 1 .. Len(c) : prev[c[i]] = At(c, i + 1) /\ c[i] \in Mutex
  BY DEF IsChain
<1>4. Len(c) <= top /\ top \in Nat BY ChainLength
<1>5. seen(0) = {head} \ {NULL}
  <2>1. CASE Len(c) = 0
    <3>1. seen(0) = {} BY <2>1
    <3>2. head = NULL BY <2>1, <1>3 DEF At
    <3> QED BY <3>1, <3>2
  <2>2. CASE Len(c) # 0
    <3>1. 1 \in 1 .. Len(c) /\ {x \in 1 .. Len(c) : x <= 0 + 1} = {1} BY <2>2, <1>3
    <3>2. seen(0) = {c[1]} BY <3>1
    <3>3. head = c[1] /\ c[1] \in Mutex BY <3>1, <1>3 DEF At
    <3> QED BY <3>2, <3>3, NullNotMutex
  <2> QED BY <2>1, <2>2
<1>6. ASSUME NEW n \in 0 .. top - 1
      PROVE  seen(n + 1) = seen(n) \cup ({prev[m] : m \in seen(n)} \ {NULL})
  <2>1. ASSUME NEW m \in seen(n + 1)
        PROVE  m \in seen(n) \cup ({prev[x] : x \in seen(n)} \ {NULL})
    <3>1. PICK i \in 1 .. Len(c) : i <= n + 2 /\ m = c[i] BY <1>3, <1>4
    <3>2. CASE i <= n + 1 BY <3>1, <3>2
    <3>3. CASE ~(i <= n + 1)
      <4>1. i = n + 2 /\ i - 1 \in 1 .. Len(c) /\ i - 1 <= n + 1 BY <3>1, <3>3, <1>3, <1>4
      <4>2. c[i - 1] \in seen(n) BY <4>1
      <4>3. prev[c[i - 1]] = At(c, (i - 1) + 1) BY <4>1, <1>3
      <4>4. (i - 1) + 1 = i /\ i <= Len(c) BY <1>3
      <4>5. prev[c[i - 1]] = m BY <4>3, <4>4, <3>1 DEF At
      <4>6. m # NULL BY <3>1, <1>3, NullNotMutex
      <4> HIDE DEF seen
      <4> QED BY <4>2, <4>5, <4>6
    <3> QED BY <3>2, <3>3
  <2>2. ASSUME NEW m \in seen(n) PROVE m \in seen(n + 1) BY <1>3, <1>4
  <2>3. ASSUME NEW x \in seen(n), prev[x] # NULL PROVE prev[x] \in seen(n + 1)
    <3>1. PICK i \in 1 .. Len(c) : i <= n + 1 /\ x = c[i] BY <1>3, <1>4
    <3>2. prev[x] = At(c, i + 1) BY <3>1, <1>3
    <3>3. i + 1 <= Len(c) /\ prev[x] = c[i + 1] BY <3>2, <2>3 DEF At
    <3>4. i + 1 \in 1 .. Len(c) /\ i + 1 <= (n + 1) + 1 BY <3>1, <3>3, <1>3, <1>4
    <3> QED BY <3>3, <3>4
  <2> HIDE DEF seen
  <2> QED BY <2>1, <2>2, <2>3
<1> HIDE DEF seen
<1>7. V = body(V)
  <2>1. ASSUME NEW n \in 0 .. top PROVE V[n] = body(V)[n]
    <3>1. CASE n = 0 BY <3>1, <1>5
    <3>2. CASE n # 0
      <4>1. n - 1 \in 0 .. top - 1 /\ (n - 1) + 1 = n /\ n - 1 \in 0 .. top BY <3>2, <1>4
      <4>2. seen(n) = seen(n - 1) \cup ({prev[m] : m \in seen(n - 1)} \ {NULL})
        BY <4>1, <1>6
      <4>3. V[n] = seen(n) /\ V[n - 1] = seen(n - 1) BY <4>1
      <4>4. body(V)[n] = V[n - 1] \cup ({prev[m] : m \in V[n - 1]} \ {NULL}) BY <3>2
      <4> HIDE DEF V, body
      <4> QED BY <4>2, <4>3, <4>4
    <3> QED BY <3>1, <3>2
  <2>2. V = [n \in 0 .. top |-> V[n]] /\ body(V) = [n \in 0 .. top |-> body(V)[n]] OBVIOUS
  <2> HIDE DEF V, body
  <2> QED BY <2>1, <2>2
<1> HIDE DEF V
<1>8. walk = body(walk) BY <1>1, <1>7
<1>9. \A n \in 0 .. top : walk[n] = seen(n)
  <2> DEFINE P == {n \in 0 .. top : walk[n] = seen(n)}
  <2>1. walk[0] = {head} \ {NULL}
    <3>1. 0 \in 0 .. Cardinality(Mutex) BY <1>4
    <3>2. body(walk)[0] = {head} \ {NULL} BY <3>1
    <3> HIDE DEF body
    <3> QED BY <3>2, <1>8
  <2>2. ASSUME NEW n \in 0 .. top - 1, walk[n] = seen(n) PROVE walk[n + 1] = seen(n + 1)
    <3>1. n + 1 \in 0 .. Cardinality(Mutex) /\ n + 1 # 0 /\ (n + 1) - 1 = n BY <1>4
    <3>2. body(walk)[n + 1] = walk[n] \cup ({prev[m] : m \in walk[n]} \ {NULL}) BY <3>1
    <3> HIDE DEF body
    <3> QED BY <3>2, <2>2, <1>6, <1>8
  <2>3. 0 \in P
    <3>1. 0 \in 0 .. top /\ walk[0] = seen(0) BY <2>1, <1>4, <1>5
    <3> HIDE DEF top
    <3> QED BY <3>1
  <2>4. \A n \in 0 .. top - 1 : n \in P => n + 1 \in P BY <2>2, <1>4
  <2> HIDE DEF P
  <2>5. \A n \in 0 .. top : n \in P BY <2>3, <2>4, <1>4, Induct
  <2> QED BY <2>5 DEF P
<1>10. seen(top) = {m \in Mutex : Linked(c, m)}
  <2>1. \A x \in 1 .. Len(c) : x <= top + 1 BY <1>3, <1>4
  <2>2. {x \in 1 .. Len(c) : x <= top + 1} = 1 .. Len(c) BY <2>1
  <2>3. seen(top) = {c[i] : i \in 1 .. Len(c)} BY <2>2 DEF seen
  <2> QED BY <2>3, <1>3 DEF Linked
<1>11. top \in 0 .. top BY <1>4
<1> QED BY <1>2, <1>9, <1>10, <1>11

\* only the links of its own mutexes matter to a chain
LEMMA ChainFrame ==
    ASSUME NEW head, NEW prev, NEW c, IsChain(head, prev, c), NEW prev2,
           \A m \in Mutex : Linked(c, m) => prev2[m] = prev[m]
    PROVE  IsChain(head, prev2, c)
<1>1. \A i \in 1 .. Len(c) : c[i] \in Mutex /\ Linked(c, c[i]) BY DEF IsChain, Linked
<1> QED BY <1>1 DEF IsChain

LEMMA ChainPush ==
    ASSUME NEW head, NEW prev \in [Mutex -> Mutex \cup {NULL}], NEW c, IsChain(head, prev, c),
           NEW m \in Mutex, ~Linked(c, m)
    PROVE  /\ IsChain(m, [prev EXCEPT ![m] = head], <<m>> \o c)
           /\ \A x : Linked(<<m>> \o c, x) <=> Linked(c, x) \/ x = m
<1> DEFINE d == <<m>> \o c
           prev2 == [prev EXCEPT ![m] = head]
<1>1. /\ c \in Seq(Mutex) /\ NoTwice(c) /\ head = At(c, 1) /\ Len(c) \in Nat
      /\ \A i \in 1 .. Len(c) : prev[c[i]] = At(c, i + 1) /\ c[i] \in Mutex /\ c[i] # m
  BY DEF IsChain, Linked
<1>2. d \in Seq(Mutex) /\ Len(d) = Len(c) + 1 /\ d[1] = m
  BY <1>1
<1>3. \A i \in 2 .. Len(c) + 1 : d[i] = c[i - 1] /\ i - 1 \in 1 .. Len(c)
  BY <1>1
<1>4. \A x \in Mutex : prev2[x] = IF x = m THEN head ELSE prev[x] OBVIOUS
<1> HIDE DEF d, prev2
<1>5. NoTwice(d)
  <2>1. ASSUME NEW a \in 1 .. Len(d), NEW b \in 1 .. Len(d), d[a] = d[b] PROVE a = b
    <3>1. CASE a = 1 /\ b = 1 BY <3>1
    <3>2. CASE a = 1 /\ b # 1
      <4>1. b \in 2 .. Len(c) + 1 BY <3>2, <1>1, <1>2
      <4> QED BY <4>1, <3>2, <2>1, <1>1, <1>2, <1>3
    <3>3. CASE a # 1 /\ b = 1
      <4>1. a \in 2 .. Len(c) + 1 BY <3>3, <1>1, <1>2
      <4> QED BY <4>1, <3>3, <2>1, <1>1, <1>2, <1>3
    <3>4. CASE a # 1 /\ b # 1
      <4>1. a \in 2 .. Len(c) + 1 /\ b \in 2 .. Len(c) + 1 BY <3>4, <1>1, <1>2
      <4>2. c[a - 1] = c[b - 1] /\ a - 1 \in 1 .. Len(c) /\ b - 1 \in 1 .. Len(c)
        BY <4>1, <2>1, <1>3
      <4>3. a - 1 = b - 1 BY <4>2, <1>1 DEF NoTwice
      <4> QED BY <4>3
    <3> QED BY <3>1, <3>2, <3>3, <3>4
  <2> QED BY <2>1 DEF NoTwice
<1>6. ASSUME NEW i \in 1 .. Len(d) PROVE prev2[d[i]] = At(d, i + 1)
  <2>1. CASE i = 1
    <3>1. prev2[d[i]] = At(c, 1) BY <2>1, <1>1, <1>2, <1>4
    <3>2. CASE Len(c) = 0 BY <3>1, <3>2, <2>1, <1>2 DEF At
    <3>3. CASE Len(c) # 0
      <4>1. 2 \in 2 .. Len(c) + 1 /\ 2 <= Len(d) BY <3>3, <1>1, <1>2
      <4>2. d[2] = c[1] BY <4>1, <1>3
      <4>3. 1 <= Len(c) BY <3>3, <1>1
      <4> QED BY <3>1, <4>1, <4>2, <4>3, <2>1 DEF At
    <3> QED BY <3>2, <3>3
  <2>2. CASE i # 1
    <3>1. i \in 2 .. Len(c) + 1 BY <2>2, <1>1, <1>2
    <3>2. d[i] = c[i - 1] /\ i - 1 \in 1 .. Len(c) BY <3>1, <1>3
    <3>3. prev2[d[i]] = At(c, (i - 1) + 1) BY <3>2, <1>1, <1>4
    <3>4. (i - 1) + 1 = i BY <3>1
    <3>5. CASE i = Len(c) + 1
      <4>1. ~(i <= Len(c)) /\ ~(i + 1 <= Len(d)) BY <3>5, <1>1, <1>2
      <4> QED BY <4>1, <3>3, <3>4 DEF At
    <3>6. CASE i # Len(c) + 1
      <4>1. i <= Len(c) /\ i + 1 <= Len(d) /\ i + 1 \in 2 .. Len(c) + 1 /\ (i + 1) - 1 = i
        BY <3>1, <3>6, <1>1, <1>2
      <4>2. d[i + 1] = c[i] BY <4>1, <1>3
      <4> QED BY <4>1, <4>2, <3>3, <3>4 DEF At
    <3> QED BY <3>5, <3>6
  <2> QED BY <2>1, <2>2
<1>7. m = At(d, 1) BY <1>1, <1>2 DEF At
<1>8. \A x : Linked(d, x) <=> Linked(c, x) \/ x = m
  <2>1. ASSUME NEW x, Linked(d, x) PROVE Linked(c, x) \/ x = m
    <3>1. PICK i \in 1 .. Len(d) : d[i] = x BY <2>1 DEF Linked
    <3>2. i = 1 \/ i \in 2 .. Len(c) + 1 BY <1>1, <1>2
    <3> QED BY <3>1, <3>2, <1>2, <1>3 DEF Linked
  <2>2. ASSUME NEW x, Linked(c, x) PROVE Linked(d, x)
    <3>1. PICK i \in 1 .. Len(c) : c[i] = x BY <2>2 DEF Linked
    <3>2. i + 1 \in 2 .. Len(c) + 1 /\ (i + 1) - 1 = i /\ i + 1 \in 1 .. Len(d) BY <1>1, <1>2
    <3>3. d[i + 1] = x BY <3>1, <3>2, <1>3
    <3> QED BY <3>2, <3>3 DEF Linked
  <2>3. Linked(d, m)
    <3>1. 1 \in 1 .. Len(d) BY <1>1, <1>2
    <3> QED BY <3>1, <1>2 DEF Linked
  <2> QED BY <2>1, <2>2, <2>3
<1> QED BY <1>2, <1>5, <1>6, <1>7, <1>8 DEF IsChain, d, prev2

LEMMA ChainPop ==
    ASSUME NEW head, NEW prev, NEW c, IsChain(head, prev, c), head # NULL
    PROVE  LET d == Tail(c) IN
           /\ IsChain(prev[head], prev, d) /\ Len(d) = Len(c) - 1 /\ head \in Mutex
           /\ Linked(c, head) /\ \A x : Linked(d, x) <=> Linked(c, x) /\ x # head
<1> DEFINE d == Tail(c)
<1>1. /\ c \in Seq(Mutex) /\ NoTwice(c) /\ head = At(c, 1) /\ Len(c) \in Nat
      /\ \A i \in 1 .. Len(c) : prev[c[i]] = At(c, i + 1) /\ c[i] \in Mutex
  BY DEF IsChain
<1>2. 1 \in 1 .. Len(c) /\ head = c[1] BY <1>1 DEF At
<1>3. c # << >> BY <1>2
<1>4. d \in Seq(Mutex) /\ Len(d) = Len(c) - 1 BY <1>1, <1>3
<1>5. \A i \in 1 .. Len(c) - 1 : d[i] = c[i + 1] /\ i + 1 \in 1 .. Len(c) BY <1>1, <1>3
<1> HIDE DEF d
<1>6. NoTwice(d)
  <2>1. ASSUME NEW a \in 1 .. Len(d), NEW b \in 1 .. Len(d), d[a] = d[b] PROVE a = b
    <3>1. c[a + 1] = c[b + 1] /\ a + 1 \in 1 .. Len(c) /\ b + 1 \in 1 .. Len(c)
      BY <2>1, <1>4, <1>5
    <3>2. a + 1 = b + 1 BY <3>1, <1>1 DEF NoTwice
    <3> QED BY <3>2
  <2> QED BY <2>1 DEF NoTwice
<1>7. \A i \in 1 .. Len(c) : At(d, i) = At(c, i + 1)
  <2> TAKE i \in 1 .. Len(c)
  <2>1. CASE i = Len(c)
    <3>1. ~(i <= Len(d)) /\ ~(i + 1 <= Len(c)) BY <2>1, <1>1, <1>4
    <3> QED BY <3>1 DEF At
  <2>2. CASE i # Len(c)
    <3>1. i <= Len(d) /\ i + 1 <= Len(c) /\ i \in 1 .. Len(c) - 1 BY <2>2, <1>1, <1>4
    <3> QED BY <3>1, <1>5 DEF At
  <2> QED BY <2>1, <2>2
<1>8. prev[head] = At(d, 1) BY <1>1, <1>2, <1>7
<1>9. ASSUME NEW i \in 1 .. Len(d) PROVE prev[d[i]] = At(d, i + 1)
  <2>1. i \in 1 .. Len(c) - 1 /\ i + 1 \in 1 .. Len(c) BY <1>1, <1>4
  <2>2. d[i] = c[i + 1] BY <2>1, <1>5
  <2>3. prev[d[i]] = At(c, (i + 1) + 1) BY <2>1, <2>2, <1>1
  <2> QED BY <2>1, <2>3, <1>7
<1>10. \A x : Linked(d, x) <=> Linked(c, x) /\ x # head
  <2>1. ASSUME NEW x, Linked(d, x) PROVE Linked(c, x) /\ x # head
    <3>1. PICK i \in 1 .. Len(d) : d[i] = x BY <2>1 DEF Linked
    <3>2. i + 1 \in 1 .. Len(c) /\ c[i + 1] = x /\ i + 1 # 1 BY <3>1, <1>4, <1>5
    <3>3. x # head BY <3>2, <1>1, <1>2 DEF NoTwice
    <3> QED BY <3>2, <3>3 DEF Linked
  <2>2. ASSUME NEW x, Linked(c, x), x # head PROVE Linked(d, x)
    <3>1. PICK i \in 1 .. Len(c) : c[i] = x BY <2>2 DEF Linked
    <3>2. i # 1 BY <3>1, <2>2, <1>2
    <3>3. i - 1 \in 1 .. Len(c) - 1 /\ (i - 1) + 1 = i /\ i - 1 \in 1 .. Len(d)
      BY <3>2, <1>1, <1>4
    <3>4. d[i - 1] = x BY <3>1, <3>3, <1>5
    <3> QED BY <3>3, <3>4 DEF Linked
  <2> QED BY <2>1, <2>2
<1>11. Linked(c, head) /\ head \in Mutex BY <1>1, <1>2 DEF Linked
<1> QED BY <1>4, <1>6, <1>8, <1>9, <1>10, <1>11 DEF IsChain, d

LEMMA ChainRemove ==
    ASSUME NEW head, NEW prev \in [Mutex -> Mutex \cup {NULL}], NEW c, IsChain(head, prev, c),
           NEW m, Linked(c, m), NEW prev2,
           \A x \in Mutex : prev2[x] = IF Linked(c, x) /\ prev[x] = m THEN prev[m] ELSE prev[x]
    PROVE  \E d : /\ IsChain(IF head = m THEN prev[m] ELSE head, prev2, d)
                  /\ \A x : Linked(d, x) <=> Linked(c, x) /\ x # m
<1> DEFINE d == queue_delete(c, m)
           head2 == IF head = m THEN prev[m] ELSE head
<1>1. /\ c \in Seq(Mutex) /\ NoTwice(c) /\ head = At(c, 1) /\ Len(c) \in Nat
      /\ \A i \in 1 .. Len(c) : prev[c[i]] = At(c, i + 1) /\ c[i] \in Mutex /\ Linked(c, c[i])
  BY DEF IsChain, Linked
<1>2. d \in Seq(Mutex) /\ \E n \in 1 .. Len(c) : c[n] = m /\ Gap(c, d, n)
  BY <1>1, DeleteAt
<1> HIDE DEF d
<1>3. PICK n \in 1 .. Len(c) : c[n] = m /\ Gap(c, d, n) BY <1>2
<1>4. Len(d) = Len(c) - 1 BY <1>3 DEF Gap
<1>5. \A i \in 1 .. Len(d) : i < n => d[i] = c[i] /\ i \in 1 .. Len(c)
  BY <1>1, <1>3, <1>4 DEF Gap
<1>6. \A i \in 1 .. Len(d) : ~(i < n) => d[i] = c[i + 1] /\ i + 1 \in 1 .. Len(c)
  BY <1>1, <1>3, <1>4 DEF Gap
<1>7. \A a, b \in 1 .. Len(c) : c[a] = c[b] => a = b BY <1>1 DEF NoTwice
\* what follows place i of c follows it in d, or the place before
<1>8. ASSUME NEW i \in 1 .. Len(c) + 1
      PROVE  /\ i < n => At(d, i) = At(c, i)
             /\ i >= n => At(d, i) = At(c, i + 1)
  <2>1. CASE i < n
    <3>1. i \in 1 .. Len(d) /\ i <= Len(d) /\ i <= Len(c) BY <2>1, <1>1, <1>3, <1>4
    <3> QED BY <3>1, <2>1, <1>3, <1>5 DEF At
  <2>2. CASE i >= n /\ i <= Len(d)
    <3>1. i \in 1 .. Len(d) /\ ~(i < n) /\ i + 1 <= Len(c) BY <2>2, <1>1, <1>3, <1>4
    <3> QED BY <3>1, <2>2, <1>6 DEF At
  <2>3. CASE i >= n /\ ~(i <= Len(d))
    <3>1. ~(i + 1 <= Len(c)) /\ ~(i < n) BY <2>3, <1>1, <1>3, <1>4
    <3> QED BY <3>1, <2>3 DEF At
  <2> QED BY <2>1, <2>2, <2>3, <1>1, <1>3, <1>4
\* the new links
<1>9. ASSUME NEW i \in 1 .. Len(c)
      PROVE  prev2[c[i]] = IF i + 1 = n THEN At(c, n + 1) ELSE At(c, i + 1)
  <2>1. prev[c[i]] = At(c, i + 1) /\ c[i] \in Mutex /\ Linked(c, c[i]) BY <1>1
  <2>2. prev[m] = At(c, n + 1) BY <1>1, <1>3
  <2>3. At(c, i + 1) = m <=> i + 1 = n
    <3>1. CASE i + 1 <= Len(c)
      <4>1. i + 1 \in 1 .. Len(c) /\ At(c, i + 1) = c[i + 1] BY <3>1, <1>1 DEF At
      <4> QED BY <4>1, <1>3, <1>7
    <3>2. CASE ~(i + 1 <= Len(c))
      <4>1. At(c, i + 1) = NULL /\ m # NULL /\ i + 1 # n
        BY <3>2, <1>1, <1>3, NullNotMutex DEF At
      <4> QED BY <4>1
    <3> QED BY <3>1, <3>2
  <2> QED BY <2>1, <2>2, <2>3
<1>10. head2 = At(d, 1)
  <2>1. At(c, 1) = c[1] /\ 1 \in 1 .. Len(c) /\ 1 \in 1 .. Len(c) + 1 BY <1>1, <1>3 DEF At
  <2>2. CASE n = 1
    <3>1. head = m BY <2>1, <2>2, <1>1, <1>3
    <3>2. prev[m] = At(c, 1 + 1) BY <2>2, <1>1, <1>3
    <3>3. At(d, 1) = At(c, 1 + 1) BY <2>1, <2>2, <1>8
    <3> QED BY <3>1, <3>2, <3>3
  <2>3. CASE n # 1
    <3>1. 1 < n BY <2>3, <1>1, <1>3
    <3>2. head # m BY <2>1, <2>3, <1>1, <1>3, <1>7
    <3> QED BY <3>1, <3>2, <2>1, <1>1, <1>8
  <2> QED BY <2>2, <2>3
<1>11. ASSUME NEW i \in 1 .. Len(d) PROVE prev2[d[i]] = At(d, i + 1)
  <2>1. i + 1 \in 1 .. Len(c) + 1 /\ i \in 1 .. Len(c) /\ i + 1 \in 1 .. Len(c)
    BY <1>1, <1>4
  <2>2. CASE i + 1 < n
    <3>1. prev2[d[i]] = At(c, i + 1) BY <2>1, <2>2, <1>5, <1>9, <1>3
    <3> QED BY <3>1, <2>1, <2>2, <1>8
  <2>3. CASE i + 1 = n
    <3>1. i < n BY <2>3
    <3>2. d[i] = c[i] BY <3>1, <1>5
    <3>3. prev2[d[i]] = At(c, (i + 1) + 1) BY <3>2, <2>1, <2>3, <1>9
    <3>4. i + 1 >= n BY <2>3
    <3> QED BY <3>3, <3>4, <2>1, <1>8
  <2>4. CASE ~(i < n)
    <3>1. d[i] = c[i + 1] BY <2>4, <1>6
    <3>2. (i + 1) + 1 # n /\ i + 1 >= n BY <2>1, <2>4, <1>3
    <3>3. prev2[d[i]] = At(c, (i + 1) + 1) BY <3>1, <3>2, <2>1, <1>9
    <3> QED BY <3>2, <3>3, <2>1, <1>8
  <2> QED BY <2>1, <2>2, <2>3, <2>4, <1>3
<1>12. NoTwice(d)
  <2>1. ASSUME NEW a \in 1 .. Len(d), NEW b \in 1 .. Len(d), d[a] = d[b] PROVE a = b
    <3>1. CASE a < n /\ b < n BY <3>1, <2>1, <1>5, <1>7
    <3>2. CASE a < n /\ ~(b < n)
      <4>1. c[a] = c[b + 1] /\ a \in 1 .. Len(c) /\ b + 1 \in 1 .. Len(c)
        BY <3>2, <2>1, <1>5, <1>6
      <4>2. a = b + 1 BY <4>1, <1>7
      <4> QED BY <4>2, <3>2, <1>3
    <3>3. CASE ~(a < n) /\ b < n
      <4>1. c[b] = c[a + 1] /\ b \in 1 .. Len(c) /\ a + 1 \in 1 .. Len(c)
        BY <3>3, <2>1, <1>5, <1>6
      <4>2. b = a + 1 BY <4>1, <1>7
      <4> QED BY <4>2, <3>3, <1>3
    <3>4. CASE ~(a < n) /\ ~(b < n)
      <4>1. c[b + 1] = c[a + 1] /\ b + 1 \in 1 .. Len(c) /\ a + 1 \in 1 .. Len(c)
        BY <3>4, <2>1, <1>6
      <4>2. b + 1 = a + 1 BY <4>1, <1>7
      <4> QED BY <4>2
    <3> QED BY <3>1, <3>2, <3>3, <3>4
  <2> QED BY <2>1 DEF NoTwice
<1>13. \A x : Linked(d, x) <=> Linked(c, x) /\ x # m
  <2>1. ASSUME NEW x, Linked(d, x) PROVE Linked(c, x) /\ x # m
    <3>1. PICK i \in 1 .. Len(d) : d[i] = x BY <2>1 DEF Linked
    <3>2. CASE i < n
      <4>1. c[i] = x /\ i \in 1 .. Len(c) /\ i # n BY <3>1, <3>2, <1>5, <1>3
      <4>2. x # m BY <4>1, <1>3, <1>7
      <4> QED BY <4>1, <4>2 DEF Linked
    <3>3. CASE ~(i < n)
      <4>1. c[i + 1] = x /\ i + 1 \in 1 .. Len(c) /\ i + 1 # n BY <3>1, <3>3, <1>6, <1>3
      <4>2. x # m BY <4>1, <1>3, <1>7
      <4> QED BY <4>1, <4>2 DEF Linked
    <3> QED BY <3>2, <3>3
  <2>2. ASSUME NEW x, Linked(c, x), x # m PROVE Linked(d, x)
    <3>1. PICK i \in 1 .. Len(c) : c[i] = x BY <2>2 DEF Linked
    <3>2. i # n BY <3>1, <2>2, <1>3
    <3>3. CASE i < n
      <4>1. i \in 1 .. Len(d) BY <3>3, <1>1, <1>3, <1>4
      <4> QED BY <4>1, <3>1, <3>3, <1>5 DEF Linked
    <3>4. CASE ~(i < n)
      <4>1. i - 1 \in 1 .. Len(d) /\ ~(i - 1 < n) /\ (i - 1) + 1 = i
        BY <3>2, <3>4, <1>1, <1>3, <1>4
      <4>2. d[i - 1] = c[i] BY <4>1, <1>6
      <4> QED BY <4>1, <4>2, <3>1 DEF Linked
    <3> QED BY <3>3, <3>4
  <2> QED BY <2>1, <2>2
<1>14. IsChain(head2, prev2, d) BY <1>2, <1>10, <1>11, <1>12 DEF IsChain
<1> QED BY <1>13, <1>14

-----------------------------------------------------------------------------
(* The invariant of the mutexes. F: mutexes that have been taken out of    *)
(* their owner's chain and not yet been passed on; X: tasks whose current  *)
(* priority has not been settled yet. Between two steps both are empty.    *)
Typed(j) ==
    /\ Shaped(j) /\ Neat(j)
    /\ j.lastmtx \in [Task -> Mutex \cup {NULL}]
    /\ j.prevmtx \in [Mutex -> Mutex \cup {NULL}]
    /\ j.loctsk \in [Mutex -> Task \cup {NULL}]
    /\ j.bpriority \in [Task -> Pri] /\ j.priority \in [Task -> Pri]

\* t's chain is c, and links the mutexes whose p_loctsk is t
Owns(j, t, c, F) ==
    /\ IsChain(j.lastmtx[t], j.prevmtx, c)
    /\ \A m \in Mutex : Linked(c, m) <=> m \notin F /\ j.loctsk[m] = t

Chains(j, F) == \A t \in Task : \E c : Owns(j, t, c, F)

\* nobody waits for a free mutex or for his own
Waiters(j) ==
    \A m \in Mutex, t \in Task : Linked(j.wque[m], t) => j.loctsk[m] \notin {NULL, t}

Dead(j) == \A t \in Task : j.tstat[t] = {} => j.lastmtx[t] = NULL

Bounds(j, t, F) ==
    {j.bpriority[t]} \cup
        {ceilpri[m] : m \in {x \in TA_CEILING : x \notin F /\ j.loctsk[x] = t}}

Best(j, t, F) ==
    j.priority[t] \in Bounds(j, t, F) /\ \A p \in Bounds(j, t, F) : j.priority[t] <= p

Within(j, t) ==
    \A m \in TA_CEILING :
        j.loctsk[m] = t \/ Linked(j.wque[m], t) => ceilpri[m] <= j.bpriority[t]

Owned(j, F, X) ==
    /\ Typed(j) /\ Chains(j, F) /\ Waiters(j) /\ Dead(j)
    /\ \A t \in Task : Within(j, t) /\ (t \notin X => Best(j, t, F))

\* the tasks of Y may have been given other priorities, and entries of the
\* wait queues may have left or changed their places
LEMMA OwnedFrame ==
    ASSUME NEW j, NEW F, NEW X, Owned(j, F, X), NEW n, Shaped(n), Neat(n),
           n.lastmtx = j.lastmtx, n.prevmtx = j.prevmtx, n.loctsk = j.loctsk,
           n.bpriority = j.bpriority, n.priority \in [Task -> Pri],
           NEW Y, \A t \in Task : t \notin Y => n.priority[t] = j.priority[t],
           \A t \in Task : n.tstat[t] = {} => j.tstat[t] = {},
           \A m \in Mutex, t \in Task : Linked(n.wque[m], t) => Linked(j.wque[m], t)
    PROVE  Owned(n, F, X \cup Y) /\ \A t, c : Owns(j, t, c, F) => Owns(n, t, c, F)
<1>1. /\ Typed(j) /\ Chains(j, F) /\ Waiters(j) /\ Dead(j)
      /\ \A t \in Task : Within(j, t) /\ (t \notin X => Best(j, t, F))
  BY DEF Owned
<1>2. Typed(n) BY <1>1 DEF Typed
<1>3. \A t, c : Owns(j, t, c, F) => Owns(n, t, c, F) BY DEF Owns
<1>4. Chains(n, F) BY <1>1, <1>3 DEF Chains
<1>5. Waiters(n) /\ Dead(n) BY <1>1 DEF Waiters, Dead
<1>6. TA_CEILING \subseteq Mutex BY WobjAssumption
<1>7. ASSUME NEW t \in Task PROVE Within(n, t) /\ (t \notin X \cup Y => Best(n, t, F))
  <2>1. Within(n, t) BY <1>1, <1>6 DEF Within
  <2>2. Bounds(n, t, F) = Bounds(j, t, F) BY DEF Bounds
  <2>3. t \notin X \cup Y => Best(n, t, F) BY <2>2, <1>1 DEF Best
  <2> QED BY <2>1, <2>3
<1> QED BY <1>2, <1>3, <1>4, <1>5, <1>7 DEF Owned

LEMMA OwnedThinned ==
    ASSUME NEW j, NEW F, NEW X, Owned(j, F, X), NEW n, Thinned(j, n)
    PROVE  Owned(n, F, X) /\ \A t, c : Owns(j, t, c, F) => Owns(n, t, c, F)
<1>1. j.priority \in [Task -> Pri] BY DEF Owned, Typed
<1>2. /\ Shaped(n) /\ Neat(n)
      /\ n.lastmtx = j.lastmtx /\ n.prevmtx = j.prevmtx /\ n.loctsk = j.loctsk
      /\ n.bpriority = j.bpriority /\ n.priority = j.priority
      /\ \A t \in Task : n.tstat[t] = {} => j.tstat[t] = {}
      /\ \A w \in Wobj, t \in Task : Linked(n.wque[w], t) => Linked(j.wque[w], t)
  BY DEF Thinned, SameOwners
<1>3. Mutex \subseteq Wobj BY WobjAssumption
<1>4. X \cup {} = X OBVIOUS
<1>5. \A t \in Task : t \notin {} => n.priority[t] = j.priority[t] BY <1>2
<1>6. Owned(n, F, X \cup {}) /\ \A t, c : Owns(j, t, c, F) => Owns(n, t, c, F)
  BY <1>1, <1>2, <1>3, <1>5, OwnedFrame
<1> QED BY <1>4, <1>6

LEMMA OwnedQuiet ==
    ASSUME NEW j, NEW F, NEW X, Owned(j, F, X), NEW n, Quiet(j, n)
    PROVE  Owned(n, F, X) /\ \A t, c : Owns(j, t, c, F) => Owns(n, t, c, F)
<1>1. Thinned(j, n) BY QuietThins DEF Owned, Typed
<1> QED BY <1>1, OwnedThinned

\* ChainOf and CeilingsOf compute the mutexes held
LEMMA ChainHeld ==
    ASSUME NEW j, NEW F, Chains(j, F), NEW t \in Task
    PROVE  /\ ChainOf(j, t) = {m \in Mutex : m \notin F /\ j.loctsk[m] = t}
           /\ {j.bpriority[t]} \cup CeilingsOf(j, t) = Bounds(j, t, F)
           /\ CeilingsOf(j, t) =
                {ceilpri[m] : m \in {x \in TA_CEILING : x \notin F /\ j.loctsk[x] = t}}
<1>1. PICK c : Owns(j, t, c, F) BY DEF Chains
<1>2. ChainOf(j, t) = {m \in Mutex : Linked(c, m)} BY <1>1, ChainOfIs, WalkVisits DEF Owns
<1>3. ChainOf(j, t) = {m \in Mutex : m \notin F /\ j.loctsk[m] = t} BY <1>1, <1>2 DEF Owns
<1>4. TA_CEILING \subseteq Mutex BY WobjAssumption
<1>5. {x \in ChainOf(j, t) : MTX_CEILING(x)}
        = {x \in TA_CEILING : x \notin F /\ j.loctsk[x] = t}
  BY <1>3, <1>4 DEF MTX_CEILING
<1>6. CeilingsOf(j, t) =
        {ceilpri[m] : m \in {x \in TA_CEILING : x \notin F /\ j.loctsk[x] = t}}
  BY <1>5 DEF CeilingsOf
<1> QED BY <1>3, <1>6 DEF Bounds

\* a task without a chain holds nothing, a head is held
LEMMA HeadHeld ==
    ASSUME NEW j, NEW F, NEW t, NEW c, Owns(j, t, c, F)
    PROVE  /\ j.lastmtx[t] = NULL <=> c = << >>
           /\ j.lastmtx[t] # NULL => /\ j.lastmtx[t] \in Mutex /\ j.lastmtx[t] \notin F
                                     /\ j.loctsk[j.lastmtx[t]] = t
           /\ j.lastmtx[t] = NULL => \A m \in Mutex : m \in F \/ j.loctsk[m] # t
<1>1. /\ c \in Seq(Mutex) /\ j.lastmtx[t] = At(c, 1)
      /\ \A m \in Mutex : Linked(c, m) <=> m \notin F /\ j.loctsk[m] = t
  BY DEF Owns, IsChain
<1>2. CASE c = << >>
  <2>1. j.lastmtx[t] = NULL BY <1>1, <1>2 DEF At
  <2>2. \A m \in Mutex : ~Linked(c, m) BY <1>2 DEF Linked
  <2> QED BY <2>1, <2>2, <1>1, <1>2
<1>3. CASE c # << >>
  <2>1. 1 \in 1 .. Len(c) /\ c[1] \in Mutex BY <1>1, <1>3
  <2>2. j.lastmtx[t] = c[1] /\ Linked(c, c[1]) BY <2>1, <1>1 DEF At, Linked
  <2> QED BY <2>1, <2>2, <1>1, <1>3, NullNotMutex
<1> QED BY <1>2, <1>3

(* Taking the last mutex off a chain.                                      *)
TakenOff(j, n, t, m, X) ==
    /\ Owned(n, {m}, X \cup {t}) /\ m \in Mutex /\ j.loctsk[m] = t
    /\ \A c : Owns(j, t, c, {}) => Owns(n, t, Tail(c), {m}) /\ Len(Tail(c)) = Len(c) - 1
    /\ n.prevmtx = j.prevmtx /\ n.loctsk = j.loctsk /\ n.wque = j.wque
    /\ n.bpriority = j.bpriority /\ n.priority = j.priority /\ n.tstat = j.tstat

LEMMA PopOwned ==
    ASSUME NEW j, NEW X, Owned(j, {}, X), NEW t \in Task, NEW m, m = j.lastmtx[t], m # NULL
    PROVE  TakenOff(j, Popped(j, t, m), t, m, X)
<1> DEFINE n == Popped(j, t, m)
<1>1. /\ Typed(j) /\ Chains(j, {}) /\ Waiters(j) /\ Dead(j)
      /\ \A u \in Task : Within(j, u) /\ (u \notin X => Best(j, u, {}))
  BY DEF Owned
<1>2. PICK c0 : Owns(j, t, c0, {}) BY <1>1 DEF Chains
<1>3. m \in Mutex /\ j.loctsk[m] = t BY <1>2, HeadHeld
<1>4. /\ n.prevmtx = j.prevmtx /\ n.loctsk = j.loctsk /\ n.wque = j.wque
      /\ n.bpriority = j.bpriority /\ n.priority = j.priority /\ n.tstat = j.tstat
      /\ n.lastmtx = [j.lastmtx EXCEPT ![t] = j.prevmtx[m]] /\ Shaped(n)
  BY <1>1 DEF Typed, Shaped, Popped
<1> HIDE DEF n
<1>5. n.lastmtx[t] = j.prevmtx[m] /\ \A u \in Task \ {t} : n.lastmtx[u] = j.lastmtx[u]
      /\ n.lastmtx \in [Task -> Mutex \cup {NULL}]
  BY <1>1, <1>3, <1>4 DEF Typed
<1>6. ASSUME NEW c, Owns(j, t, c, {})
      PROVE  Owns(n, t, Tail(c), {m}) /\ Len(Tail(c)) = Len(c) - 1
  <2>1. IsChain(m, j.prevmtx, c) /\ \A x \in Mutex : Linked(c, x) <=> j.loctsk[x] = t
    BY <1>6 DEF Owns
  <2>2. /\ IsChain(j.prevmtx[m], j.prevmtx, Tail(c)) /\ Len(Tail(c)) = Len(c) - 1
        /\ \A x : Linked(Tail(c), x) <=> Linked(c, x) /\ x # m
    BY <2>1, ChainPop
  <2> QED BY <2>1, <2>2, <1>4, <1>5 DEF Owns
<1>7. Chains(n, {m})
  <2>1. ASSUME NEW u \in Task PROVE \E c : Owns(n, u, c, {m})
    <3>1. CASE u = t BY <3>1, <1>2, <1>6
    <3>2. CASE u # t
      <4>1. PICK c : Owns(j, u, c, {}) BY <1>1 DEF Chains
      <4>2. \A x \in Mutex : Linked(c, x) <=> j.loctsk[x] = u BY <4>1 DEF Owns
      <4>3. Owns(n, u, c, {m}) BY <4>1, <4>2, <3>2, <1>3, <1>4, <1>5 DEF Owns
      <4> QED BY <4>3
    <3> QED BY <3>1, <3>2
  <2> QED BY <2>1 DEF Chains
<1>8. Typed(n) BY <1>1, <1>4, <1>5 DEF Typed, Neat
<1>9. Waiters(n) BY <1>1, <1>4 DEF Waiters
<1>10. Dead(n) BY <1>1, <1>4, <1>5 DEF Dead
<1>11. ASSUME NEW u \in Task PROVE Within(n, u) /\ (u \notin X \cup {t} => Best(n, u, {m}))
  <2>1. Within(n, u) BY <1>1, <1>4 DEF Within
  <2>2. u # t => Bounds(n, u, {m}) = Bounds(j, u, {}) BY <1>3, <1>4 DEF Bounds
  <2>3. u \notin X \cup {t} => Best(n, u, {m}) BY <2>2, <1>1, <1>4 DEF Best
  <2> QED BY <2>1, <2>3
<1>12. Owned(n, {m}, X \cup {t}) BY <1>7, <1>8, <1>9, <1>10, <1>11 DEF Owned
<1> QED BY <1>3, <1>4, <1>6, <1>12 DEF n, TakenOff

(* change_priority: no more than the priority and the place of t in the    *)
(* queues that it is in changes.                                           *)
Shifted(j, n, t) ==
    /\ Shaped(n) /\ Neat(n)
    /\ n.lastmtx = j.lastmtx /\ n.prevmtx = j.prevmtx /\ n.loctsk = j.loctsk
    /\ n.bpriority = j.bpriority /\ n.tstat = j.tstat
    /\ \A w \in Wobj :
         /\ \A u : Linked(n.wque[w], u) <=> Linked(j.wque[w], u)
         /\ ~Linked(j.wque[w], t) => n.wque[w] = j.wque[w]

LEMMA ChangeShifts ==
    ASSUME NEW j, j \in KernelState, Waits(j, {}), NEW t \in Task, NEW newpri \in Pri,
           NEW mtxmode
    PROVE  LET n == change_priority(j, t, newpri, mtxmode) IN
           Shifted(j, n, t) /\ n.priority = [j.priority EXCEPT ![t] = newpri]
<1> DEFINE n  == change_priority(j, t, newpri, mtxmode)
           k1 == [j EXCEPT !.priority[t] = newpri]
           u1 == ready_unlink(k1, t, j.priority[t])
           k2 == [u1 EXCEPT !.readyq[newpri] = IF mtxmode THEN queue_insert_next(@, t)
                                               ELSE queue_insert_prev(@, t),
                            !.primap = @ \cup {newpri}]
           beats == \/ newpri < k1.priority[j.schedtsk]
                    \/ mtxmode /\ newpri = k1.priority[j.schedtsk]
           s  == IF ~j.dspflg THEN k2.schedtsk
                 ELSE IF k2.schedtsk = t
                 THEN (IF newpri >= j.priority[t] THEN search_schedtsk(k2) ELSE k2.schedtsk)
                 ELSE IF beats THEN t ELSE k2.schedtsk
           w  == j.wobj[t]
           q  == queue_insert_tpri(queue_delete(k1.wque[w], t), t, k1.priority)
<1>1. Shaped(j) /\ Neat(j) BY ShapedState, NeatWaits
<1>2. n = IF TSTAT_RUNNABLE(j.tstat[t]) THEN [k2 EXCEPT !.schedtsk = s]
          ELSE IF TSTAT_WAIT_WOBJCB(j.tstat[t])
          THEN (IF w \in TA_TPRI THEN [k1 EXCEPT !.wque[w] = q] ELSE k1)
          ELSE k1
  BY DEF change_priority, wobj_change_priority
<1>3. /\ Shaped(k1) /\ k1.lastmtx = j.lastmtx /\ k1.prevmtx = j.prevmtx
      /\ k1.loctsk = j.loctsk /\ k1.bpriority = j.bpriority /\ k1.tstat = j.tstat
      /\ k1.wque = j.wque /\ k1.priority = [j.priority EXCEPT ![t] = newpri]
  BY <1>1 DEF Shaped
<1> HIDE DEF k1
<1>4. Shifted(j, k1, t) BY <1>1, <1>3 DEF Shifted, Neat
<1>5. Quiet(k1, u1) BY <1>3 DEF ready_unlink, Quiet, SameOwners, Shaped
<1> HIDE DEF u1
<1>6. Quiet(u1, k2) BY <1>5 DEF Quiet, SameOwners, Shaped
<1> HIDE DEF k2
<1>7. Quiet(k2, [k2 EXCEPT !.schedtsk = s])
  <2>1. Shaped(k2) BY <1>6 DEF Quiet
  <2> HIDE DEF s
  <2> QED BY <2>1 DEF Quiet, SameOwners, Shaped
<1> HIDE DEF s
<1>8. CASE TSTAT_RUNNABLE(j.tstat[t])
  <2>1. n = [k2 EXCEPT !.schedtsk = s] BY <1>2, <1>8
  <2>2. /\ n.lastmtx = j.lastmtx /\ n.prevmtx = j.prevmtx /\ n.loctsk = j.loctsk
        /\ n.bpriority = j.bpriority /\ n.wque = j.wque /\ n.priority = k1.priority /\ Shaped(n)
    BY <2>1, <1>3, <1>5, <1>6, <1>7 DEF Quiet, SameOwners
  <2>3. n.tstat = j.tstat
    <3>1. u1.tstat = j.tstat /\ Shaped(u1) BY <1>3, <1>5 DEF ready_unlink, Quiet, Shaped, u1
    <3>2. k2.tstat = j.tstat /\ Shaped(k2) BY <3>1, <1>6 DEF k2, Quiet, Shaped
    <3> QED BY <3>2, <2>1 DEF Shaped
  <2> QED BY <2>2, <2>3, <1>1, <1>3 DEF Shifted, Neat
<1>9. CASE ~TSTAT_RUNNABLE(j.tstat[t]) /\ TSTAT_WAIT_WOBJCB(j.tstat[t]) /\ w \in TA_TPRI
  <2>1. n = [k1 EXCEPT !.wque[w] = q] BY <1>2, <1>9
  <2>2. w \in Wobj /\ Linked(j.wque[w], t) /\ NoTwice(j.wque[w]) /\ j.wque[w] \in Seq(Task)
    <3>1. TSTAT_WAIT_WOBJ(j.tstat[t])
      BY <1>9 DEF TSTAT_WAIT_WOBJ, TSTAT_WAIT_WOBJCB, WobjFactor
    <3>2. w \in Wobj BY <3>1 DEF Waits
    <3> QED BY <3>1, <3>2, <1>1 DEF Waits, Neat
  <2>3. q \in Seq(Task) /\ NoTwice(q) /\ \A u : Linked(q, u) <=> Linked(j.wque[w], u)
    <3> DEFINE d == queue_delete(j.wque[w], t)
    <3>1. d \in Seq(Task) /\ NoTwice(d) /\ \A u : Linked(d, u) <=> Linked(j.wque[w], u) /\ u # t
      BY <2>2, Delete
    <3>2. q = queue_insert_tpri(d, t, k1.priority) BY <1>3
    <3> HIDE DEF d, q
    <3>3. ~Linked(d, t) BY <3>1
    <3>4. q \in Seq(Task) /\ NoTwice(q) /\ \A u : Linked(q, u) <=> Linked(d, u) \/ u = t
      BY <3>1, <3>2, <3>3, InsertTpri
    <3> QED BY <3>1, <3>4, <2>2
  <2> HIDE DEF q, n
  <2>4. /\ Shaped(n) /\ n.lastmtx = j.lastmtx /\ n.prevmtx = j.prevmtx
        /\ n.loctsk = j.loctsk /\ n.bpriority = j.bpriority /\ n.tstat = j.tstat
        /\ n.priority = k1.priority /\ n.wque = [j.wque EXCEPT ![w] = q]
    BY <2>1, <1>3 DEF Shaped
  <2>5. \A v \in Wobj : n.wque[v] = IF v = w THEN q ELSE j.wque[v] BY <2>4, <1>1 DEF Neat
  <2>6. Neat(n) BY <2>3, <2>4, <2>5, <1>1 DEF Neat
  <2>7. Shifted(j, n, t) BY <2>2, <2>3, <2>4, <2>5, <2>6 DEF Shifted
  <2> QED BY <2>4, <2>7, <1>3 DEF n
<1>10. CASE /\ ~TSTAT_RUNNABLE(j.tstat[t])
            /\ ~(TSTAT_WAIT_WOBJCB(j.tstat[t]) /\ w \in TA_TPRI)
  <2>1. n = k1 BY <1>2, <1>10
  <2> QED BY <2>1, <1>3, <1>4
<1> QED BY <1>8, <1>9, <1>10

\* t is given the priority that it should have
LEMMA ChangeOwned ==
    ASSUME NEW j, j \in KernelState, Waits(j, {}), NEW F, NEW X, Owned(j, F, X),
           NEW t \in Task, NEW newpri, newpri \in Bounds(j, t, F),
           \A p \in Bounds(j, t, F) : newpri <= p, NEW mtxmode
    PROVE  LET n == change_priority(j, t, newpri, mtxmode) IN
           Shifted(j, n, t) /\ Owned(n, F, X \ {t})
<1> DEFINE n == change_priority(j, t, newpri, mtxmode)
<1>1. newpri \in Pri
  <2>1. j.bpriority[t] \in Pri BY DEF KernelState
  <2>2. \A m \in TA_CEILING : ceilpri[m] \in Pri BY WobjAssumption
  <2> QED BY <2>1, <2>2 DEF Bounds
<1>2. Shifted(j, n, t) /\ n.priority = [j.priority EXCEPT ![t] = newpri]
  BY <1>1, ChangeShifts
<1> HIDE DEF n
<1>3. /\ j.priority \in [Task -> Pri] /\ n.priority \in [Task -> Pri] /\ n.priority[t] = newpri
      /\ \A u \in Task : u \notin {t} => n.priority[u] = j.priority[u]
  BY <1>1, <1>2 DEF KernelState
<1>4. Owned(n, F, X \cup {t})
  <2>1. /\ Shaped(n) /\ Neat(n) /\ n.lastmtx = j.lastmtx /\ n.prevmtx = j.prevmtx
        /\ n.loctsk = j.loctsk /\ n.bpriority = j.bpriority /\ n.tstat = j.tstat
        /\ \A w \in Wobj : \A u : Linked(n.wque[w], u) <=> Linked(j.wque[w], u)
    BY <1>2 DEF Shifted
  <2>2. Mutex \subseteq Wobj BY WobjAssumption
  <2>3. \A m \in Mutex, u \in Task : Linked(n.wque[m], u) => Linked(j.wque[m], u)
    BY <2>1, <2>2
  <2> QED BY <2>1, <2>3, <1>3, OwnedFrame
<1>5. Best(n, t, F)
  <2>1. Bounds(n, t, F) = Bounds(j, t, F) BY <1>2 DEF Bounds, Shifted
  <2> QED BY <2>1, <1>3 DEF Best
<1>6. Owned(n, F, X \ {t}) BY <1>4, <1>5 DEF Owned
<1> QED BY <1>2, <1>6 DEF n

(* mutex_drop_priority, when m has been given up: the priority was the     *)
(* best with it, and becomes the best without it.                          *)
Ceiling(m) == {ceilpri[x] : x \in {m} \cap TA_CEILING}

LEMMA DropOwned ==
    ASSUME NEW j, j \in KernelState, Waits(j, {}), NEW F, NEW t \in Task, Owned(j, F, {t}),
           NEW m, j.priority[t] \in Bounds(j, t, F) \cup Ceiling(m),
           \A p \in Bounds(j, t, F) \cup Ceiling(m) : j.priority[t] <= p
    PROVE  LET n == mutex_drop_priority(j, t, m) IN Shifted(j, n, t) /\ Owned(n, F, {})
<1> DEFINE n == mutex_drop_priority(j, t, m)
           p == mutex_calc_priority(j, t)
           c == change_priority(j, t, p, TRUE)
<1>1. Chains(j, F) BY DEF Owned
<1>2. p \in Bounds(j, t, F) /\ \A b \in Bounds(j, t, F) : p <= b
  BY <1>1, ChainHeld, Calc
<1>3. n = IF MTX_CEILING(m) /\ ceilpri[m] = j.priority[t] /\ p # j.priority[t] THEN c ELSE j
  BY DEF mutex_drop_priority
<1>4. {t} \ {t} = {} OBVIOUS
<1> HIDE DEF p, n
<1>5. Shifted(j, c, t) /\ Owned(c, F, {})
  <2>1. Shifted(j, c, t) /\ Owned(c, F, {t} \ {t}) BY <1>2, ChangeOwned
  <2> HIDE DEF c
  <2> QED BY <2>1, <1>4
<1> HIDE DEF c
<1>6. CASE MTX_CEILING(m) /\ ceilpri[m] = j.priority[t] /\ p # j.priority[t]
  BY <1>3, <1>5, <1>6 DEF n
<1>7. CASE ~(MTX_CEILING(m) /\ ceilpri[m] = j.priority[t] /\ p # j.priority[t])
  <2>1. n = j BY <1>3, <1>7
  <2>2. Shifted(j, j, t)
    <3>1. Shaped(j) /\ Neat(j) BY DEF Owned, Typed
    <3> QED BY <3>1 DEF Shifted
  <2>3. j.priority[t] \in Bounds(j, t, F)
    BY <1>2, <1>7 DEF MTX_CEILING, Ceiling
  <2>4. Best(j, t, F) BY <2>3 DEF Best
  <2>5. Owned(j, F, {}) BY <2>4 DEF Owned
  <2> QED BY <2>1, <2>2, <2>5 DEF n
<1> QED BY <1>6, <1>7

(* mutex_release gives m to the first task that waits for it, or to nobody.*)
Passed(j, n, m) ==
    \/ j.wque[m] = << >> /\ n.wque[m] = << >> /\ n.loctsk[m] = NULL
    \/ j.wque[m] # << >> /\ n.wque[m] = Tail(j.wque[m]) /\ n.loctsk[m] = Head(j.wque[m])

\* t takes it over
TakenOver(j, n, m, t) ==
    /\ Shaped(n)
    /\ n.wque = [j.wque EXCEPT ![m] = Tail(@)]
    /\ n.loctsk = [j.loctsk EXCEPT ![m] = t]
    /\ n.prevmtx = [j.prevmtx EXCEPT ![m] = j.lastmtx[t]]
    /\ n.lastmtx = [j.lastmtx EXCEPT ![t] = m]
    /\ n.bpriority = j.bpriority
    /\ n.priority = IF m \in TA_CEILING /\ ceilpri[m] < j.priority[t]
                    THEN [j.priority EXCEPT ![t] = ceilpri[m]] ELSE j.priority
    /\ n.tstat[t] # {}
    /\ \A u \in Task : n.tstat[u] = {} => j.tstat[u] = {}

LEMMA AwakeNonWait ==
    ASSUME NEW j, Shaped(j), NEW t \in Task
    PROVE  make_non_wait(j, t).tstat[t] # {}
<1> DEFINE x == Check(j, TSTAT_WAITING(j.tstat[t]), "make_non_wait")
           u == [x EXCEPT !.tstat[t] = {TS_RUNNABLE}]
           s == [x EXCEPT !.tstat[t] = {TS_SUSPENDED}]
           v == make_runnable(u, t)
<1>1. make_non_wait(j, t) = IF ~TSTAT_SUSPENDED(j.tstat[t]) THEN v ELSE s
  BY DEF make_non_wait
<1>2. Shaped(x) BY QuietCheck DEF Quiet
<1> HIDE DEF x
<1>3. {TS_RUNNABLE} # {} /\ {TS_SUSPENDED} # {} OBVIOUS
<1>4. u.tstat[t] = {TS_RUNNABLE} /\ s.tstat[t] = {TS_SUSPENDED} /\ Shaped(u)
  BY <1>2 DEF Shaped
<1> HIDE DEF u, s
<1>5. Quiet(u, v) BY <1>4, QuietRunnable
<1> HIDE DEF v
<1>6. v.tstat[t] # {} BY <1>3, <1>4, <1>5 DEF Quiet, SameOwners
<1> QED BY <1>1, <1>3, <1>4, <1>6

LEMMA ReleaseFields ==
    ASSUME NEW j, Typed(j), NEW m \in Mutex, j.wque[m] # << >>
    PROVE  TakenOver(j, mutex_release(j, m), m, Head(j.wque[m]))
<1> DEFINE t == Head(j.wque[m])
           a == [j EXCEPT !.wque[m] = Tail(@)]
           b == wait_dequeue_tmevtb(a, t)
           e == set_wercd(b, t, E_OK)
           c == chain_push(e, t, m)
           d == IF MTX_CEILING(m) /\ ceilpri[m] < c.priority[t]
                THEN [c EXCEPT !.priority[t] = ceilpri[m]] ELSE c
           n == make_non_wait(d, t)
<1>1. mutex_release(j, m) = n BY DEF mutex_release, queue_empty
<1>2. Shaped(j) /\ Neat(j) /\ m \in Wobj BY WobjAssumption DEF Typed
<1>3. t \in Task
  <2>1. j.wque[m] \in Seq(Task) BY <1>2 DEF Neat
  <2> QED BY <2>1
<1> HIDE DEF t
<1>4. /\ Shaped(a) /\ a.wque = [j.wque EXCEPT ![m] = Tail(@)] /\ a.lastmtx = j.lastmtx
      /\ a.prevmtx = j.prevmtx /\ a.loctsk = j.loctsk /\ a.bpriority = j.bpriority
      /\ a.priority = j.priority /\ a.tstat = j.tstat
  BY <1>2 DEF Shaped
<1> HIDE DEF a
<1>5. Quiet(a, b) BY <1>4, QuietWait
<1> HIDE DEF b
<1>6. Quiet(b, e)
  <2>1. Shaped(b) BY <1>5 DEF Quiet
  <2> QED BY <2>1, QuietWait
<1> HIDE DEF e
<1>7. Quiet(a, e) BY <1>5, <1>6, QuietAgain
<1>8. /\ Shaped(c) /\ c.wque = e.wque /\ c.lastmtx = [e.lastmtx EXCEPT ![t] = m]
      /\ c.prevmtx = [e.prevmtx EXCEPT ![m] = e.lastmtx[t]]
      /\ c.loctsk = [e.loctsk EXCEPT ![m] = t] /\ c.bpriority = e.bpriority
      /\ c.priority = e.priority /\ c.tstat = e.tstat
  BY <1>7 DEF chain_push, Quiet, Shaped
<1> HIDE DEF c
<1>9. /\ Shaped(d) /\ d.wque = c.wque /\ d.lastmtx = c.lastmtx /\ d.prevmtx = c.prevmtx
      /\ d.loctsk = c.loctsk /\ d.bpriority = c.bpriority /\ d.tstat = c.tstat
      /\ d.priority = IF m \in TA_CEILING /\ ceilpri[m] < c.priority[t]
                      THEN [c.priority EXCEPT ![t] = ceilpri[m]] ELSE c.priority
  BY <1>8 DEF Shaped, MTX_CEILING
<1> HIDE DEF d
<1>10. Quiet(d, n) BY <1>9, QuietWait
<1>11. n.tstat[t] # {} BY <1>3, <1>9, AwakeNonWait
<1> HIDE DEF n
<1>12. \A u \in Task : n.tstat[u] = {} => j.tstat[u] = {}
  BY <1>4, <1>7, <1>8, <1>9, <1>10 DEF Quiet, SameOwners
<1>13. TakenOver(j, n, m, t)
  BY <1>4, <1>7, <1>8, <1>9, <1>10, <1>11, <1>12 DEF Quiet, SameOwners, TakenOver
<1> QED BY <1>1, <1>13 DEF t

\* the new owner of m runs at its ceiling at least
LEMMA TakenOverBest ==
    ASSUME NEW j, Typed(j), NEW m \in Mutex, NEW t \in Task, NEW n, TakenOver(j, n, m, t),
           j.loctsk[m] # t, Best(j, t, {m})
    PROVE  Best(n, t, {})
<1>1. /\ j.priority[t] \in Bounds(j, t, {m}) /\ \A p \in Bounds(j, t, {m}) : j.priority[t] <= p
  BY DEF Best
<1>2. \A x \in Mutex : n.loctsk[x] = IF x = m THEN t ELSE j.loctsk[x]
  BY DEF TakenOver, Typed
<1>3. TA_CEILING \subseteq Mutex /\ \A x \in TA_CEILING : ceilpri[x] \in Int
  BY WobjAssumption, PriNat
<1>4. Bounds(n, t, {}) = Bounds(j, t, {m}) \cup Ceiling(m)
  BY <1>2, <1>3 DEF Bounds, Ceiling, TakenOver
<1>5. Bounds(j, t, {m}) \subseteq Int
  <2>1. j.bpriority[t] \in Int BY PriNat DEF Typed
  <2> QED BY <2>1, <1>3 DEF Bounds
<1>6. n.priority[t] = IF m \in TA_CEILING /\ ceilpri[m] < j.priority[t]
                      THEN ceilpri[m] ELSE j.priority[t]
  BY DEF TakenOver, Typed
<1>7. CASE m \in TA_CEILING /\ ceilpri[m] < j.priority[t]
  <2>1. n.priority[t] = ceilpri[m] /\ Ceiling(m) = {ceilpri[m]} BY <1>6, <1>7 DEF Ceiling
  <2>2. ceilpri[m] \in Int /\ j.priority[t] \in Int BY <1>1, <1>3, <1>5, <1>7
  <2>3. \A p \in Bounds(j, t, {m}) : ceilpri[m] <= p BY <2>2, <1>1, <1>5, <1>7
  <2> QED BY <2>1, <2>2, <2>3, <1>4 DEF Best
<1>8. CASE ~(m \in TA_CEILING /\ ceilpri[m] < j.priority[t])
  <2>1. n.priority[t] = j.priority[t] BY <1>6, <1>8
  <2>2. \A p \in Ceiling(m) : j.priority[t] <= p BY <1>1, <1>3, <1>5, <1>8 DEF Ceiling
  <2> QED BY <2>1, <2>2, <1>1, <1>4 DEF Best
<1> QED BY <1>7, <1>8

LEMMA ReleaseOwned ==
    ASSUME NEW j, NEW m \in Mutex, NEW X, Owned(j, {m}, X), j.loctsk[m] # NULL,
           X \subseteq {j.loctsk[m]}
    PROVE  LET n == mutex_release(j, m) IN
           /\ Owned(n, {}, X) /\ Passed(j, n, m)
           /\ \A x \in Mutex : x # m => n.loctsk[x] = j.loctsk[x] /\ n.wque[x] = j.wque[x]
           /\ \A u \in Task : \A c :
                ~Linked(j.wque[m], u) /\ Owns(j, u, c, {m}) => Owns(n, u, c, {})
           /\ \A u \in Task : n.tstat[u] = {} => j.tstat[u] = {}
<1> DEFINE n == mutex_release(j, m)
<1>1. /\ Typed(j) /\ Chains(j, {m}) /\ Waiters(j) /\ Dead(j) /\ m \in Wobj /\ Mutex \subseteq Wobj
      /\ \A u \in Task : Within(j, u) /\ (u \notin X => Best(j, u, {m}))
  BY WobjAssumption DEF Owned
<1>2. TA_CEILING \subseteq Mutex /\ NULL \notin Task BY WobjAssumption, NullNotTask
<1>3. CASE j.wque[m] = << >>
  <2>1. n = [j EXCEPT !.loctsk[m] = NULL] BY <1>3 DEF mutex_release, queue_empty
  <2> HIDE DEF n
  <2>2. /\ Shaped(n) /\ n.wque = j.wque /\ n.lastmtx = j.lastmtx /\ n.prevmtx = j.prevmtx
        /\ n.loctsk = [j.loctsk EXCEPT ![m] = NULL] /\ n.bpriority = j.bpriority
        /\ n.priority = j.priority /\ n.tstat = j.tstat
    BY <2>1, <1>1 DEF Typed, Shaped
  <2>3. \A x \in Mutex : n.loctsk[x] = IF x = m THEN NULL ELSE j.loctsk[x]
    BY <2>2, <1>1 DEF Typed
  <2>4. ASSUME NEW u \in Task, NEW c, Owns(j, u, c, {m}) PROVE Owns(n, u, c, {})
    BY <2>2, <2>3, <2>4, <1>2 DEF Owns
  <2>5. Chains(n, {}) BY <2>4, <1>1 DEF Chains
  <2>6. n.loctsk \in [Mutex -> Task \cup {NULL}] BY <2>2, <1>1 DEF Typed
  <2>7. Typed(n) BY <2>2, <2>6, <1>1 DEF Typed, Neat
  <2>8. Waiters(n)
    <3>1. \A u : ~Linked(j.wque[m], u) BY <1>3 DEF Linked
    <3> QED BY <3>1, <2>2, <2>3, <1>1 DEF Waiters
  <2>9. Dead(n) BY <2>2, <1>1 DEF Dead
  <2>10. ASSUME NEW u \in Task PROVE Within(n, u) /\ (u \notin X => Best(n, u, {}))
    <3>1. Within(n, u) BY <2>2, <2>3, <1>1, <1>2 DEF Within
    <3>2. Bounds(n, u, {}) = Bounds(j, u, {m}) BY <2>2, <2>3, <1>2 DEF Bounds
    <3> QED BY <3>1, <3>2, <2>2, <1>1 DEF Best
  <2>11. Owned(n, {}, X) BY <2>5, <2>7, <2>8, <2>9, <2>10 DEF Owned
  <2>12. Passed(j, n, m) BY <2>2, <2>3, <1>3 DEF Passed
  <2> QED BY <2>2, <2>3, <2>4, <2>11, <2>12 DEF n
<1>4. CASE j.wque[m] # << >>
  <2> DEFINE t == Head(j.wque[m])
  <2>1. TakenOver(j, n, m, t) BY <1>1, <1>4, ReleaseFields
  <2>2. j.wque[m] \in Seq(Task) /\ NoTwice(j.wque[m]) BY <1>1 DEF Typed, Neat
  <2>3. t \in Task /\ Linked(j.wque[m], t)
    <3>1. 1 \in 1 .. Len(j.wque[m]) /\ t = j.wque[m][1] BY <2>2, <1>4
    <3> QED BY <3>1, <2>2 DEF Linked
  <2>4. /\ Tail(j.wque[m]) \in Seq(Task) /\ NoTwice(Tail(j.wque[m]))
        /\ \A u : Linked(Tail(j.wque[m]), u) <=> Linked(j.wque[m], u) /\ u # t
    BY <2>2, <1>4, TailLinks
  <2> HIDE DEF t, n
  <2>5. j.loctsk[m] # t /\ t \notin X BY <2>3, <1>1 DEF Waiters
  <2>6. /\ Shaped(n) /\ n.bpriority = j.bpriority
        /\ n.wque = [j.wque EXCEPT ![m] = Tail(@)] /\ n.loctsk = [j.loctsk EXCEPT ![m] = t]
        /\ n.prevmtx = [j.prevmtx EXCEPT ![m] = j.lastmtx[t]]
        /\ n.lastmtx = [j.lastmtx EXCEPT ![t] = m]
        /\ n.tstat[t] # {} /\ \A u \in Task : n.tstat[u] = {} => j.tstat[u] = {}
    BY <2>1 DEF TakenOver
  <2>7. /\ \A x \in Mutex : n.loctsk[x] = IF x = m THEN t ELSE j.loctsk[x]
        /\ \A x \in Mutex : x # m => n.prevmtx[x] = j.prevmtx[x]
        /\ \A u \in Task : n.lastmtx[u] = IF u = t THEN m ELSE j.lastmtx[u]
        /\ n.loctsk \in [Mutex -> Task \cup {NULL}]
        /\ n.prevmtx \in [Mutex -> Mutex \cup {NULL}]
        /\ n.lastmtx \in [Task -> Mutex \cup {NULL}]
    BY <2>3, <2>6, <1>1 DEF Typed
  <2>8. \A w \in Wobj : n.wque[w] = IF w = m THEN Tail(j.wque[m]) ELSE j.wque[w]
    BY <2>6, <1>1 DEF Typed, Neat
  <2>9. Neat(n) BY <2>4, <2>6, <2>8, <1>1 DEF Typed, Neat
  <2>10. n.priority \in [Task -> Pri] /\ \A u \in Task \ {t} : n.priority[u] = j.priority[u]
    <3>1. m \in TA_CEILING => ceilpri[m] \in Pri BY WobjAssumption
    <3>2. /\ j.priority \in [Task -> Pri]
          /\ \/ m \in TA_CEILING /\ n.priority = [j.priority EXCEPT ![t] = ceilpri[m]]
             \/ n.priority = j.priority
      BY <2>1, <1>1 DEF TakenOver, Typed
    <3> QED BY <3>1, <3>2, <2>3
  <2>11. Typed(n) BY <2>6, <2>7, <2>9, <2>10, <1>1 DEF Typed
  <2>12. ASSUME NEW u \in Task, u # t, NEW c, Owns(j, u, c, {m}) PROVE Owns(n, u, c, {})
    <3>1. /\ IsChain(j.lastmtx[u], j.prevmtx, c)
          /\ \A x \in Mutex : Linked(c, x) <=> x # m /\ j.loctsk[x] = u
      BY <2>12 DEF Owns
    <3>2. \A x \in Mutex : Linked(c, x) => n.prevmtx[x] = j.prevmtx[x] BY <3>1, <2>7
    <3>3. IsChain(j.lastmtx[u], n.prevmtx, c) BY <3>1, <3>2, ChainFrame
    <3> QED BY <3>1, <3>3, <2>7, <2>12 DEF Owns
  <2>13. \E c : Owns(n, t, c, {})
    <3>1. PICK c : Owns(j, t, c, {m}) BY <2>3, <1>1 DEF Chains
    <3>2. /\ IsChain(j.lastmtx[t], j.prevmtx, c)
          /\ \A x \in Mutex : Linked(c, x) <=> x # m /\ j.loctsk[x] = t
      BY <3>1 DEF Owns
    <3>3. /\ IsChain(m, [j.prevmtx EXCEPT ![m] = j.lastmtx[t]], <<m>> \o c)
          /\ \A x : Linked(<<m>> \o c, x) <=> Linked(c, x) \/ x = m
      <4>1. ~Linked(c, m) /\ j.prevmtx \in [Mutex -> Mutex \cup {NULL}]
        BY <3>2, <1>1 DEF Typed
      <4> QED BY <4>1, <3>2, ChainPush
    <3>4. IsChain(n.lastmtx[t], n.prevmtx, <<m>> \o c) BY <3>3, <2>3, <2>6, <2>7
    <3>5. Owns(n, t, <<m>> \o c, {}) BY <3>2, <3>3, <3>4, <2>7 DEF Owns
    <3> QED BY <3>5
  <2>14. Chains(n, {}) BY <2>12, <2>13, <1>1 DEF Chains
  <2>15. Waiters(n)
    <3>1. ASSUME NEW x \in Mutex, NEW u \in Task, Linked(n.wque[x], u)
          PROVE  n.loctsk[x] \notin {NULL, u}
      <4>1. x \in Wobj BY <1>1
      <4>2. CASE x = m BY <4>2, <3>1, <4>1, <2>3, <2>4, <2>7, <2>8, <1>2
      <4>3. CASE x # m BY <4>3, <3>1, <4>1, <2>7, <2>8, <1>1 DEF Waiters
      <4> QED BY <4>2, <4>3
    <3> QED BY <3>1 DEF Waiters
  <2>16. Dead(n) BY <2>6, <2>7, <1>1 DEF Dead
  <2>17. ASSUME NEW u \in Task PROVE Within(n, u)
    <3>1. ASSUME NEW x \in TA_CEILING, n.loctsk[x] = u \/ Linked(n.wque[x], u)
          PROVE  ceilpri[x] <= n.bpriority[u]
      <4>1. x \in Mutex /\ x \in Wobj BY <1>1, <1>2
      <4>2. j.loctsk[x] = u \/ Linked(j.wque[x], u)
        <5>1. CASE x = m BY <5>1, <3>1, <4>1, <2>3, <2>4, <2>7, <2>8
        <5>2. CASE x # m BY <5>2, <3>1, <4>1, <2>7, <2>8
        <5> QED BY <5>1, <5>2
      <4> QED BY <4>2, <2>6, <1>1 DEF Within
    <3> QED BY <3>1 DEF Within
  <2>18. ASSUME NEW u \in Task, u \notin X PROVE Best(n, u, {})
    <3>1. CASE u = t BY <3>1, <2>1, <2>3, <2>5, <1>1, TakenOverBest
    <3>2. CASE u # t
      <4>1. Bounds(n, u, {}) = Bounds(j, u, {m}) BY <3>2, <2>6, <2>7, <1>2 DEF Bounds
      <4>2. n.priority[u] = j.priority[u] BY <3>2, <2>10
      <4> QED BY <4>1, <4>2, <2>18, <1>1 DEF Best
    <3> QED BY <3>1, <3>2
  <2>19. Owned(n, {}, X) BY <2>11, <2>14, <2>15, <2>16, <2>17, <2>18 DEF Owned
  <2>20. Passed(j, n, m) BY <2>7, <2>8, <1>1, <1>4 DEF Passed, t
  <2>21. \A x \in Mutex : x # m => n.loctsk[x] = j.loctsk[x] /\ n.wque[x] = j.wque[x]
    BY <2>7, <2>8, <1>1
  <2> QED BY <2>3, <2>6, <2>12, <2>19, <2>20, <2>21 DEF n
<1> QED BY <1>3, <1>4

(* mutex_release_all gives back the mutexes of t one after the other; none *)
(* of them comes back to t.                                                *)
Handed(j, n, x, t) ==
    \/ n.loctsk[x] = j.loctsk[x] /\ n.wque[x] = j.wque[x]
    \/ j.loctsk[x] = t /\ Passed(j, n, x)

LEMMA PassedAway ==
    ASSUME NEW j, Typed(j), Waiters(j), NEW x \in Mutex, NEW t \in Task, j.loctsk[x] = t,
           NEW n, Passed(j, n, x)
    PROVE  n.loctsk[x] # t /\ \A u : Linked(n.wque[x], u) => Linked(j.wque[x], u)
<1>1. j.wque[x] \in Seq(Task) /\ NoTwice(j.wque[x])
  BY WobjAssumption DEF Typed, Neat
<1>2. CASE j.wque[x] = << >>
  <2>1. n.wque[x] = << >> /\ n.loctsk[x] = NULL BY <1>2 DEF Passed
  <2>2. \A u : ~Linked(n.wque[x], u) BY <2>1 DEF Linked
  <2> QED BY <2>1, <2>2, NullNotTask
<1>3. CASE j.wque[x] # << >>
  <2>1. n.wque[x] = Tail(j.wque[x]) /\ n.loctsk[x] = Head(j.wque[x]) BY <1>3 DEF Passed
  <2>2. 1 \in 1 .. Len(j.wque[x]) /\ Head(j.wque[x]) = j.wque[x][1] /\ Head(j.wque[x]) \in Task
    BY <1>1, <1>3
  <2>3. Linked(j.wque[x], Head(j.wque[x])) BY <2>2 DEF Linked
  <2>4. Head(j.wque[x]) # t BY <2>2, <2>3 DEF Waiters
  <2>5. \A u : Linked(Tail(j.wque[x]), u) => Linked(j.wque[x], u) BY <1>1, <1>3, TailLinks
  <2> QED BY <2>1, <2>4, <2>5
<1> QED BY <1>2, <1>3

LEMMA HandedAgain ==
    ASSUME NEW j, Typed(j), Waiters(j), NEW x \in Mutex, NEW t \in Task, NEW i, NEW n,
           Handed(j, i, x, t), Handed(i, n, x, t)
    PROVE  Handed(j, n, x, t)
<1>1. CASE i.loctsk[x] = j.loctsk[x] /\ i.wque[x] = j.wque[x]
  BY <1>1 DEF Handed, Passed
<1>2. CASE j.loctsk[x] = t /\ Passed(j, i, x)
  <2>1. i.loctsk[x] # t BY <1>2, PassedAway
  <2>2. n.loctsk[x] = i.loctsk[x] /\ n.wque[x] = i.wque[x] BY <2>1 DEF Handed
  <2> QED BY <2>2, <1>2 DEF Handed, Passed
<1> QED BY <1>1, <1>2 DEF Handed

LEMMA LastOwned ==
    ASSUME NEW j, NEW t \in Task, Owned(j, {}, {t})
    PROVE  LET n == ReleaseLast(j, t) IN
           /\ Owned(n, {}, {t}) /\ \A x \in Mutex : Handed(j, n, x, t)
           /\ \A c : Owns(j, t, c, {}) =>
                IF c = << >> THEN Owns(n, t, c, {})
                ELSE Owns(n, t, Tail(c), {}) /\ Len(Tail(c)) = Len(c) - 1
<1> DEFINE m == j.lastmtx[t]
           i == Popped(j, t, m)
           n == ReleaseLast(j, t)
<1>1. \A c : Owns(j, t, c, {}) => (m = NULL <=> c = << >>) BY HeadHeld
<1>2. CASE m = NULL
  <2>1. n = j BY <1>2 DEF ReleaseLast
  <2> QED BY <2>1, <1>1, <1>2 DEF Handed
<1>3. CASE m # NULL
  <2>1. n = mutex_release(i, m) BY <1>3 DEF ReleaseLast, Popped
  <2>2. /\ Owned(i, {m}, {t} \cup {t}) /\ m \in Mutex /\ j.loctsk[m] = t
        /\ \A c : Owns(j, t, c, {}) => Owns(i, t, Tail(c), {m}) /\ Len(Tail(c)) = Len(c) - 1
        /\ i.loctsk = j.loctsk /\ i.wque = j.wque
    <3>1. TakenOff(j, i, t, m, {t})
      <4>1. m = j.lastmtx[t] OBVIOUS
      <4> HIDE DEF n, m
      <4> QED BY <4>1, <1>3, PopOwned
    <3> HIDE DEF n, m, i
    <3> QED BY <3>1 DEF TakenOff
  <2>3. {t} \cup {t} = {t} OBVIOUS
  <2> HIDE DEF i, m, n
  <2>4. Owned(i, {m}, {t}) /\ i.loctsk[m] = t /\ t # NULL BY <2>2, <2>3, NullNotTask
  <2>5. /\ Owned(n, {}, {t}) /\ Passed(i, n, m)
        /\ \A x \in Mutex : x # m => n.loctsk[x] = i.loctsk[x] /\ n.wque[x] = i.wque[x]
        /\ \A c : ~Linked(i.wque[m], t) /\ Owns(i, t, c, {m}) => Owns(n, t, c, {})
    <3>1. {t} \subseteq {i.loctsk[m]} /\ i.loctsk[m] # NULL BY <2>4
    <3>2. \A u \in Task : \A c :
            ~Linked(i.wque[m], u) /\ Owns(i, u, c, {m}) => Owns(mutex_release(i, m), u, c, {})
      BY <3>1, <2>2, <2>4, ReleaseOwned
    <3>3. /\ Owned(mutex_release(i, m), {}, {t}) /\ Passed(i, mutex_release(i, m), m)
          /\ \A x \in Mutex : x # m =>
               /\ mutex_release(i, m).loctsk[x] = i.loctsk[x]
               /\ mutex_release(i, m).wque[x] = i.wque[x]
      BY <3>1, <2>2, <2>4, ReleaseOwned
    <3> QED BY <3>2, <3>3, <2>1
  <2>6. ~Linked(i.wque[m], t) BY <2>2, <2>4 DEF Owned, Waiters
  <2>7. ASSUME NEW c, Owns(j, t, c, {})
        PROVE  c # << >> /\ Owns(n, t, Tail(c), {}) /\ Len(Tail(c)) = Len(c) - 1
    BY <2>2, <2>5, <2>6, <2>7, <1>1, <1>3
  <2>8. \A x \in Mutex : Handed(j, n, x, t) BY <2>2, <2>5 DEF Handed, Passed
  <2> QED BY <2>5, <2>7, <2>8 DEF n
<1> QED BY <1>2, <1>3

LEMMA ReleaseAllOwned ==
    ASSUME NEW j, NEW t \in Task, Owned(j, {}, {t})
    PROVE  LET n == mutex_release_all(j, t) IN
           /\ Owned(n, {}, {t}) /\ n.lastmtx[t] = NULL
           /\ \A x \in Mutex : n.loctsk[x] # t /\ Handed(j, n, x, t)
<1> DEFINE top == Cardinality(Mutex)
<1>1. PICK r : RoundsAll(r, j, t) BY RoundsAllExist
<1>2. /\ r[0] = j /\ r[top] = mutex_release_all(j, t)
      /\ \A i \in 0 .. top - 1 : r[i + 1] = ReleaseLast(r[i], t)
  BY <1>1 DEF RoundsAll
<1>3. PICK c0 : Owns(j, t, c0, {}) BY DEF Owned, Chains
<1>4. Len(c0) \in Nat /\ Len(c0) <= top /\ top \in Nat
  BY <1>3, ChainLength DEF Owns
<1> DEFINE Good(i, n) == /\ Owned(n, {}, {t}) /\ \A x \in Mutex : Handed(j, n, x, t)
                         /\ \E c : Owns(n, t, c, {}) /\ Len(c) <= top - i
           P == {i \in 0 .. top : Good(i, r[i])}
<1>5. 0 \in P
  <2>1. \A x \in Mutex : Handed(j, j, x, t) BY DEF Handed
  <2>2. Len(c0) <= top - 0 /\ 0 \in 0 .. top BY <1>4
  <2> HIDE DEF top
  <2> QED BY <2>1, <2>2, <1>2, <1>3
<1>6. ASSUME NEW i \in 0 .. top - 1, i \in P PROVE i + 1 \in P
  <2> DEFINE a == r[i]
             n == r[i + 1]
  <2>1. n = ReleaseLast(a, t) /\ Owned(a, {}, {t}) /\ \A x \in Mutex : Handed(j, a, x, t)
    BY <1>2, <1>6
  <2>2. PICK c : Owns(a, t, c, {}) /\ Len(c) <= top - i BY <1>6
  <2> HIDE DEF a, n, top
  <2>3. /\ Owned(n, {}, {t}) /\ \A x \in Mutex : Handed(a, n, x, t)
        /\ IF c = << >> THEN Owns(n, t, c, {})
           ELSE Owns(n, t, Tail(c), {}) /\ Len(Tail(c)) = Len(c) - 1
    BY <2>1, <2>2, LastOwned
  <2>4. \A x \in Mutex : Handed(j, n, x, t) BY <2>1, <2>3, HandedAgain DEF Owned
  <2>5. c \in Seq(Mutex) BY <2>2 DEF Owns, IsChain
  <2>6. \E d : Owns(n, t, d, {}) /\ Len(d) <= top - (i + 1)
    <3>1. CASE c = << >>
      <4>1. Len(c) <= top - (i + 1) BY <3>1, <1>4, <2>2
      <4> QED BY <4>1, <3>1, <2>3
    <3>2. CASE c # << >>
      <4>1. Len(Tail(c)) <= top - (i + 1) BY <3>2, <1>4, <2>2, <2>3, <2>5
      <4> QED BY <4>1, <3>2, <2>3
    <3> QED BY <3>1, <3>2
  <2>7. i + 1 \in 0 .. top BY <1>4
  <2> QED BY <2>3, <2>4, <2>6, <2>7 DEF n
<1> DEFINE g == mutex_release_all(j, t)
<1>7. Good(top, g)
  <2> HIDE DEF P, top
  <2>1. \A i \in 0 .. top : i \in P BY <1>4, <1>5, <1>6, Induct
  <2>2. top \in 0 .. top BY <1>4
  <2>3. top \in P BY <2>1, <2>2
  <2> USE DEF P
  <2>4. Good(top, r[top]) BY <2>3
  <2> HIDE DEF Good, P
  <2> QED BY <2>4, <1>2
<1>8. Owned(g, {}, {t}) /\ \A x \in Mutex : Handed(j, g, x, t) BY <1>7
<1>9. PICK c : Owns(g, t, c, {}) /\ Len(c) <= top - top BY <1>7
<1> HIDE DEF g, top, Good
<1>10. c = << >>
  <2>1. c \in Seq(Mutex) BY <1>9 DEF Owns, IsChain
  <2>2. Len(c) = 0 BY <2>1, <1>4, <1>9
  <2> QED BY <2>1, <2>2
<1>11. g.lastmtx[t] = NULL /\ \A x \in Mutex : g.loctsk[x] # t
  BY <1>9, <1>10, HeadHeld
<1> QED BY <1>8, <1>11 DEF g

(* A task that is terminated waits for nothing, holds nothing and has its  *)
(* initial priority; what it held has been handed over.                    *)
LEMMA DetachThins ==
    ASSUME NEW j, Settled(j), Fine(j, {}), NEW t \in Task, j.dspflg \/ t # j.runtsk
    PROVE  /\ Thinned(j, Detached(j, t))
           /\ \A w \in Wobj : /\ ~Linked(Detached(j, t).wque[w], t)
                              /\ ~Linked(j.wque[w], t) =>
                                     Detached(j, t).wque[w] = j.wque[w]
<1> DEFINE n == Detached(j, t)
           s == j.tstat[t]
           b == wait_dequeue_wobj(j, t)
           w0 == j.wobj[t]
<1>1. j \in KernelState /\ Waits(j, {}) /\ Shaped(j) /\ Neat(j)
  <2>1. j \in KernelState /\ Waits(j, {}) BY DEF Settled, Ready, Core, Fine
  <2> QED BY <2>1, ShapedState, NeatWaits
<1>2. n = IF TSTAT_RUNNABLE(s) THEN make_non_runnable(j, t)
          ELSE IF TSTAT_WAITING(s) THEN wait_dequeue_tmevtb(b, t) ELSE j
  BY DEF Detached
<1>3. \A w \in Wobj : ~Linked(n.wque[w], t)
  <2> DEFINE g == Dormant(n, t)
  <2>1. n \in KernelState /\ Fine(g, {}) /\ g.tstat[t] = {} BY Detach
  <2> HIDE DEF n
  <2>2. g.wque = n.wque BY <2>1 DEF Dormant, KernelState
  <2> HIDE DEF g
  <2>3. ~TSTAT_WAIT_WOBJ(g.tstat[t]) BY <2>1, NotWaiting
  <2> QED BY <2>1, <2>2, <2>3 DEF Fine, Waits
<1> HIDE DEF n
<1>4. Thinned(j, n) /\ \A w \in Wobj : ~Linked(j.wque[w], t) => n.wque[w] = j.wque[w]
  <2>1. CASE TSTAT_RUNNABLE(s)
    <3>1. Quiet(j, n) BY <1>1, <1>2, <2>1, QuietRunnable
    <3> QED BY <3>1, <1>1, QuietThins DEF Quiet
  <2>2. CASE ~TSTAT_RUNNABLE(s) /\ TSTAT_WAITING(s)
    <3>1. n = wait_dequeue_tmevtb(b, t) BY <1>2, <2>2
    <3>2. Thinned(j, n) BY <3>1, <1>1, ThinnedRelease
    <3>3. b = IF TSTAT_WAIT_WOBJ(s) THEN [j EXCEPT !.wque[w0] = queue_delete(@, t)] ELSE j
      BY DEF wait_dequeue_wobj
    <3>4. TSTAT_WAIT_WOBJ(s) => w0 \in Wobj /\ Linked(j.wque[w0], t)
      <4>1. TSTAT_WAIT_WOBJ(s) => w0 \in Wobj BY <1>1 DEF Waits
      <4> QED BY <4>1, <1>1 DEF Waits
    <3>5. Shaped(b) /\ \A w \in Wobj : ~Linked(j.wque[w], t) => b.wque[w] = j.wque[w]
      <4>1. CASE TSTAT_WAIT_WOBJ(s)
        <5>1. b.wque = [j.wque EXCEPT ![w0] = queue_delete(@, t)] /\ Shaped(b)
          BY <3>3, <4>1, <1>1 DEF Shaped
        <5> QED BY <5>1, <3>4, <4>1, <1>1 DEF Neat
      <4>2. CASE ~TSTAT_WAIT_WOBJ(s) BY <3>3, <4>2, <1>1
      <4> QED BY <4>1, <4>2
    <3> HIDE DEF b
    <3>6. Quiet(b, n) BY <3>1, <3>5, QuietWait
    <3> QED BY <3>2, <3>5, <3>6 DEF Quiet
  <2>3. CASE ~TSTAT_RUNNABLE(s) /\ ~TSTAT_WAITING(s)
    <3>1. n = j BY <1>2, <2>3
    <3> QED BY <3>1, <1>1, QuietSelf, QuietThins
  <2> QED BY <2>1, <2>2, <2>3
<1> QED BY <1>3, <1>4 DEF n

LEMMA DormantOwned ==
    ASSUME NEW j, NEW t \in Task, Owned(j, {}, {t}), j.lastmtx[t] = NULL,
           \A x \in Mutex : j.loctsk[x] # t /\ ~Linked(j.wque[x], t)
    PROVE  LET n == activate_context(make_dormant(j, t), t) IN
           Owned(n, {}, {}) /\ n.loctsk = j.loctsk /\ n.wque = j.wque
<1> DEFINE p == ipriority[t]
           d == make_dormant(j, t)
           n == activate_context(d, t)
<1>1. /\ Typed(j) /\ Shaped(j) /\ Chains(j, {}) /\ Waiters(j) /\ Dead(j)
      /\ \A u \in Task : Within(j, u) /\ (u \notin {t} => Best(j, u, {}))
  BY DEF Owned, Typed
<1>2. /\ Shaped(d) /\ d.lastmtx = j.lastmtx /\ d.prevmtx = j.prevmtx /\ d.loctsk = j.loctsk
      /\ d.wque = j.wque /\ d.bpriority = [j.bpriority EXCEPT ![t] = p]
      /\ d.priority = [j.priority EXCEPT ![t] = p] /\ d.tstat = [j.tstat EXCEPT ![t] = {}]
  BY <1>1 DEF make_dormant, Shaped
<1> HIDE DEF d
<1>3. /\ Shaped(n) /\ n.lastmtx = d.lastmtx /\ n.prevmtx = d.prevmtx /\ n.loctsk = d.loctsk
      /\ n.wque = d.wque /\ n.bpriority = d.bpriority /\ n.priority = d.priority
      /\ n.tstat = d.tstat
  BY <1>2 DEF activate_context, Shaped
<1> HIDE DEF n
<1>4. p \in Pri BY TaskAssumption
<1>5. /\ n.bpriority \in [Task -> Pri] /\ n.priority \in [Task -> Pri]
      /\ n.bpriority[t] = p /\ n.priority[t] = p
      /\ \A u \in Task : u # t => n.bpriority[u] = j.bpriority[u] /\ n.priority[u] = j.priority[u]
  <2>1. j.bpriority \in [Task -> Pri] /\ j.priority \in [Task -> Pri] BY <1>1 DEF Typed
  <2> HIDE DEF p
  <2> QED BY <2>1, <1>2, <1>3, <1>4
<1>6. Typed(n) BY <1>1, <1>2, <1>3, <1>5 DEF Typed, Neat
<1>7. Chains(n, {}) BY <1>1, <1>2, <1>3 DEF Chains, Owns
<1>8. Waiters(n) BY <1>1, <1>2, <1>3 DEF Waiters
<1>9. Dead(n)
  <2>1. \A u \in Task : n.tstat[u] = IF u = t THEN {} ELSE j.tstat[u]
    BY <1>1, <1>2, <1>3 DEF Shaped
  <2> QED BY <2>1, <1>1, <1>2, <1>3 DEF Dead
<1>10. TA_CEILING \subseteq Mutex BY WobjAssumption
<1> HIDE DEF p
<1>11. ASSUME NEW u \in Task PROVE Within(n, u) /\ Best(n, u, {})
  <2>1. CASE u = t
    <3>1. Within(n, t) BY <1>2, <1>3, <1>10 DEF Within
    <3>2. Bounds(n, t, {}) = {p} BY <1>2, <1>3, <1>5, <1>10 DEF Bounds
    <3>3. p <= p BY <1>4, PriNat
    <3> QED BY <3>1, <3>2, <3>3, <1>5, <2>1 DEF Best
  <2>2. CASE u # t
    <3>1. Within(n, u) BY <2>2, <1>1, <1>2, <1>3, <1>5 DEF Within
    <3>2. Bounds(n, u, {}) = Bounds(j, u, {}) BY <2>2, <1>2, <1>3, <1>5 DEF Bounds
    <3>3. Best(j, u, {}) BY <2>2, <1>1
    <3> QED BY <3>1, <3>2, <3>3, <2>2, <1>5 DEF Best
  <2> QED BY <2>1, <2>2
<1>12. Owned(n, {}, {}) BY <1>6, <1>7, <1>8, <1>9, <1>11 DEF Owned
<1>13. n.loctsk = j.loctsk /\ n.wque = j.wque BY <1>2, <1>3
<1> QED BY <1>12, <1>13 DEF n, d

\* what a step does to the owners: a mutex that changes hands is passed on
Given(j, n) == \A x \in Mutex : n.loctsk[x] # j.loctsk[x] => Passed(j, n, x)

LEMMA TerminateOwned ==
    ASSUME NEW j, Settled(j), Fine(j, {}), NEW t \in Task, j.dspflg \/ t # j.runtsk,
           Owned(j, {}, {})
    PROVE  Owned(task_terminate(j, t), {}, {}) /\ Given(j, task_terminate(j, t))
<1> DEFINE k1 == Detached(j, t)
           r  == mutex_release_all(k1, t)
           k2 == IF k1.lastmtx[t] # NULL THEN r ELSE k1
           k3 == activate_context(make_dormant(k2, t), t)
           k4 == [k3 EXCEPT !.actque[t] = FALSE]
           a  == make_active(k4, t)
<1>1. task_terminate(j, t) = IF k3.actque[t] THEN a ELSE k3
  BY DEF task_terminate, Detached
<1>2. /\ Thinned(j, k1)
      /\ \A w \in Wobj : /\ ~Linked(k1.wque[w], t)
                         /\ ~Linked(j.wque[w], t) => k1.wque[w] = j.wque[w]
  BY DetachThins
<1> HIDE DEF k1
<1>3. Mutex \subseteq Wobj BY WobjAssumption
<1>4. Owned(k1, {}, {t}) /\ k1.loctsk = j.loctsk
  <2>1. Owned(k1, {}, {}) BY <1>2, OwnedThinned
  <2> QED BY <2>1, <1>2 DEF Owned, Thinned, SameOwners
<1>5. Typed(k1) /\ Waiters(k1) BY <1>4 DEF Owned
<1>6. /\ Owned(k2, {}, {t}) /\ k2.lastmtx[t] = NULL
      /\ \A x \in Mutex : k2.loctsk[x] # t /\ Handed(k1, k2, x, t)
  <2>1. CASE k1.lastmtx[t] # NULL
    <3>1. k2 = r BY <2>1
    <3> HIDE DEF k2
    <3>2. /\ Owned(r, {}, {t}) /\ r.lastmtx[t] = NULL
          /\ \A x \in Mutex : r.loctsk[x] # t /\ Handed(k1, r, x, t)
      BY <1>4, ReleaseAllOwned
    <3> QED BY <3>1, <3>2
  <2>2. CASE k1.lastmtx[t] = NULL
    <3>1. k2 = k1 BY <2>2
    <3> HIDE DEF k2
    <3>2. PICK c : Owns(k1, t, c, {}) BY <1>4 DEF Owned, Chains
    <3>3. \A x \in Mutex : k1.loctsk[x] # t BY <3>2, <2>2, HeadHeld
    <3> QED BY <3>1, <3>3, <1>4, <2>2 DEF Handed
  <2> QED BY <2>1, <2>2
<1> HIDE DEF k2, r
<1>7. \A x \in Mutex : ~Linked(k2.wque[x], t)
  <2>1. ASSUME NEW x \in Mutex PROVE ~Linked(k2.wque[x], t)
    <3>1. ~Linked(k1.wque[x], t) BY <1>2, <1>3
    <3>2. Handed(k1, k2, x, t) BY <1>6
    <3>3. CASE k2.wque[x] = k1.wque[x] BY <3>1, <3>3
    <3>4. CASE k1.loctsk[x] = t /\ Passed(k1, k2, x) BY <3>1, <3>4, <1>5, PassedAway
    <3> QED BY <3>2, <3>3, <3>4 DEF Handed
  <2> QED BY <2>1
<1>8. Owned(k3, {}, {}) /\ k3.loctsk = k2.loctsk /\ k3.wque = k2.wque
  <2>1. \A x \in Mutex : k2.loctsk[x] # t /\ ~Linked(k2.wque[x], t) BY <1>6, <1>7
  <2> QED BY <2>1, <1>6, DormantOwned
<1> HIDE DEF k3
<1>9. Given(j, k3)
  <2>1. ASSUME NEW x \in Mutex, k3.loctsk[x] # j.loctsk[x] PROVE Passed(j, k3, x)
    <3>1. Handed(k1, k2, x, t) BY <1>6
    <3>2. k1.loctsk[x] = t /\ Passed(k1, k2, x) BY <3>1, <2>1, <1>4, <1>8 DEF Handed
    <3>3. ~Linked(j.wque[x], t) BY <3>2, <1>4 DEF Owned, Waiters
    <3>4. k1.wque[x] = j.wque[x] BY <3>3, <1>2, <1>3
    <3> QED BY <3>2, <3>4, <1>8 DEF Passed
  <2> QED BY <2>1 DEF Given
<1>10. Quiet(k3, k4) BY <1>8, QuietFields DEF Owned, Typed
<1> HIDE DEF k4
<1>11. Quiet(k4, a)
  <2>1. Shaped(k4) BY <1>10 DEF Quiet
  <2> QED BY <2>1, QuietActive
<1> HIDE DEF a
<1>12. Quiet(k3, a) BY <1>10, <1>11, QuietAgain
<1>13. Owned(a, {}, {}) BY <1>8, <1>12, OwnedQuiet
<1>14. Given(j, a) BY <1>9, <1>12 DEF Given, Passed, Quiet, SameOwners
<1> QED BY <1>1, <1>8, <1>9, <1>13, <1>14

(* chg_pri: the new base priority is not above a ceiling that matters.     *)
Allowed(j, t, p) ==
    \A m \in TA_CEILING : j.loctsk[m] = t \/ Linked(j.wque[m], t) => ceilpri[m] <= p

LEMMA AllowedPriority ==
    ASSUME NEW j, Settled(j), Waits(j, {}), Owned(j, {}, {}), NEW t \in Task, NEW p,
           j.lastmtx[t] # NULL \/ TSTAT_WAIT_MTX(j.tstat[t]) => mutex_check_ceilpri(j, t, p)
    PROVE  Allowed(j, t, p)
<1>1. Chains(j, {}) BY DEF Owned
<1>2. PICK c : Owns(j, t, c, {}) BY <1>1 DEF Chains
<1>3. TA_CEILING \subseteq Mutex /\ Mutex \subseteq Wobj BY WobjAssumption
<1>4. ASSUME NEW m \in TA_CEILING, j.loctsk[m] = t PROVE ceilpri[m] <= p
  <2>1. j.lastmtx[t] # NULL BY <1>2, <1>3, <1>4, HeadHeld
  <2>2. \A q \in CeilingsOf(j, t) : q <= p BY <2>1 DEF mutex_check_ceilpri
  <2>3. CeilingsOf(j, t) = {ceilpri[x] : x \in {y \in TA_CEILING : y \notin {} /\ j.loctsk[y] = t}}
    BY <1>1, ChainHeld
  <2> QED BY <2>2, <2>3, <1>4
<1>5. ASSUME NEW m \in TA_CEILING, Linked(j.wque[m], t) PROVE ceilpri[m] <= p
  <2>1. m \in Mutex /\ m \in Wobj BY <1>3
  <2>2. TSTAT_WAIT_WOBJ(j.tstat[t]) /\ j.wobj[t] = m /\ wfactor[m] \in j.tstat[t]
    BY <2>1, <1>5 DEF Waits
  <2>3. "MTX" \in j.tstat[t] BY <2>1, <2>2, WobjAssumption
  <2>4. j.tstat[t] \in TaskStates BY StateOf
  <2>5. j.tstat[t] \ {TS_SUSPENDED} = {"MTX"}
    <3>1. "MTX" # TS_RUNNABLE /\ "MTX" # TS_SUSPENDED BY DEF TS_RUNNABLE, TS_SUSPENDED
    <3>2. PICK f \in WaitFactor : j.tstat[t] = {f} \/ j.tstat[t] = {f, TS_SUSPENDED}
      BY <2>3, <2>4, <3>1 DEF TaskStates
    <3>3. f = "MTX" BY <2>3, <3>1, <3>2
    <3> QED BY <3>1, <3>2, <3>3
  <2>6. TSTAT_WAIT_MTX(j.tstat[t]) BY <2>5 DEF TSTAT_WAIT_MTX
  <2> QED BY <2>2, <2>6 DEF mutex_check_ceilpri, MTX_CEILING
<1> QED BY <1>4, <1>5 DEF Allowed

LEMMA BaseOwned ==
    ASSUME NEW j, j \in KernelState, Owned(j, {}, {}), NEW t \in Task, NEW p \in Pri,
           Allowed(j, t, p)
    PROVE  LET n == [j EXCEPT !.bpriority[t] = p] IN
           /\ n \in KernelState /\ Shaped(n) /\ n.wque = j.wque /\ n.loctsk = j.loctsk
           /\ n.tstat = j.tstat /\ n.wobj = j.wobj /\ n.priority = j.priority
           /\ Owned(n, {}, {t}) /\ n.bpriority[t] = p
<1> DEFINE n == [j EXCEPT !.bpriority[t] = p]
<1>1. /\ Typed(j) /\ Chains(j, {}) /\ Waiters(j) /\ Dead(j)
      /\ \A u \in Task : Within(j, u) /\ Best(j, u, {})
  BY DEF Owned
<1>2. n \in KernelState BY DEF KernelState
<1>3. Shaped(n) BY <1>2, ShapedState
<1>4. /\ n.lastmtx = j.lastmtx /\ n.prevmtx = j.prevmtx /\ n.loctsk = j.loctsk
      /\ n.wque = j.wque /\ n.priority = j.priority /\ n.tstat = j.tstat /\ n.wobj = j.wobj
      /\ n.bpriority = [j.bpriority EXCEPT ![t] = p]
  BY DEF KernelState
<1> HIDE DEF n
<1>5. /\ n.bpriority \in [Task -> Pri] /\ n.bpriority[t] = p
      /\ \A u \in Task : u # t => n.bpriority[u] = j.bpriority[u]
  BY <1>1, <1>4 DEF Typed
<1>6. Typed(n) BY <1>1, <1>3, <1>4, <1>5 DEF Typed, Neat
<1>7. Chains(n, {}) BY <1>1, <1>4 DEF Chains, Owns
<1>8. Waiters(n) /\ Dead(n) BY <1>1, <1>4 DEF Waiters, Dead
<1>9. ASSUME NEW u \in Task PROVE Within(n, u) /\ (u \notin {t} => Best(n, u, {}))
  <2>1. CASE u = t BY <2>1, <1>4, <1>5 DEF Allowed, Within
  <2>2. CASE u # t
    <3>1. Within(n, u) BY <2>2, <1>1, <1>4, <1>5 DEF Within
    <3>2. Bounds(n, u, {}) = Bounds(j, u, {}) BY <2>2, <1>4, <1>5 DEF Bounds
    <3> QED BY <3>1, <3>2, <1>1, <1>4 DEF Best
  <2> QED BY <2>1, <2>2
<1>10. Owned(n, {}, {t}) BY <1>6, <1>7, <1>8, <1>9 DEF Owned
<1> QED BY <1>2, <1>3, <1>4, <1>5, <1>10 DEF n

LEMMA ChgPriOwned ==
    ASSUME Inv(k), Owned(k, {}, {}), NEW t \in Task, NEW p \in Pri, chg_pri(t, p)
    PROVE  Owned(k', {}, {}) /\ Given(k, k')
<1> DEFINE k1 == [k EXCEPT !.bpriority[t] = p]
           c  == change_priority(k1, t, p, FALSE)
<1>1. Settled(k) /\ Waits(k, {}) /\ k \in KernelState
  BY DEF Inv, Settled, Ready, Core, Fine
<1>2. k' = IF k.lastmtx[t] # NULL /\ mutex_scan_ceilmtx(k, t) THEN k1 ELSE dispatch(c)
  BY DEF chg_pri
<1>3. Allowed(k, t, p) BY <1>1, AllowedPriority DEF chg_pri
<1>4. /\ k1 \in KernelState /\ Shaped(k1) /\ k1.wque = k.wque /\ k1.loctsk = k.loctsk
      /\ k1.tstat = k.tstat /\ k1.wobj = k.wobj /\ k1.priority = k.priority
      /\ Owned(k1, {}, {t}) /\ k1.bpriority[t] = p
  BY <1>1, <1>3, BaseOwned
<1> HIDE DEF k1
<1>5. TA_CEILING \subseteq Mutex /\ Mutex \subseteq Wobj BY WobjAssumption
<1>6. Chains(k, {}) /\ Best(k, t, {}) /\ Within(k, t) BY DEF Owned
<1>7. CeilingsOf(k, t) = {ceilpri[m] : m \in {x \in TA_CEILING : x \notin {} /\ k.loctsk[x] = t}}
  BY <1>6, ChainHeld
<1>8. k.bpriority[t] \in Pri /\ k.priority[t] \in Pri /\ \A m \in TA_CEILING : ceilpri[m] \in Pri
  BY <1>1, WobjAssumption DEF KernelState
<1>9. CASE k.lastmtx[t] # NULL /\ mutex_scan_ceilmtx(k, t)
  <2>1. k' = k1 BY <1>2, <1>9
  <2>2. PICK m \in TA_CEILING : k.loctsk[m] = t BY <1>7, <1>9 DEF mutex_scan_ceilmtx
  <2>3. ceilpri[m] <= k.bpriority[t] BY <2>2, <1>6 DEF Within
  <2>4. k.priority[t] <= ceilpri[m] BY <2>2, <1>6 DEF Best, Bounds
  <2>5. \E x \in TA_CEILING : k.loctsk[x] = t /\ k.priority[t] = ceilpri[x]
    <3>1. CASE k.priority[t] = k.bpriority[t]
      <4>1. ceilpri[m] \in Int /\ k.bpriority[t] \in Int BY <1>8, PriNat
      <4>2. k.priority[t] = ceilpri[m] BY <2>3, <2>4, <3>1, <4>1
      <4> QED BY <4>2, <2>2
    <3>2. CASE k.priority[t] # k.bpriority[t] BY <3>2, <1>6 DEF Best, Bounds
    <3> QED BY <3>1, <3>2
  <2>6. PICK x \in TA_CEILING : k.loctsk[x] = t /\ k.priority[t] = ceilpri[x] BY <2>5
  <2>7. k.priority[t] <= p BY <2>6, <1>3 DEF Allowed
  <2>8. \A y \in TA_CEILING : k.loctsk[y] = t => k.priority[t] <= ceilpri[y]
    BY <1>6 DEF Best, Bounds
  <2>9. Best(k1, t, {}) BY <2>6, <2>7, <2>8, <1>4 DEF Best, Bounds
  <2>10. Owned(k1, {}, {}) BY <2>9, <1>4 DEF Owned
  <2>11. Given(k, k1) BY <1>4 DEF Given
  <2> QED BY <2>1, <2>10, <2>11
<1>10. CASE ~(k.lastmtx[t] # NULL /\ mutex_scan_ceilmtx(k, t))
  <2>1. k' = dispatch(c) BY <1>2, <1>10
  <2>2. \A x \in TA_CEILING : k.loctsk[x] # t
    <3>1. ASSUME NEW x \in TA_CEILING, k.loctsk[x] = t PROVE FALSE
      <4>1. PICK d : Owns(k, t, d, {}) BY <1>6 DEF Chains
      <4>2. k.lastmtx[t] # NULL BY <4>1, <3>1, <1>5, HeadHeld
      <4>3. ceilpri[x] \in CeilingsOf(k, t) BY <1>7, <3>1
      <4> QED BY <4>2, <4>3, <1>10 DEF mutex_scan_ceilmtx
    <3> QED BY <3>1
  <2>3. Bounds(k1, t, {}) = {p} BY <2>2, <1>4 DEF Bounds
  <2>4. p <= p BY PriNat
  <2>5. p \in Bounds(k1, t, {}) /\ \A q \in Bounds(k1, t, {}) : p <= q BY <2>3, <2>4
  <2>6. Waits(k1, {}) BY <1>1, <1>4, WaitsFrame
  <2>7. Shifted(k1, c, t) /\ Owned(c, {}, {t} \ {t}) BY <2>5, <2>6, <1>4, ChangeOwned
  <2>8. {t} \ {t} = {} OBVIOUS
  <2>9. Owned(c, {}, {}) BY <2>7, <2>8
  <2> HIDE DEF c
  <2>10. Quiet(c, dispatch(c)) BY <2>7, QuietDispatch DEF Shifted
  <2>11. Owned(dispatch(c), {}, {}) BY <2>9, <2>10, OwnedQuiet
  <2>12. k'.loctsk = k.loctsk BY <2>1, <2>7, <2>10, <1>4 DEF Shifted, Quiet, SameOwners
  <2> QED BY <2>1, <2>11, <2>12 DEF Given
<1> QED BY <1>9, <1>10

(* The steps of the tasks.                                                 *)
LEMMA GivenSame ==
    ASSUME NEW j, NEW n, Thinned(j, n)
    PROVE  Given(j, n)
BY DEF Given, Thinned, SameOwners

LEMMA TaskStepOwned ==
    ASSUME Inv(k), Owned(k, {}, {}), TaskNext
    PROVE  Owned(k', {}, {}) /\ Given(k, k')
<1>1. CASE Thinned(k, k') BY <1>1, OwnedThinned, GivenSame
<1>2. ASSUME NEW t \in Task, Ending(t) PROVE Owned(k', {}, {}) /\ Given(k, k')
  <2>1. PICK i : /\ Settled(i) /\ Fine(i, {}) /\ (i.dspflg \/ t # i.runtsk) /\ Quiet(k, i)
                 /\ \/ k' = dispatch(task_terminate(i, t))
                    \/ k' = dispatcher(task_terminate(i, t))
    BY <1>2 DEF Ending
  <2> DEFINE r == task_terminate(i, t)
  <2>2. Owned(i, {}, {}) BY <2>1, OwnedQuiet
  <2>3. Owned(r, {}, {}) /\ Given(i, r) BY <2>1, <2>2, TerminateOwned
  <2>4. k' = dispatch(r) \/ k' = dispatcher(r) BY <2>1
  <2> HIDE DEF r
  <2>5. Shaped(r) BY <2>3 DEF Owned, Typed
  <2>6. Quiet(r, k') BY <2>4, <2>5, QuietDispatch
  <2>7. Owned(k', {}, {}) BY <2>3, <2>6, OwnedQuiet
  <2>8. Given(k, k') BY <2>1, <2>3, <2>6 DEF Given, Passed, Quiet, SameOwners
  <2> QED BY <2>7, <2>8
<1>3. ASSUME NEW t \in Task, NEW p \in Pri, chg_pri(t, p) PROVE Owned(k', {}, {}) /\ Given(k, k')
  BY <1>3, ChgPriOwned
<1> QED BY <1>1, <1>2, <1>3, StepCases

(* The calls of mutex.c. A free mutex is given to the caller, another is   *)
(* passed on or nobody waits for it.                                       *)
HandsOver(j, n) ==
    \A x \in Mutex : n.loctsk[x] # j.loctsk[x] =>
        \/ j.loctsk[x] = NULL /\ n.loctsk[x] = j.runtsk
        \/ n.loctsk[x] = NULL /\ n.wque[x] = << >>
        \/ Passed(j, n, x)

LEMMA PushOwned ==
    ASSUME NEW j, j \in KernelState, Owned(j, {}, {}), NEW t \in Task, j.tstat[t] # {},
           NEW m \in Mutex, j.loctsk[m] = NULL,
           m \in TA_CEILING => ceilpri[m] <= j.bpriority[t]
    PROVE  LET n == chain_push(j, t, m) IN
           /\ Owned(n, {}, {t}) /\ Bounds(n, t, {}) = Bounds(j, t, {}) \cup Ceiling(m)
           /\ n.priority = j.priority /\ n.loctsk = [j.loctsk EXCEPT ![m] = t]
<1> DEFINE n == chain_push(j, t, m)
<1>1. /\ Typed(j) /\ Chains(j, {}) /\ Waiters(j) /\ Dead(j)
      /\ \A u \in Task : Within(j, u) /\ Best(j, u, {})
  BY DEF Owned
<1>2. /\ n \in KernelState /\ SameButChains(j, n)
      /\ n.loctsk = [j.loctsk EXCEPT ![m] = t]
      /\ n.prevmtx = [j.prevmtx EXCEPT ![m] = j.lastmtx[t]]
      /\ n.lastmtx = [j.lastmtx EXCEPT ![t] = m]
  BY PushFields
<1> HIDE DEF n
<1>3. /\ n.tstat = j.tstat /\ n.bpriority = j.bpriority /\ n.priority = j.priority
      /\ n.wque = j.wque
  BY <1>2 DEF SameButChains
<1>4. /\ n.loctsk[m] = t /\ \A x \in Mutex : x # m => n.loctsk[x] = j.loctsk[x]
      /\ n.lastmtx[t] = m /\ \A u \in Task : u # t => n.lastmtx[u] = j.lastmtx[u]
      /\ \A x \in Mutex : x # m => n.prevmtx[x] = j.prevmtx[x]
  BY <1>1, <1>2 DEF Typed
<1>5. t # NULL BY NullNotTask
<1>6. Typed(n)
  <2>1. Shaped(n) BY <1>2, ShapedState
  <2>2. Neat(n) BY <1>1, <1>3 DEF Typed, Neat
  <2> QED BY <2>1, <2>2, <1>2 DEF Typed, KernelState
<1>7. ASSUME NEW u \in Task PROVE \E c : Owns(n, u, c, {})
  <2>1. PICK c : Owns(j, u, c, {}) BY <1>1 DEF Chains
  <2>2. /\ IsChain(j.lastmtx[u], j.prevmtx, c)
        /\ \A x \in Mutex : Linked(c, x) <=> j.loctsk[x] = u
    BY <2>1 DEF Owns
  <2>3. ~Linked(c, m) BY <2>2, NullNotTask
  <2>4. CASE u = t
    <3>1. j.prevmtx \in [Mutex -> Mutex \cup {NULL}] BY <1>1 DEF Typed
    <3>2. /\ IsChain(m, [j.prevmtx EXCEPT ![m] = j.lastmtx[u]], <<m>> \o c)
          /\ \A x : Linked(<<m>> \o c, x) <=> Linked(c, x) \/ x = m
      BY <3>1, <2>2, <2>3, ChainPush
    <3>3. IsChain(n.lastmtx[u], n.prevmtx, <<m>> \o c) BY <3>2, <2>4, <1>2, <1>4
    <3>4. \A x \in Mutex : Linked(<<m>> \o c, x) <=> n.loctsk[x] = u
      BY <3>2, <2>2, <2>4, <1>4
    <3>5. Owns(n, u, <<m>> \o c, {}) BY <3>3, <3>4 DEF Owns
    <3> QED BY <3>5
  <2>5. CASE u # t
    <3>1. \A x \in Mutex : Linked(c, x) => n.prevmtx[x] = j.prevmtx[x] BY <2>3, <1>4
    <3>2. IsChain(j.lastmtx[u], n.prevmtx, c) BY <3>1, <2>2, ChainFrame
    <3>3. \A x \in Mutex : Linked(c, x) <=> n.loctsk[x] = u BY <2>2, <2>3, <2>5, <1>4
    <3>4. Owns(n, u, c, {}) BY <3>2, <3>3, <2>5, <1>4 DEF Owns
    <3> QED BY <3>4
  <2> QED BY <2>4, <2>5
<1>8. Waiters(n) BY <1>1, <1>3, <1>4 DEF Waiters
<1>9. Dead(n) BY <1>1, <1>3, <1>4 DEF Dead
<1>10. TA_CEILING \subseteq Mutex BY WobjAssumption
<1>11. ASSUME NEW u \in Task PROVE Within(n, u) /\ (u \notin {t} => Best(n, u, {}))
  <2>1. Within(n, u)
    <3>1. ASSUME NEW x \in TA_CEILING, n.loctsk[x] = u \/ Linked(n.wque[x], u)
          PROVE  ceilpri[x] <= n.bpriority[u]
      <4>1. CASE x = m /\ u = t BY <4>1, <1>3
      <4>2. CASE x = m /\ u # t
        <5>1. Linked(j.wque[m], u) BY <4>2, <3>1, <1>3, <1>4
        <5> QED BY <5>1, <1>1, <1>10 DEF Waiters
      <4>3. CASE x # m
        <5>1. j.loctsk[x] = u \/ Linked(j.wque[x], u) BY <4>3, <3>1, <1>3, <1>4, <1>10
        <5> QED BY <5>1, <1>1, <1>3 DEF Within
      <4> QED BY <4>1, <4>2, <4>3
    <3> QED BY <3>1 DEF Within
  <2>2. u # t => \A x \in TA_CEILING : n.loctsk[x] = u <=> j.loctsk[x] = u
    BY <1>4, <1>10, NullNotTask
  <2>3. u # t => Bounds(n, u, {}) = Bounds(j, u, {}) BY <2>2, <1>3 DEF Bounds
  <2>4. u \notin {t} => Best(n, u, {}) BY <2>3, <1>1, <1>3 DEF Best
  <2> QED BY <2>1, <2>4
<1>12. Owned(n, {}, {t}) BY <1>6, <1>7, <1>8, <1>9, <1>11 DEF Owned, Chains
<1>13. Bounds(n, t, {}) = Bounds(j, t, {}) \cup Ceiling(m)
  <2>1. \A x \in TA_CEILING : n.loctsk[x] = t <=> j.loctsk[x] = t \/ x = m
    BY <1>4, <1>10
  <2>2. {x \in TA_CEILING : x \notin {} /\ n.loctsk[x] = t}
          = {x \in TA_CEILING : x \notin {} /\ j.loctsk[x] = t} \cup ({m} \cap TA_CEILING)
    BY <2>1
  <2> QED BY <2>2, <1>3 DEF Bounds, Ceiling
<1> QED BY <1>2, <1>3, <1>12, <1>13 DEF n

LEMMA AcquireOwned ==
    ASSUME NEW j, Settled(j), Fine(j, {}), Owned(j, {}, {}), NEW t \in Task, j.tstat[t] # {},
           NEW m \in Mutex, j.loctsk[m] = NULL,
           m \in TA_CEILING => ceilpri[m] <= j.bpriority[t]
    PROVE  LET n == mutex_acquire(j, t, m) IN
           Owned(n, {}, {}) /\ n.loctsk = [j.loctsk EXCEPT ![m] = t]
<1> DEFINE p == chain_push(j, t, m)
           c == change_priority(p, t, ceilpri[m], TRUE)
           n == mutex_acquire(j, t, m)
<1>1. j \in KernelState /\ Best(j, t, {}) BY DEF Settled, Ready, Core, Owned
<1>2. /\ Owned(p, {}, {t}) /\ Bounds(p, t, {}) = Bounds(j, t, {}) \cup Ceiling(m)
      /\ p.priority = j.priority /\ p.loctsk = [j.loctsk EXCEPT ![m] = t]
  BY <1>1, PushOwned
<1>3. p \in KernelState /\ SameButChains(j, p) BY <1>1, PushFields
<1>4. Fine(p, {}) BY <1>3, KeepsChains DEF Keeps
<1>5. n = IF MTX_CEILING(m) /\ ceilpri[m] < j.priority[t] THEN c ELSE p BY DEF mutex_acquire
<1>6. j.priority[t] \in Int /\ (m \in TA_CEILING => ceilpri[m] \in Int)
      /\ \A b \in Bounds(j, t, {}) : b \in Int
  <2>1. \A x \in TA_CEILING : ceilpri[x] \in Pri BY WobjAssumption
  <2>2. j.priority[t] \in Pri /\ j.bpriority[t] \in Pri BY <1>1 DEF KernelState
  <2>3. Bounds(j, t, {}) \subseteq Pri BY <2>1, <2>2 DEF Bounds
  <2> QED BY <2>1, <2>2, <2>3, PriNat
<1> HIDE DEF p, n
<1>7. CASE MTX_CEILING(m) /\ ceilpri[m] < j.priority[t]
  <2>1. n = c /\ m \in TA_CEILING BY <1>5, <1>7 DEF MTX_CEILING
  <2>2. Ceiling(m) = {ceilpri[m]} BY <2>1 DEF Ceiling
  <2>3. ceilpri[m] \in Bounds(p, t, {}) BY <2>2, <1>2
  <2>4. ASSUME NEW b \in Bounds(p, t, {}) PROVE ceilpri[m] <= b
    <3>1. CASE b \in Bounds(j, t, {})
      <4>1. j.priority[t] <= b BY <3>1, <1>1 DEF Best
      <4> QED BY <4>1, <3>1, <2>1, <1>6, <1>7
    <3>2. CASE b = ceilpri[m] BY <3>2, <2>1, <1>6
    <3> QED BY <3>1, <3>2, <2>2, <1>2
  <2>5. Waits(p, {}) BY <1>4 DEF Fine
  <2>6. Shifted(p, c, t) /\ Owned(c, {}, {t} \ {t}) BY <2>3, <2>4, <2>5, <1>2, <1>3, ChangeOwned
  <2>7. {t} \ {t} = {} OBVIOUS
  <2> HIDE DEF c
  <2>8. Owned(c, {}, {}) BY <2>6, <2>7
  <2>9. c.loctsk = p.loctsk BY <2>6 DEF Shifted
  <2> QED BY <2>1, <2>8, <2>9, <1>2 DEF n
<1>8. CASE ~(MTX_CEILING(m) /\ ceilpri[m] < j.priority[t])
  <2>1. n = p BY <1>5, <1>8
  <2>2. \A b \in Ceiling(m) : j.priority[t] <= b BY <1>6, <1>8 DEF Ceiling, MTX_CEILING
  <2>3. Best(p, t, {}) BY <2>2, <1>1, <1>2 DEF Best
  <2>4. Owned(p, {}, {}) BY <2>3, <1>2 DEF Owned
  <2> QED BY <2>1, <2>4, <1>2 DEF n
<1> QED BY <1>7, <1>8

LEMMA LockOwned ==
    ASSUME Inv(k), Owned(k, {}, {}), CHECK_TSKCTX_UNL, NEW m \in Mutex, within_ceiling(m),
           lock_free(m)
    PROVE  Owned(k', {}, {}) /\ HandsOver(k, k')
<1>1. k.runtsk \in Task /\ Settled(k) /\ Fine(k, {}) /\ k.runtsk \in Runnable(k)
  BY InvCaller, Known, NullNotTask
<1>2. k.tstat[k.runtsk] # {} BY <1>1 DEF Runnable
<1>3. k' = mutex_acquire(k, k.runtsk, m) BY LockFree
<1>4. k.loctsk[m] = NULL /\ (m \in TA_CEILING => ceilpri[m] <= k.bpriority[k.runtsk])
  BY DEF lock_free, within_ceiling, MTX_CEILING
<1>5. Owned(k', {}, {}) /\ k'.loctsk = [k.loctsk EXCEPT ![m] = k.runtsk]
  BY <1>1, <1>2, <1>3, <1>4, AcquireOwned
<1>6. k.loctsk \in [Mutex -> Task \cup {NULL}] BY DEF Owned, Typed
<1>7. HandsOver(k, k') BY <1>4, <1>5, <1>6 DEF HandsOver
<1> QED BY <1>5, <1>7

(* The mutex of another task: the caller joins its queue.                  *)
LEMMA JoinSame ==
    ASSUME NEW j, Shaped(j), NEW w
    PROVE  LET a == wobj_make_wait(j, w)
               b == wobj_make_wait_tmout(j, w)
           IN  /\ Shaped(dispatch(a)) /\ SameOwners(j, dispatch(a))
               /\ Shaped(dispatch(b)) /\ SameOwners(j, dispatch(b))
<1>1. ASSUME NEW i, Quiet(j, i), NEW v
      PROVE  LET n == [wobj_queue_insert(i, w) EXCEPT !.wobj[v] = w] IN
             Shaped(dispatch(n)) /\ SameOwners(j, dispatch(n))
  <2> DEFINE q == wobj_queue_insert(i, w)
             n == [q EXCEPT !.wobj[v] = w]
             x == IF w \in TA_TPRI THEN queue_insert_tpri(i.wque[w], i.runtsk, i.priority)
                  ELSE queue_insert_prev(i.wque[w], i.runtsk)
  <2>1. Shaped(i) /\ SameOwners(j, i) BY <1>1 DEF Quiet
  <2>2. q = [i EXCEPT !.wque[w] = x] BY DEF wobj_queue_insert
  <2> HIDE DEF x, q
  <2>3. Shaped(q) /\ SameOwners(i, q) BY <2>1, <2>2 DEF Shaped, SameOwners
  <2>4. Quiet(q, n) BY <2>3, QuietFields
  <2> HIDE DEF n
  <2>5. Quiet(n, dispatch(n)) BY <2>4, QuietDispatch DEF Quiet
  <2>6. Shaped(dispatch(n)) /\ SameOwners(j, dispatch(n))
    BY <2>1, <2>3, <2>4, <2>5 DEF SameOwners, Quiet
  <2> QED BY <2>6 DEF n, q
<1>2. Quiet(j, make_wait(j)) /\ Quiet(j, make_wait_tmout(j, "wait_tmout")) BY QuietWait
<1>3. /\ wobj_make_wait(j, w)
           = [wobj_queue_insert(make_wait(j), w) EXCEPT !.wobj[j.runtsk] = w]
      /\ wobj_make_wait_tmout(j, w)
           = [wobj_queue_insert(make_wait_tmout(j, "wait_tmout"), w) EXCEPT !.wobj[j.runtsk] = w]
  BY DEF wobj_make_wait, wobj_make_wait_tmout
<1> QED BY <1>1, <1>2, <1>3

LEMMA ContendOwned ==
    ASSUME Inv(k), Owned(k, {}, {}), NEW m \in Mutex, loc_mtx(m) \/ tloc_mtx(m),
           ~lock_free(m)
    PROVE  Owned(k', {}, {}) /\ HandsOver(k, k')
<1> DEFINE t == k.runtsk
           j == waiting_for("MTX")
<1>1. /\ MayWait /\ within_ceiling(m) /\ contended(m)
      /\ \/ k' = dispatch(wobj_make_wait(j, m))
         \/ k' = dispatch(wobj_make_wait_tmout(j, m))
  BY LockCall
<1>2. m \in Wobj /\ wfactor[m] = "MTX" /\ Mutex \subseteq Wobj /\ TA_CEILING \subseteq Mutex
  BY WobjAssumption
<1>3. t \in Task BY <1>1, InvCaller
<1>4. Inv(k)' /\ Joins(k, k', m, t) BY <1>1, <1>2, InvWaitCalls
<1>5. /\ Typed(k) /\ Chains(k, {}) /\ Waiters(k) /\ Dead(k)
      /\ \A u \in Task : Within(k, u) /\ Best(k, u, {})
  BY DEF Owned
<1>6. Quiet(k, j)
  <2>1. {"MTX"} # {} OBVIOUS
  <2>2. Shaped(k) BY <1>5 DEF Typed
  <2> QED BY <2>1, <2>2, QuietTstat DEF waiting_for
<1> HIDE DEF j
<1>7. Shaped(k') /\ SameOwners(j, k')
  <2>1. Shaped(j) BY <1>6 DEF Quiet
  <2> QED BY <2>1, <1>1, JoinSame
<1>8. /\ k'.lastmtx = k.lastmtx /\ k'.prevmtx = k.prevmtx /\ k'.loctsk = k.loctsk
      /\ k'.bpriority = k.bpriority /\ k'.priority = k.priority
      /\ \A u \in Task : k'.tstat[u] = {} => k.tstat[u] = {}
  BY <1>6, <1>7 DEF Quiet, SameOwners
<1>9. Neat(k')
  <2>1. k' \in KernelState /\ Waits(k', {}) BY <1>4 DEF Inv, Settled, Ready, Core, Fine
  <2> QED BY <2>1, NeatWaits
<1>10. Typed(k') BY <1>5, <1>7, <1>8, <1>9 DEF Typed
<1>11. Chains(k', {}) BY <1>5, <1>8 DEF Chains, Owns
<1>12. \A x \in Mutex, u \in Task :
         Linked(k'.wque[x], u) => Linked(k.wque[x], u) \/ (x = m /\ u = t)
  BY <1>2, <1>4 DEF Joins
<1>13. Waiters(k')
  <2>1. k.loctsk[m] \notin {NULL, t} BY <1>1 DEF contended
  <2> QED BY <2>1, <1>5, <1>8, <1>12 DEF Waiters
<1>14. Dead(k') BY <1>5, <1>8 DEF Dead
<1>15. ASSUME NEW u \in Task PROVE Within(k', u) /\ Best(k', u, {})
  <2>1. m \in TA_CEILING => ceilpri[m] <= k.bpriority[t]
    BY <1>1 DEF within_ceiling, MTX_CEILING
  <2>2. Within(k', u) BY <2>1, <1>2, <1>5, <1>8, <1>12 DEF Within
  <2>3. Bounds(k', u, {}) = Bounds(k, u, {}) BY <1>8 DEF Bounds
  <2> QED BY <2>2, <2>3, <1>5, <1>8 DEF Best
<1>16. Owned(k', {}, {}) BY <1>10, <1>11, <1>13, <1>14, <1>15 DEF Owned
<1> QED BY <1>8, <1>16 DEF HandsOver

(* unl_mtx.                                                                *)
LEMMA UnlockOwned ==
    ASSUME NEW j, Settled(j), Fine(j, {}), Owned(j, {}, {}), NEW t \in Task,
           NEW m \in Mutex, m = j.lastmtx[t]
    PROVE  Owned(Unlocked(j, t, m), {}, {}) /\ Given(j, Unlocked(j, t, m))
<1> DEFINE a == Popped(j, t, m)
           b == mutex_drop_priority(a, t, m)
           n == mutex_release(b, m)
<1>1. j \in KernelState /\ Best(j, t, {}) /\ Waiters(j) BY DEF Settled, Ready, Core, Owned
<1>2. a \in KernelState /\ SameButChains(j, a) BY <1>1, PopFields
<1>3. Waits(a, {}) BY <1>2, KeepsChains DEF Keeps, Fine
<1>4. TakenOff(j, a, t, m, {})
  <2>1. m # NULL BY NullNotMutex
  <2> QED BY <2>1, PopOwned
<1> HIDE DEF a
<1>5. /\ Owned(a, {m}, {} \cup {t}) /\ j.loctsk[m] = t /\ a.loctsk = j.loctsk /\ a.wque = j.wque
      /\ a.bpriority = j.bpriority /\ a.priority = j.priority
  BY <1>4 DEF TakenOff
<1>6. Owned(a, {m}, {t})
  <2>1. {} \cup {t} = {t} OBVIOUS
  <2> QED BY <2>1, <1>5
<1>7. Bounds(j, t, {}) = Bounds(a, t, {m}) \cup Ceiling(m)
  <2>1. {x \in TA_CEILING : x \notin {} /\ j.loctsk[x] = t}
          = {x \in TA_CEILING : x \notin {m} /\ a.loctsk[x] = t} \cup ({m} \cap TA_CEILING)
    BY <1>5
  <2> QED BY <2>1, <1>5 DEF Bounds, Ceiling
<1>8. Shifted(a, b, t) /\ Owned(b, {m}, {})
  <2>1. a.priority[t] \in Bounds(a, t, {m}) \cup Ceiling(m)
    BY <1>1, <1>5, <1>7 DEF Best
  <2>2. \A p \in Bounds(a, t, {m}) \cup Ceiling(m) : a.priority[t] <= p
    BY <1>1, <1>5, <1>7 DEF Best
  <2> QED BY <2>1, <2>2, <1>2, <1>3, <1>6, DropOwned
<1> HIDE DEF b
<1>9. b.loctsk = j.loctsk /\ b.wque[m] = j.wque[m]
  <2>1. ~Linked(j.wque[m], t) BY <1>1, <1>5 DEF Waiters
  <2>2. m \in Wobj BY WobjAssumption
  <2> QED BY <2>1, <2>2, <1>5, <1>8 DEF Shifted
<1>10. /\ Owned(n, {}, {}) /\ Passed(b, n, m)
       /\ \A x \in Mutex : x # m => n.loctsk[x] = b.loctsk[x]
  <2>1. b.loctsk[m] # NULL BY <1>5, <1>9, NullNotTask
  <2>2. {} \subseteq {b.loctsk[m]} OBVIOUS
  <2>3. Owned(b, {m}, {}) BY <1>8
  <2>4. /\ Owned(mutex_release(b, m), {}, {}) /\ Passed(b, mutex_release(b, m), m)
        /\ \A x \in Mutex : x # m =>
             /\ mutex_release(b, m).loctsk[x] = b.loctsk[x]
             /\ mutex_release(b, m).wque[x] = b.wque[x]
    BY <2>1, <2>2, <2>3, ReleaseOwned
  <2> QED BY <2>4
<1> HIDE DEF n
<1>11. Given(j, n) BY <1>9, <1>10 DEF Given, Passed
<1> QED BY <1>10, <1>11 DEF n, b, a, Unlocked

LEMMA LeaveOwned ==
    ASSUME NEW n, Owned(n, {}, {}), NEW j, HandsOver(j, n)
    PROVE  Owned(dispatch(n), {}, {}) /\ HandsOver(j, dispatch(n))
<1>1. Quiet(n, dispatch(n)) BY QuietDispatch DEF Owned, Typed
<1>2. Owned(dispatch(n), {}, {}) BY <1>1, OwnedQuiet
<1>3. HandsOver(j, dispatch(n)) BY <1>1 DEF HandsOver, Passed, Quiet, SameOwners
<1> QED BY <1>2, <1>3

(* ini_mtx. Everyone who waits leaves the queue of the mutex, ...          *)
LEMMA FirstThins ==
    ASSUME NEW j, NEW w \in Wobj, NEW i \in Released(j, w), i.wque[w] # << >>
    PROVE  SameOwners(i, DeleteFirst(i, w))
<1> DEFINE t == Head(i.wque[w])
           a == [i EXCEPT !.wque[w] = Tail(@)]
           d == wait_dequeue_tmevtb(a, t)
           s == set_wercd(d, t, "E_DLT")
           n == make_non_wait(s, t)
<1>1. Shaped(i) BY ShapedState DEF Released
<1>2. Shaped(a) /\ SameOwners(i, a) BY <1>1 DEF Shaped, SameOwners
<1> HIDE DEF a, t
<1>3. Quiet(a, d) BY <1>2, QuietWait
<1> HIDE DEF d
<1>4. Quiet(d, s)
  <2>1. Shaped(d) BY <1>3 DEF Quiet
  <2> QED BY <2>1, QuietWait
<1> HIDE DEF s
<1>5. Quiet(s, n)
  <2>1. Shaped(s) BY <1>4 DEF Quiet
  <2> QED BY <2>1, QuietWait
<1> HIDE DEF n
<1>6. SameOwners(i, n) BY <1>2, <1>3, <1>4, <1>5 DEF Quiet, SameOwners
<1> QED BY <1>6 DEF n, s, d, a, t, DeleteFirst

LEMMA InitThins ==
    ASSUME NEW j, Settled(j), Fine(j, {}), NEW w \in Wobj
    PROVE  LET n == init_wait_queue(j, w) IN Thinned(j, n) /\ n.wque[w] = << >>
<1> DEFINE n == init_wait_queue(j, w)
           top == Len(j.wque[w])
<1>1. /\ n \in Released(j, w) /\ n.wque[w] = << >>
      /\ \E g : Rounds(g, j, w) /\ g[Len(j.wque[w])] = n
  BY InitQueue
<1> HIDE DEF n
<1>2. PICK g : Rounds(g, j, w) /\ g[Len(j.wque[w])] = n BY <1>1
<1>3. /\ g \in [0 .. top -> Released(j, w)] /\ g[0] = j
      /\ \A i \in 0 .. top : Len(g[i].wque[w]) = top - i
      /\ \A i \in 0 .. top - 1 : g[i + 1] = DeleteFirst(g[i], w)
  BY <1>2 DEF Rounds
<1>4. j \in KernelState /\ Neat(j)
  <2>1. j \in KernelState /\ Waits(j, {}) BY DEF Settled, Ready, Core, Fine
  <2> QED BY <2>1, NeatWaits
<1>5. top \in Nat BY <1>4 DEF KernelState
<1>6. g[top] = n BY <1>2
<1> HIDE DEF top
<1>7. \A i \in 0 .. top : SameOwners(j, g[i])
  <2> DEFINE P == {i \in 0 .. top : SameOwners(j, g[i])}
  <2>1. 0 \in P BY <1>3, <1>5 DEF SameOwners
  <2>2. ASSUME NEW i \in 0 .. top - 1, i \in P PROVE i + 1 \in P
    <3>1. i + 1 \in 0 .. top /\ i \in 0 .. top /\ top - i # 0 BY <1>5
    <3>2. g[i] \in Released(j, w) /\ Len(g[i].wque[w]) # 0 BY <3>1, <1>3
    <3>3. g[i].wque[w] # << >> BY <3>2
    <3>4. SameOwners(g[i], g[i + 1]) BY <3>2, <3>3, <1>3, FirstThins
    <3>5. SameOwners(j, g[i + 1]) BY <3>4, <2>2 DEF SameOwners
    <3> QED BY <3>1, <3>5
  <2> HIDE DEF P
  <2>3. \A i \in 0 .. top : i \in P BY <1>5, <2>1, <2>2, Induct
  <2> QED BY <2>3 DEF P
<1>8. SameOwners(j, n)
  <2>1. top \in 0 .. top BY <1>5
  <2> QED BY <2>1, <1>6, <1>7
<1>9. n \in KernelState /\ Neat(n) /\ \A v \in Wobj \ {w} : n.wque[v] = j.wque[v]
  <2>1. n \in KernelState /\ Waits(n, {}) BY <1>1 DEF Released, Fine
  <2> QED BY <2>1, <1>1, NeatWaits DEF Released
<1>10. ASSUME NEW v \in Wobj
       PROVE  /\ \A u : Linked(n.wque[v], u) => Linked(j.wque[v], u)
              /\ \A a, b : Before(n.wque[v], a, b) => Before(j.wque[v], a, b)
  <2>1. CASE v = w
    <3>1. Len(n.wque[v]) = 0 BY <2>1, <1>1
    <3>2. 1 .. 0 = {} OBVIOUS
    <3> QED BY <3>1, <3>2 DEF Linked, Before
  <2>2. CASE v # w BY <2>2, <1>9
  <2> QED BY <2>1, <2>2
<1>11. Thinned(j, n) BY <1>8, <1>9, <1>10, ShapedState DEF Thinned
<1> QED BY <1>1, <1>11 DEF n

(* ... and its owner's chain loses it.                                     *)
GivenUp(j, n, t, m) ==
    /\ Owned(n, {}, {t}) /\ Bounds(j, t, {}) = Bounds(n, t, {}) \cup Ceiling(m)
    /\ n.priority = j.priority /\ n.wque = j.wque
    /\ n.loctsk = [j.loctsk EXCEPT ![m] = NULL]

LEMMA UnchainOwned ==
    ASSUME NEW j, j \in KernelState, Owned(j, {}, {}), NEW t \in Task, NEW m \in Mutex,
           j.loctsk[m] = t, j.wque[m] = << >>
    PROVE  GivenUp(j, Unchained(j, t, m), t, m)
<1> DEFINE n == Unchained(j, t, m)
<1>1. /\ Typed(j) /\ Chains(j, {}) /\ Waiters(j) /\ Dead(j)
      /\ \A u \in Task : Within(j, u) /\ Best(j, u, {})
  BY DEF Owned
<1>2. /\ n \in KernelState /\ SameButChains(j, n)
      /\ n.loctsk = [j.loctsk EXCEPT ![m] = NULL]
      /\ n.prevmtx = [x \in Mutex |->
             IF x \in ChainOf(j, t) /\ j.prevmtx[x] = m THEN j.prevmtx[m] ELSE j.prevmtx[x]]
      /\ n.lastmtx = [j.lastmtx EXCEPT ![t] = IF @ = m THEN j.prevmtx[m] ELSE @]
  <2>1. Removed(j, n, t, m) BY RemoveFields
  <2> QED BY <2>1 DEF Removed
<1> HIDE DEF n
<1>3. /\ n.tstat = j.tstat /\ n.bpriority = j.bpriority /\ n.priority = j.priority
      /\ n.wque = j.wque
  BY <1>2 DEF SameButChains
<1>4. /\ n.loctsk[m] = NULL /\ \A x \in Mutex : x # m => n.loctsk[x] = j.loctsk[x]
      /\ n.lastmtx[t] = (IF j.lastmtx[t] = m THEN j.prevmtx[m] ELSE j.lastmtx[t])
      /\ \A u \in Task : u # t => n.lastmtx[u] = j.lastmtx[u]
  BY <1>1, <1>2 DEF Typed
<1>5. ChainOf(j, t) = {x \in Mutex : x \notin {} /\ j.loctsk[x] = t} BY <1>1, ChainHeld
<1>6. \A x \in Mutex : n.prevmtx[x] =
          IF j.loctsk[x] = t /\ j.prevmtx[x] = m THEN j.prevmtx[m] ELSE j.prevmtx[x]
  BY <1>2, <1>5
<1>7. Typed(n)
  <2>1. Shaped(n) BY <1>2, ShapedState
  <2>2. Neat(n) BY <1>1, <1>3 DEF Typed, Neat
  <2> QED BY <2>1, <2>2, <1>2 DEF Typed, KernelState
<1>8. ASSUME NEW u \in Task PROVE \E c : Owns(n, u, c, {})
  <2>1. PICK c : Owns(j, u, c, {}) BY <1>1 DEF Chains
  <2>2. /\ IsChain(j.lastmtx[u], j.prevmtx, c)
        /\ \A x \in Mutex : Linked(c, x) <=> j.loctsk[x] = u
    BY <2>1 DEF Owns
  <2>3. CASE u = t
    <3>1. j.prevmtx \in [Mutex -> Mutex \cup {NULL}] /\ Linked(c, m) BY <1>1, <2>2, <2>3 DEF Typed
    <3>2. \A x \in Mutex : n.prevmtx[x] =
              IF Linked(c, x) /\ j.prevmtx[x] = m THEN j.prevmtx[m] ELSE j.prevmtx[x]
      BY <1>6, <2>2, <2>3
    <3>3. PICK d : /\ IsChain(IF j.lastmtx[u] = m THEN j.prevmtx[m] ELSE j.lastmtx[u],
                              n.prevmtx, d)
                   /\ \A x : Linked(d, x) <=> Linked(c, x) /\ x # m
      BY <3>1, <3>2, <2>2, ChainRemove
    <3>4. IsChain(n.lastmtx[u], n.prevmtx, d) BY <3>3, <2>3, <1>4
    <3>5. \A x \in Mutex : Linked(d, x) <=> n.loctsk[x] = u
      BY <3>3, <2>2, <2>3, <1>4, NullNotTask
    <3>6. Owns(n, u, d, {}) BY <3>4, <3>5 DEF Owns
    <3> QED BY <3>6
  <2>4. CASE u # t
    <3>1. \A x \in Mutex : Linked(c, x) => n.prevmtx[x] = j.prevmtx[x] BY <1>6, <2>2, <2>4
    <3>2. IsChain(j.lastmtx[u], n.prevmtx, c) BY <3>1, <2>2, ChainFrame
    <3>3. \A x \in Mutex : Linked(c, x) <=> n.loctsk[x] = u BY <2>2, <2>4, <1>4, NullNotTask
    <3>4. Owns(n, u, c, {}) BY <3>2, <3>3, <2>4, <1>4 DEF Owns
    <3> QED BY <3>4
  <2> QED BY <2>3, <2>4
<1>9. \A u : ~Linked(j.wque[m], u)
  <2>1. Len(j.wque[m]) = 0 /\ 1 .. 0 = {} OBVIOUS
  <2> QED BY <2>1 DEF Linked
<1>10. Waiters(n) BY <1>1, <1>3, <1>4, <1>9 DEF Waiters
<1>11. Dead(n)
  <2>1. j.lastmtx[t] # NULL
    <3>1. PICK c : Owns(j, t, c, {}) BY <1>1 DEF Chains
    <3> QED BY <3>1, HeadHeld
  <2> QED BY <2>1, <1>1, <1>3, <1>4 DEF Dead
<1>12. TA_CEILING \subseteq Mutex BY WobjAssumption
<1>13. ASSUME NEW u \in Task PROVE Within(n, u) /\ (u \notin {t} => Best(n, u, {}))
  <2>1. \A x \in TA_CEILING : n.loctsk[x] = u <=> j.loctsk[x] = u /\ x # m
    BY <1>4, <1>12, NullNotTask
  <2>2. Within(n, u) BY <2>1, <1>1, <1>3 DEF Within
  <2>3. u # t => \A x \in TA_CEILING : n.loctsk[x] = u <=> j.loctsk[x] = u BY <2>1
  <2>4. u # t => Bounds(n, u, {}) = Bounds(j, u, {}) BY <2>3, <1>3 DEF Bounds
  <2>5. u \notin {t} => Best(n, u, {}) BY <2>4, <1>1, <1>3 DEF Best
  <2> QED BY <2>2, <2>5
<1>14. Owned(n, {}, {t}) BY <1>7, <1>8, <1>10, <1>11, <1>13 DEF Owned, Chains
<1>15. Bounds(j, t, {}) = Bounds(n, t, {}) \cup Ceiling(m)
  <2>1. \A x \in TA_CEILING : n.loctsk[x] = t <=> j.loctsk[x] = t /\ x # m
    BY <1>4, <1>12, NullNotTask
  <2>2. {x \in TA_CEILING : x \notin {} /\ j.loctsk[x] = t}
          = {x \in TA_CEILING : x \notin {} /\ n.loctsk[x] = t} \cup ({m} \cap TA_CEILING)
    BY <2>1
  <2> QED BY <2>2, <1>3 DEF Bounds, Ceiling
<1>16. GivenUp(j, n, t, m) BY <1>2, <1>3, <1>14, <1>15 DEF GivenUp
<1> QED BY <1>16 DEF n

LEMMA ReinitOwned ==
    ASSUME NEW j, Settled(j), Fine(j, {}), Owned(j, {}, {}), NEW m \in Mutex
    PROVE  Owned(Reinit(j, m), {}, {}) /\ HandsOver(j, Reinit(j, m))
<1> DEFINE a == init_wait_queue(j, m)
           t == a.loctsk[m]
           b == Unchained(a, t, m)
           n == mutex_drop_priority(b, t, m)
<1>1. m \in Wobj BY WobjAssumption
<1>2. Thinned(j, a) /\ a.wque[m] = << >> BY <1>1, InitThins
<1>3. a \in KernelState /\ Settled(a) /\ Fine(a, {}) BY <1>1, InitQueue DEF Released
<1>4. Reinit(j, m) = IF t = NULL THEN a ELSE n BY DEF Reinit
<1> HIDE DEF a
<1>5. Owned(a, {}, {}) /\ a.loctsk = j.loctsk
  <2>1. Owned(a, {}, {}) BY <1>2, OwnedThinned
  <2> QED BY <2>1, <1>2 DEF Thinned, SameOwners
<1>6. CASE t = NULL
  <2>1. HandsOver(j, a) BY <1>5 DEF HandsOver
  <2> QED BY <2>1, <1>4, <1>5, <1>6
<1>7. CASE t # NULL
  <2>1. t \in Task /\ a.loctsk[m] = t BY <1>3, <1>7 DEF KernelState
  <2> HIDE DEF t
  <2>2. /\ Owned(b, {}, {t}) /\ Bounds(a, t, {}) = Bounds(b, t, {}) \cup Ceiling(m)
        /\ b.priority = a.priority /\ b.wque = a.wque
        /\ b.loctsk = [a.loctsk EXCEPT ![m] = NULL]
    <3>1. GivenUp(a, b, t, m) BY <2>1, <1>2, <1>3, <1>5, UnchainOwned
    <3> HIDE DEF b
    <3> QED BY <3>1 DEF GivenUp
  <2>3. b \in KernelState /\ SameButChains(a, b) BY <2>1, <1>3, RemoveFields DEF Removed
  <2>4. Waits(b, {}) BY <2>3, <1>3, KeepsChains DEF Keeps, Fine
  <2> HIDE DEF b
  <2>5. Shifted(b, n, t) /\ Owned(n, {}, {})
    <3>1. Best(a, t, {}) BY <2>1, <1>5 DEF Owned
    <3>2. b.priority[t] \in Bounds(b, t, {}) \cup Ceiling(m) BY <3>1, <2>2 DEF Best
    <3>3. \A p \in Bounds(b, t, {}) \cup Ceiling(m) : b.priority[t] <= p
      BY <3>1, <2>2 DEF Best
    <3> QED BY <3>2, <3>3, <2>1, <2>2, <2>3, <2>4, DropOwned
  <2> HIDE DEF n
  <2>6. n.loctsk = [j.loctsk EXCEPT ![m] = NULL] /\ n.wque[m] = << >>
    <3>1. ~Linked(a.wque[m], t) BY <2>1, <1>5 DEF Owned, Waiters
    <3> QED BY <3>1, <2>2, <2>5, <1>1, <1>2, <1>5 DEF Shifted
  <2>7. j.loctsk \in [Mutex -> Task \cup {NULL}] BY DEF Owned, Typed
  <2>8. HandsOver(j, n) BY <2>6, <2>7 DEF HandsOver
  <2> QED BY <2>5, <2>8, <1>4, <1>7
<1> QED BY <1>6, <1>7

(* Every call, and the initial state.                                      *)
LEMMA MutexCallOwned ==
    ASSUME Inv(k), Owned(k, {}, {}), NEW m \in Mutex, MutexCall(m)
    PROVE  Owned(k', {}, {}) /\ HandsOver(k, k')
<1>1. Settled(k) /\ Fine(k, {}) BY Known
<1>2. CHECK_TSKCTX_UNL BY DEF MutexCall, loc_mtx, ploc_mtx, tloc_mtx, unl_mtx, ini_mtx, CHECK_DISPATCH
<1>3. k.runtsk \in Task BY <1>2, InvCaller
<1>4. CASE (loc_mtx(m) \/ tloc_mtx(m) \/ ploc_mtx(m)) /\ lock_free(m)
  <2>1. within_ceiling(m) BY <1>4 DEF loc_mtx, tloc_mtx, ploc_mtx
  <2> QED BY <2>1, <1>2, <1>4, LockOwned
<1>5. CASE (loc_mtx(m) \/ tloc_mtx(m)) /\ ~lock_free(m) BY <1>5, ContendOwned
<1>6. CASE unl_mtx(m)
  <2> DEFINE n == Unlocked(k, k.runtsk, m)
  <2>1. m = k.lastmtx[k.runtsk] /\ k' = dispatch(n) BY <1>6, UnlockCall
  <2>2. Owned(n, {}, {}) /\ Given(k, n) BY <2>1, <1>1, <1>3, UnlockOwned
  <2> HIDE DEF n
  <2>3. HandsOver(k, n) BY <2>2 DEF Given, HandsOver
  <2> QED BY <2>1, <2>2, <2>3, LeaveOwned
<1>7. CASE ini_mtx(m)
  <2> DEFINE n == Reinit(k, m)
  <2>1. k' = dispatch(n) BY <1>7, ReinitCall
  <2>2. Owned(n, {}, {}) /\ HandsOver(k, n) BY <1>1, ReinitOwned
  <2> HIDE DEF n
  <2> QED BY <2>1, <2>2, LeaveOwned
<1>8. ploc_mtx(m) => lock_free(m) BY DEF ploc_mtx
<1> QED BY <1>4, <1>5, <1>6, <1>7, <1>8 DEF MutexCall

LEMMA OwnedNext ==
    Inv(k) /\ Owned(k, {}, {}) /\ [MutexNext]_k => Owned(k', {}, {}) /\ HandsOver(k, k')
<1>1. CASE k' = k BY <1>1 DEF HandsOver
<1>2. ASSUME Inv(k), Owned(k, {}, {}), TaskNext PROVE Owned(k', {}, {}) /\ HandsOver(k, k')
  <2>1. Owned(k', {}, {}) /\ Given(k, k') BY <1>2, TaskStepOwned
  <2> QED BY <2>1 DEF Given, HandsOver
<1>3. ASSUME Inv(k), Owned(k, {}, {}), NEW m \in Mutex, MutexCall(m)
      PROVE  Owned(k', {}, {}) /\ HandsOver(k, k')
  BY <1>3, MutexCallOwned
<1> QED BY <1>1, <1>2, <1>3 DEF MutexNext

LEMMA OwnedInit == TaskInit => Owned(k, {}, {})
<1> SUFFICES ASSUME NEW q, k = initialize_task(q), TaskInit PROVE Owned(k, {}, {})
  BY DEF TaskInit
<1>1. k \in KernelState /\ Waits(k, {}) BY InvInit, Known DEF Fine
<1>2. /\ k.lastmtx = [t \in Task |-> NULL] /\ k.prevmtx = [x \in Mutex |-> NULL]
      /\ k.loctsk = [x \in Mutex |-> NULL] /\ k.wque = [w \in Wobj |-> << >>]
      /\ k.bpriority = ipriority /\ k.priority = ipriority
  BY DEF initialize_task
<1>3. Typed(k) BY <1>1, ShapedState, NeatWaits DEF Typed, KernelState
<1>4. ASSUME NEW t \in Task PROVE Owns(k, t, << >>, {})
  <2>1. << >> \in Seq(Mutex) /\ Len(<< >>) = 0 /\ 1 .. 0 = {} OBVIOUS
  <2>2. IsChain(NULL, k.prevmtx, << >>) BY <2>1 DEF IsChain, NoTwice, At
  <2>3. \A x \in Mutex : ~Linked(<< >>, x) BY <2>1 DEF Linked
  <2>4. \A x \in Mutex : k.loctsk[x] # t BY <1>2, NullNotTask
  <2> QED BY <2>2, <2>3, <2>4, <1>2 DEF Owns
<1>5. Chains(k, {}) BY <1>4 DEF Chains
<1>6. \A x \in Mutex, t \in Task : ~Linked(k.wque[x], t) /\ k.loctsk[x] # t
  <2>1. Len(<< >>) = 0 /\ 1 .. 0 = {} OBVIOUS
  <2>2. \A t : ~Linked(<< >>, t) BY <2>1 DEF Linked
  <2> QED BY <2>2, <1>2, WobjAssumption, NullNotTask
<1>7. Waiters(k) /\ Dead(k) BY <1>2, <1>6 DEF Waiters, Dead
<1>8. TA_CEILING \subseteq Mutex BY WobjAssumption
<1>9. ASSUME NEW t \in Task PROVE Within(k, t) /\ Best(k, t, {})
  <2>1. Within(k, t) BY <1>6, <1>8 DEF Within
  <2>2. Bounds(k, t, {}) = {ipriority[t]} BY <1>2, <1>6, <1>8 DEF Bounds
  <2>3. ipriority[t] <= ipriority[t]
    <3>1. ipriority[t] \in Pri BY TaskAssumption
    <3>2. ipriority[t] \in Int BY <3>1, PriNat
    <3> QED BY <3>2
  <2> QED BY <2>1, <2>2, <2>3, <1>2 DEF Best
<1> QED BY <1>3, <1>5, <1>7, <1>9 DEF Owned

LEMMA OwnershipFollows == Owned(k, {}, {}) => OwnershipOK
<1> SUFFICES ASSUME Owned(k, {}, {}) PROVE OwnershipOK
  OBVIOUS
<1>1. Typed(k) /\ Chains(k, {}) /\ Waiters(k) /\ Dead(k) BY DEF Owned
<1>2. ASSUME NEW t \in Task
      PROVE  /\ ChainOf(k, t) = HeldBy(k, t)
             /\ HeldBy(k, t) # {} => \E m \in HeldBy(k, t) : k.prevmtx[m] = NULL
             /\ TSTAT_DORMANT(k.tstat[t]) => HeldBy(k, t) = {}
  <2>1. PICK c : Owns(k, t, c, {}) BY <1>1 DEF Chains
  <2>2. ChainOf(k, t) = HeldBy(k, t)
    <3>1. ChainOf(k, t) = {m \in Mutex : m \notin {} /\ k.loctsk[m] = t} BY <1>1, ChainHeld
    <3> QED BY <3>1 DEF HeldBy
  <2>3. /\ IsChain(k.lastmtx[t], k.prevmtx, c)
        /\ \A m \in Mutex : Linked(c, m) <=> m \in HeldBy(k, t)
    BY <2>1 DEF Owns, HeldBy
  <2>4. ASSUME HeldBy(k, t) # {} PROVE \E m \in HeldBy(k, t) : k.prevmtx[m] = NULL
    <3>1. PICK x \in Mutex : Linked(c, x) BY <2>3, <2>4 DEF HeldBy
    <3>2. c \in Seq(Mutex) /\ Len(c) \in Nat BY <2>3 DEF IsChain
    <3>3. Len(c) \in 1 .. Len(c) BY <3>1, <3>2 DEF Linked
    <3>4. c[Len(c)] \in Mutex /\ Linked(c, c[Len(c)]) BY <3>2, <3>3 DEF Linked
    <3>5. ~(Len(c) + 1 <= Len(c)) BY <3>2
    <3>6. k.prevmtx[c[Len(c)]] = NULL BY <3>3, <3>5, <2>3 DEF IsChain, At
    <3> QED BY <3>4, <3>6, <2>3
  <2>5. ASSUME TSTAT_DORMANT(k.tstat[t]) PROVE HeldBy(k, t) = {}
    <3>1. k.lastmtx[t] = NULL BY <1>1, <2>5 DEF Dead, TSTAT_DORMANT
    <3>2. \A m \in Mutex : m \in {} \/ k.loctsk[m] # t BY <2>1, <3>1, HeadHeld
    <3> QED BY <3>2 DEF HeldBy
  <2> QED BY <2>2, <2>4, <2>5
<1>3. \A m \in Mutex, t \in Task :
         Contains(k.wque[m], t) => k.loctsk[m] \notin {NULL, t}
  BY <1>1 DEF Waiters, Contains, Linked
<1> QED BY <1>2, <1>3 DEF OwnershipOK

LEMMA CeilingFollows == Owned(k, {}, {}) => CeilingOK
<1> SUFFICES ASSUME Owned(k, {}, {}), NEW t \in Task
             PROVE  /\ k.priority[t] = Min({k.bpriority[t]} \cup
                           {ceilpri[m] : m \in HeldBy(k, t) \cap TA_CEILING})
                    /\ \A m \in TA_CEILING :
                         k.loctsk[m] = t \/ Contains(k.wque[m], t) =>
                             ceilpri[m] <= k.bpriority[t]
  BY DEF CeilingOK
<1> DEFINE B == {k.bpriority[t]} \cup {ceilpri[m] : m \in HeldBy(k, t) \cap TA_CEILING}
<1>1. Typed(k) /\ Within(k, t) /\ Best(k, t, {}) BY DEF Owned
<1>2. TA_CEILING \subseteq Mutex /\ \A m \in TA_CEILING : ceilpri[m] \in Pri BY WobjAssumption
<1>3. B = Bounds(k, t, {})
  <2>1. HeldBy(k, t) \cap TA_CEILING = {x \in TA_CEILING : x \notin {} /\ k.loctsk[x] = t}
    BY <1>2 DEF HeldBy
  <2> QED BY <2>1 DEF Bounds
<1>4. B \subseteq Int
  <2>1. k.bpriority[t] \in Pri BY <1>1 DEF Typed
  <2> QED BY <2>1, <1>2, PriNat
<1>5. k.priority[t] \in B /\ \A b \in B : k.priority[t] <= b BY <1>1, <1>3 DEF Best
<1> HIDE DEF B
<1>6. k.priority[t] = Min(B)
  <2>1. Min(B) \in B /\ \A b \in B : Min(B) <= b BY <1>5 DEF Min
  <2>2. Min(B) <= k.priority[t] /\ k.priority[t] <= Min(B) BY <2>1, <1>5
  <2>3. Min(B) \in Int /\ k.priority[t] \in Int BY <2>1, <1>4, <1>5
  <2> QED BY <2>2, <2>3
<1>7. \A m \in TA_CEILING :
         k.loctsk[m] = t \/ Contains(k.wque[m], t) => ceilpri[m] <= k.bpriority[t]
  BY <1>1 DEF Within, Contains, Linked
<1> QED BY <1>6, <1>7 DEF B

(* In every state a mutex and its owner's chain agree about who holds it,  *)
(* the chains end, nobody waits for a free mutex or for his own, and a     *)
(* dormant task holds none.                                                *)
THEOREM OwnershipCorrect == MutexSpec => []OwnershipOK
<1>1. TaskInit => Inv(k) /\ Owned(k, {}, {}) BY InvInit, OwnedInit
<1>2. Inv(k) /\ Owned(k, {}, {}) /\ [MutexNext]_k => (Inv(k) /\ Owned(k, {}, {}))'
  BY KernelNext, OwnedNext
<1>3. Inv(k) /\ Owned(k, {}, {}) => OwnershipOK BY OwnershipFollows
<1> QED BY <1>1, <1>2, <1>3, PTL DEF MutexSpec

(* At every moment the current priority is the best of the base priority   *)
(* and the ceilings held, and no ceiling that is held or waited for is     *)
(* lower than the base priority.                                           *)
THEOREM CeilingCorrect == MutexSpec => []CeilingOK
<1>1. TaskInit => Inv(k) /\ Owned(k, {}, {}) BY InvInit, OwnedInit
<1>2. Inv(k) /\ Owned(k, {}, {}) /\ [MutexNext]_k => (Inv(k) /\ Owned(k, {}, {}))'
  BY KernelNext, OwnedNext
<1>3. Inv(k) /\ Owned(k, {}, {}) => CeilingOK BY CeilingFollows
<1> QED BY <1>1, <1>2, <1>3, PTL DEF MutexSpec

(* A mutex goes to the first task that waits for it, to nobody when nobody *)
(* waits, and from nobody to the running task; in no other way.            *)
THEOREM HandOverCorrect == MutexSpec => HandOver
<1>1. TaskInit => Inv(k) /\ Owned(k, {}, {}) BY InvInit, OwnedInit
<1>2. Inv(k) /\ Owned(k, {}, {}) /\ [MutexNext]_k => (Inv(k) /\ Owned(k, {}, {}))'
  BY KernelNext, OwnedNext
<1> DEFINE A == \A m \in Mutex : k'.loctsk[m] # k.loctsk[m] =>
                  \/ k.loctsk[m] = NULL /\ k'.loctsk[m] = k.runtsk
                  \/ k'.loctsk[m] = NULL /\ k'.wque[m] = << >>
                  \/ k.wque[m] # << >> /\ k'.loctsk[m] \in Range(k.wque[m])
                     /\ k'.wque[m] = Tail(k.wque[m]) /\ k'.loctsk[m] = Head(k.wque[m])
<1>3. Inv(k) /\ Owned(k, {}, {}) /\ [MutexNext]_k => A
  <2> SUFFICES ASSUME Owned(k, {}, {}), HandsOver(k, k'), NEW m \in Mutex,
                      k'.loctsk[m] # k.loctsk[m]
               PROVE  \/ k.loctsk[m] = NULL /\ k'.loctsk[m] = k.runtsk
                      \/ k'.loctsk[m] = NULL /\ k'.wque[m] = << >>
                      \/ k.wque[m] # << >> /\ k'.loctsk[m] \in Range(k.wque[m])
                         /\ k'.wque[m] = Tail(k.wque[m]) /\ k'.loctsk[m] = Head(k.wque[m])
    BY OwnedNext
  <2>1. \/ k.loctsk[m] = NULL /\ k'.loctsk[m] = k.runtsk
        \/ k'.loctsk[m] = NULL /\ k'.wque[m] = << >>
        \/ k.wque[m] # << >> /\ k'.wque[m] = Tail(k.wque[m]) /\ k'.loctsk[m] = Head(k.wque[m])
    BY DEF HandsOver, Passed
  <2>2. k.wque[m] \in Seq(Task) BY WobjAssumption DEF Owned, Typed, Neat
  <2>3. k.wque[m] # << >> => Head(k.wque[m]) \in Range(k.wque[m])
    <3>1. ASSUME k.wque[m] # << >> PROVE Head(k.wque[m]) \in Range(k.wque[m])
      <4>1. 1 \in DOMAIN k.wque[m] /\ Head(k.wque[m]) = k.wque[m][1] BY <2>2, <3>1
      <4> QED BY <4>1 DEF Range
    <3> QED BY <3>1
  <2> QED BY <2>1, <2>3
<1>4. Inv(k) /\ Owned(k, {}, {}) /\ [MutexNext]_k => [A]_k BY <1>3
<1> HIDE DEF A
<1>5. MutexSpec => [][A]_k BY <1>1, <1>2, <1>4, PTL DEF MutexSpec
<1> QED BY <1>5 DEF A, HandOver
=============================================================================
