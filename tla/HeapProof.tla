----------------------------- MODULE HeapProof -----------------------------
(***************************************************************************)
(* Proofs about HeapCalls, for every number of events and every span of    *)
(* the times: the array stays a heap whatever is inserted and deleted and  *)
(* however the current time moves.                                         *)
(***************************************************************************)
EXTENDS HeapCalls, TimeEvent, FiniteSetTheorems, WellFoundedInduction, TLAPS

N == Cardinality(Event)

(* The key of an event: its time, as the code compares it.                 *)
Key(x) == [e \in Event |-> EVTTIM_ADVANCE(x, x.evttim[e])]

(* The nodes of x hold the events of R, each in its place and knowing it.  *)
Held(x, n, R) ==
    x.tmevt_heap[n] \in R /\ x.p_tmevtn[x.tmevt_heap[n]] = n

(* x is a heap of the events of R with the keys K.                         *)
Heap(x, R, K) ==
    /\ x \in HeapState /\ R \subseteq Event
    /\ \A n \in 1 .. x.p_last : Held(x, n, R)
    /\ \A e \in R : x.p_tmevtn[e] \in 1 .. x.p_last /\ x.tmevt_heap[x.p_tmevtn[e]] = e
    /\ \A n \in 2 .. x.p_last : K[x.tmevt_heap[PARENT(n)]] <= K[x.tmevt_heap[n]]

(* x is such a heap but for a hole at node `at', through which the order   *)
(* goes from the parent of the hole to its children.                       *)
Hole(x, at, R, K) ==
    /\ x \in HeapState /\ R \subseteq Event /\ at \in 1 .. x.p_last
    /\ \A n \in 1 .. x.p_last : n # at => Held(x, n, R)
    /\ \A e \in R : /\ x.p_tmevtn[e] \in 1 .. x.p_last /\ x.p_tmevtn[e] # at
                    /\ x.tmevt_heap[x.p_tmevtn[e]] = e
    /\ \A n \in 2 .. x.p_last :
         n # at /\ PARENT(n) # at => K[x.tmevt_heap[PARENT(n)]] <= K[x.tmevt_heap[n]]
    /\ \A n \in 2 .. x.p_last :
         PARENT(n) = at /\ at > 1 => K[x.tmevt_heap[PARENT(at)]] <= K[x.tmevt_heap[n]]

(* An event with the key v may stand in the hole, as far as what is below  *)
(* it, or above it, goes.                                                  *)
FitsBelow(x, at, K, v) ==
    \A n \in 2 .. x.p_last : PARENT(n) = at => v <= K[x.tmevt_heap[n]]
FitsAbove(x, at, K, v) ==
    at > 1 => K[x.tmevt_heap[PARENT(at)]] <= v

(* What the moves of the hole leave alone.                                 *)
Frame(x, y, R) ==
    /\ y.p_last = x.p_last /\ y.evttim = x.evttim
    /\ y.current_evttim = x.current_evttim
    /\ \A e \in Event \ R : y.p_tmevtn[e] = x.p_tmevtn[e]

-----------------------------------------------------------------------------
(* The numbers have a least element in every set that is not empty.        *)
LEMMA LeastElement ==
    ASSUME NEW S \in SUBSET Nat, S # {}
    PROVE  \E m \in S : \A n \in S : m <= n
<1> DEFINE R == {p \in Nat \X Nat : p[1] < p[2]}
<1>1. R = OpToRel(<, Nat) BY DEF OpToRel
<1>2. IsWellFoundedOn(R, Nat) BY <1>1, NatLessThanWellFounded
<1>3. PICK x \in S : \A y \in S : ~ (<<y, x>> \in R) BY <1>2, WFMin
<1>4. ASSUME NEW y \in S PROVE x <= y
  <2>1. x \in Nat /\ y \in Nat OBVIOUS
  <2>2. y < x => <<y, x>> \in R BY <2>1
  <2> QED BY <2>1, <2>2, <1>3
<1> QED BY <1>4

(* Induction up to n, for a set P of numbers.                              *)
LEMMA Induct ==
    ASSUME NEW top \in Nat, NEW P, 0 \in P, \A n \in 0 .. top - 1 : n \in P => n + 1 \in P
    PROVE  \A n \in 0 .. top : n \in P
<1> DEFINE bad == {n \in 0 .. top : n \notin P}
<1>1. bad # {} => FALSE
  <2> SUFFICES ASSUME bad # {} PROVE FALSE OBVIOUS
  <2>1. bad \in SUBSET Nat OBVIOUS
  <2>2. PICK m \in bad : \A n \in bad : m <= n BY <2>1, LeastElement
  <2>3. m \in 1 .. top /\ m - 1 \in 0 .. top - 1 OBVIOUS
  <2>4. m - 1 \in P BY <2>2, <2>3
  <2>5. m - 1 + 1 \in P BY <2>3, <2>4
  <2> QED BY <2>2, <2>3, <2>5
<1> QED BY <1>1

(* The iteration of f from x, which exists.                                *)
Iterates(g, top, S, x, f) ==
    /\ g \in [0 .. top -> S] /\ g[0] = x
    /\ \A i \in 0 .. top - 1 : g[i + 1] = f[g[i]]

LEMMA Iterate ==
    ASSUME NEW top \in Nat, NEW S, NEW x \in S, NEW f \in [S -> S]
    PROVE  \E g : Iterates(g, top, S, x, f)
<1> DEFINE Good(n, g) == /\ g \in [0 .. n -> S] /\ g[0] = x
                         /\ \A i \in 0 .. n - 1 : g[i + 1] = f[g[i]]
           P == {n \in Nat : \E g : Good(n, g)}
<1>1. 0 \in P
  <2> DEFINE g == [i \in 0 .. 0 |-> x]
  <2>1. Good(0, g) OBVIOUS
  <2> QED BY <2>1
<1>2. ASSUME NEW n \in 0 .. top - 1, n \in P PROVE n + 1 \in P
  <2>1. PICK g : Good(n, g) BY <1>2
  <2> DEFINE h2 == [i \in 0 .. n + 1 |-> IF i = n + 1 THEN f[g[n]] ELSE g[i]]
  <2>2. h2 \in [0 .. n + 1 -> S] /\ h2[0] = x BY <2>1
  <2>3. ASSUME NEW i \in 0 .. (n + 1) - 1 PROVE h2[i + 1] = f[h2[i]]
    <3>1. i \in 0 .. n + 1 /\ i + 1 \in 0 .. n + 1 OBVIOUS
    <3>2. CASE i = n BY <3>1, <3>2
    <3>3. CASE i # n BY <3>1, <3>3, <2>1
    <3> QED BY <3>2, <3>3
  <2> HIDE DEF h2
  <2>4. Good(n + 1, h2) BY <2>2, <2>3
  <2>5. \E g2 : Good(n + 1, g2) BY <2>4
  <2> HIDE DEF Good
  <2> QED BY <2>5
<1> HIDE DEF P
<1>3. top \in P BY <1>1, <1>2, Induct
<1>4. PICK g : Good(top, g) BY <1>3 DEF P
<1> QED BY <1>4 DEF Iterates

-----------------------------------------------------------------------------
(* The constants; the arithmetic of the nodes and of the times.            *)
LEMMA Nodes == N \in Nat /\ Node = 1 .. N
BY HeapAssumption, FS_CardinalityType DEF N, Node

LEMMA Parents ==
    ASSUME NEW n \in Nat, n >= 2
    PROVE  /\ PARENT(n) \in Nat /\ PARENT(n) >= 1 /\ PARENT(n) < n
           /\ n = 2 * PARENT(n) \/ n = 2 * PARENT(n) + 1
BY DEF PARENT

LEMMA Children ==
    ASSUME NEW n \in Nat
    PROVE  PARENT(2 * n) = n /\ PARENT(2 * n + 1) = n
BY DEF PARENT

LEMMA Advance ==
    ASSUME NEW x, x.current_evttim \in EVTTIM, NEW t \in EVTTIM
    PROVE  EVTTIM_ADVANCE(x, t) \in Nat
<1>1. EVTTIM_SPAN \in Nat \ {0} /\ BOUNDARY_MARGIN \in Int BY HeapAssumption
<1>2. t \in Int /\ x.current_evttim \in Int BY <1>1 DEF EVTTIM
<1>3. boundary_evttim(x) \in Int BY <1>1, <1>2 DEF boundary_evttim
<1> QED BY <1>1, <1>2, <1>3 DEF EVTTIM_ADVANCE

LEMMA Keys ==
    ASSUME NEW x \in HeapState
    PROVE  Key(x) \in [Event -> Nat]
<1>1. \A e \in Event : EVTTIM_ADVANCE(x, x.evttim[e]) \in Nat BY Advance DEF HeapState
<1> QED BY <1>1 DEF Key

(* place puts e into node n, and changes nothing else.                     *)
LEMMA Place ==
    ASSUME NEW x \in HeapState, NEW e \in Event, NEW n \in Node
    PROVE  LET y == place(x, e, n) IN
           /\ y \in HeapState
           /\ y.p_last = x.p_last /\ y.evttim = x.evttim
           /\ y.current_evttim = x.current_evttim
           /\ \A m \in Node : y.tmevt_heap[m] = IF m = n THEN e ELSE x.tmevt_heap[m]
           /\ \A d \in Event : y.p_tmevtn[d] = IF d = e THEN n ELSE x.p_tmevtn[d]
BY DEF place, HeapState

(* An event that fits into the hole fills it.                              *)
LEMMA Fill ==
    ASSUME NEW x, NEW at, NEW R, NEW K \in [Event -> Nat], Hole(x, at, R, K),
           NEW e \in Event \ R, FitsBelow(x, at, K, K[e]), FitsAbove(x, at, K, K[e])
    PROVE  Heap(place(x, e, at), R \cup {e}, K)
<1> DEFINE y == place(x, e, at)
<1>1. x \in HeapState /\ x.p_last \in 0 .. N /\ at \in Node /\ at \in 1 .. x.p_last
  BY Nodes DEF Hole, HeapState
<1>2. /\ y \in HeapState /\ y.p_last = x.p_last
      /\ \A m \in Node : y.tmevt_heap[m] = IF m = at THEN e ELSE x.tmevt_heap[m]
      /\ \A d \in Event : y.p_tmevtn[d] = IF d = e THEN at ELSE x.p_tmevtn[d]
  BY <1>1, Place
<1> HIDE DEF y
<1>3. \A n \in 1 .. x.p_last : n \in Node BY <1>1, Nodes
<1>4. \A n \in 1 .. x.p_last : Held(y, n, R \cup {e})
  BY <1>2, <1>3 DEF Hole, Held
<1>5. \A d \in R \cup {e} : y.p_tmevtn[d] \in 1 .. x.p_last /\ y.tmevt_heap[y.p_tmevtn[d]] = d
  BY <1>1, <1>2, <1>3 DEF Hole
<1>6. ASSUME NEW n \in 2 .. x.p_last
      PROVE  K[y.tmevt_heap[PARENT(n)]] <= K[y.tmevt_heap[n]]
  <2>1. n \in Nat /\ n >= 2 BY <1>1
  <2>2. PARENT(n) \in Nat /\ PARENT(n) >= 1 /\ PARENT(n) < n BY <2>1, Parents
  <2>3. n \in Node /\ PARENT(n) \in Node BY <1>1, <1>3, <2>1, <2>2
  <2>4. CASE n = at
    <3>1. y.tmevt_heap[n] = e /\ y.tmevt_heap[PARENT(n)] = x.tmevt_heap[PARENT(n)]
      BY <1>2, <2>2, <2>3, <2>4
    <3>2. at > 1 BY <2>1, <2>4
    <3> QED BY <3>1, <3>2, <2>4 DEF FitsAbove
  <2>5. CASE PARENT(n) = at
    <3>1. y.tmevt_heap[n] = x.tmevt_heap[n] /\ y.tmevt_heap[PARENT(n)] = e
      BY <1>2, <2>1, <2>2, <2>3, <2>5
    <3> QED BY <3>1, <2>5 DEF FitsBelow
  <2>6. CASE n # at /\ PARENT(n) # at
    BY <1>2, <2>3, <2>6 DEF Hole
  <2> QED BY <2>4, <2>5, <2>6
<1> QED BY <1>1, <1>2, <1>4, <1>5, <1>6 DEF Heap, Hole, y

(* Moving the event above the hole into it takes the hole up.              *)
LEMMA HoleUp ==
    ASSUME NEW x, NEW at, NEW R, NEW K \in [Event -> Nat], NEW v \in Nat,
           Hole(x, at, R, K), FitsBelow(x, at, K, v),
           at > 1, ~(K[x.tmevt_heap[PARENT(at)]] <= v)
    PROVE  LET y == place(x, x.tmevt_heap[PARENT(at)], at) IN
           /\ Hole(y, PARENT(at), R, K) /\ FitsBelow(y, PARENT(at), K, v)
           /\ Frame(x, y, R) /\ PARENT(at) < at
<1> DEFINE up == PARENT(at)
           p  == x.tmevt_heap[up]
           y  == place(x, p, at)
<1>1. x \in HeapState /\ x.p_last \in 0 .. N /\ at \in Node /\ at \in 2 .. x.p_last
  BY Nodes DEF Hole, HeapState
<1>2. up \in Nat /\ up >= 1 /\ up < at /\ up \in Node /\ up \in 1 .. x.p_last
  BY <1>1, Parents, Nodes
<1> HIDE DEF up
<1>3. p \in R /\ p \in Event /\ x.p_tmevtn[p] = up
  BY <1>2 DEF Hole, Held
<1>4. /\ y \in HeapState /\ y.p_last = x.p_last /\ y.evttim = x.evttim
      /\ y.current_evttim = x.current_evttim
      /\ \A m \in Node : y.tmevt_heap[m] = IF m = at THEN p ELSE x.tmevt_heap[m]
      /\ \A d \in Event : y.p_tmevtn[d] = IF d = p THEN at ELSE x.p_tmevtn[d]
  BY <1>1, <1>3, Place
<1>5. \A n \in 1 .. x.p_last : n \in Node BY <1>1, Nodes
<1> HIDE DEF y, p
<1>6. \A n \in 1 .. x.p_last : n # up => Held(y, n, R)
  <2>1. SUFFICES ASSUME NEW n \in 1 .. x.p_last, n # up PROVE Held(y, n, R) OBVIOUS
  <2>2. CASE n = at BY <2>2, <1>3, <1>4, <1>1 DEF Held
  <2>3. CASE n # at
    <3>1. Held(x, n, R) BY <2>3 DEF Hole
    <3>2. y.tmevt_heap[n] = x.tmevt_heap[n] BY <2>3, <1>4, <1>5
    <3>3. x.tmevt_heap[n] # p BY <3>1, <1>3, <2>1 DEF Held
    <3>4. x.tmevt_heap[n] \in Event BY <3>1 DEF Hole, Held
    <3> QED BY <3>1, <3>2, <3>3, <3>4, <1>4 DEF Held
  <2> QED BY <2>2, <2>3
<1>7. \A d \in R : /\ y.p_tmevtn[d] \in 1 .. x.p_last /\ y.p_tmevtn[d] # up
                   /\ y.tmevt_heap[y.p_tmevtn[d]] = d
  <2> TAKE d \in R
  <2>1. d \in Event /\ x.p_tmevtn[d] \in 1 .. x.p_last /\ x.p_tmevtn[d] # at
        /\ x.tmevt_heap[x.p_tmevtn[d]] = d
    BY DEF Hole
  <2>2. CASE d = p BY <2>2, <1>1, <1>2, <1>4, <2>1
  <2>3. CASE d # p
    <3>1. y.p_tmevtn[d] = x.p_tmevtn[d] BY <2>1, <2>3, <1>4
    <3>2. x.p_tmevtn[d] # up BY <2>1, <2>3 DEF p
    <3> QED BY <3>1, <3>2, <2>1, <1>4, <1>5
  <2> QED BY <2>2, <2>3
<1>8. ASSUME NEW n \in 2 .. x.p_last
      PROVE  /\ n \in Node /\ PARENT(n) \in Node /\ PARENT(n) < n /\ n \in Nat /\ PARENT(n) \in Nat
             /\ PARENT(n) >= 1
  BY <1>1, <1>5, Parents, Nodes
<1>9. \A n \in 2 .. x.p_last :
         n # up /\ PARENT(n) # up => K[y.tmevt_heap[PARENT(n)]] <= K[y.tmevt_heap[n]]
  <2> SUFFICES ASSUME NEW n \in 2 .. x.p_last, n # up, PARENT(n) # up
               PROVE  K[y.tmevt_heap[PARENT(n)]] <= K[y.tmevt_heap[n]]
    OBVIOUS
  <2>1. n # at BY DEF up
  <2>2. CASE PARENT(n) = at
    <3>1. y.tmevt_heap[PARENT(n)] = p /\ y.tmevt_heap[n] = x.tmevt_heap[n]
      BY <2>1, <2>2, <1>4, <1>8
    <3> QED BY <3>1, <2>2, <1>1 DEF Hole, up, p
  <2>3. CASE PARENT(n) # at
    BY <2>1, <2>3, <1>4, <1>8 DEF Hole
  <2> QED BY <2>2, <2>3
<1>10. p = x.tmevt_heap[up] /\ up \in 2 .. x.p_last
           => K[x.tmevt_heap[PARENT(up)]] <= K[p]
  <2> SUFFICES ASSUME p = x.tmevt_heap[up], up \in 2 .. x.p_last
               PROVE  K[x.tmevt_heap[PARENT(up)]] <= K[p]
    OBVIOUS
  <2>1. up # at /\ PARENT(up) # at BY <1>1, <1>2, <1>8
  <2> QED BY <2>1 DEF Hole
<1>11. \A n \in 2 .. x.p_last :
         PARENT(n) = up /\ up > 1 => K[y.tmevt_heap[PARENT(up)]] <= K[y.tmevt_heap[n]]
  <2> SUFFICES ASSUME NEW n \in 2 .. x.p_last, PARENT(n) = up, up > 1
               PROVE  K[y.tmevt_heap[PARENT(up)]] <= K[y.tmevt_heap[n]]
    OBVIOUS
  <2>1. up \in 2 .. x.p_last BY <1>2, <1>1
  <2>2. PARENT(up) \in Node /\ PARENT(up) < up BY <2>1, <1>8
  <2>9. PARENT(up) # at /\ PARENT(up) \in Nat BY <2>1, <1>8, <1>2, <1>1
  <2>3. y.tmevt_heap[PARENT(up)] = x.tmevt_heap[PARENT(up)] BY <2>2, <2>9, <1>4
  <2>4. K[x.tmevt_heap[PARENT(up)]] <= K[p] BY <2>1, <1>10 DEF p
  <2>5. CASE n = at BY <2>3, <2>4, <2>5, <1>4, <1>8
  <2>6. CASE n # at
    <3>1. y.tmevt_heap[n] = x.tmevt_heap[n] BY <2>6, <1>4, <1>8
    <3>2. K[p] <= K[x.tmevt_heap[n]] BY <2>6, <1>2 DEF Hole, p
    <3>3. /\ x.tmevt_heap[n] \in Event /\ x.tmevt_heap[PARENT(up)] \in Event
      BY <2>6, <2>2, <1>8, <1>2, <1>1, <2>1 DEF Hole, Held
    <3>4. /\ K[x.tmevt_heap[n]] \in Nat /\ K[p] \in Nat /\ K[x.tmevt_heap[PARENT(up)]] \in Nat
      BY <3>3, <1>3
    <3> QED BY <3>1, <3>2, <3>4, <2>3, <2>4
  <2> QED BY <2>5, <2>6
<1>12. FitsBelow(y, up, K, v)
  <2> SUFFICES ASSUME NEW n \in 2 .. x.p_last, PARENT(n) = up
               PROVE  v <= K[y.tmevt_heap[n]]
    BY <1>4 DEF FitsBelow
  <2>1. K[p] \in Nat /\ v < K[p]
    <3>1. K[p] \in Nat BY <1>3
    <3>2. ~(K[p] <= v) BY DEF p, up
    <3> QED BY <3>1, <3>2
  <2>2. CASE n = at BY <2>1, <2>2, <1>4, <1>8
  <2>3. CASE n # at
    <3>1. y.tmevt_heap[n] = x.tmevt_heap[n] BY <2>3, <1>4, <1>8
    <3>2. K[p] <= K[x.tmevt_heap[n]] BY <2>3, <1>2 DEF Hole, p
    <3>3. x.tmevt_heap[n] \in Event BY <2>3, <1>8, <1>2 DEF Hole, Held
    <3>4. K[x.tmevt_heap[n]] \in Nat BY <3>3
    <3> QED BY <3>1, <3>2, <3>4, <2>1
  <2> QED BY <2>2, <2>3
<1>13. Frame(x, y, R) BY <1>3, <1>4 DEF Frame
<1>14. R \subseteq Event BY DEF Hole
<1>15. Hole(y, up, R, K) BY <1>2, <1>4, <1>6, <1>7, <1>9, <1>11, <1>14 DEF Hole
<1> QED BY <1>2, <1>12, <1>13, <1>15 DEF y, p, up

(* The earlier child of the hole, which is no later than the other one.    *)
LEMMA Earlier ==
    ASSUME NEW x, NEW at, NEW R, Hole(x, at, R, Key(x)), LCHILD(at) <= x.p_last
    PROVE  LET c == earlier_child(x, at) IN
           /\ c \in 2 .. x.p_last /\ PARENT(c) = at
           /\ \A n \in 2 .. x.p_last :
                PARENT(n) = at => Key(x)[x.tmevt_heap[c]] <= Key(x)[x.tmevt_heap[n]]
<1> DEFINE K == Key(x)
           left == 2 * at
<1>1. /\ x \in HeapState /\ x.p_last \in Nat /\ at \in Nat /\ at >= 1 /\ left <= x.p_last
      /\ left \in 2 .. x.p_last
  BY Nodes DEF Hole, HeapState, LCHILD
<1>2. K \in [Event -> Nat] BY <1>1, Keys
<1>3. ASSUME NEW n \in 2 .. x.p_last, PARENT(n) = at
      PROVE  /\ n = left \/ n = left + 1
             /\ x.tmevt_heap[n] \in Event /\ K[x.tmevt_heap[n]] \in Nat
             /\ K[x.tmevt_heap[n]] = EVTTIM_ADVANCE(x, time_at(x, n))
  <2>1. n = left \/ n = left + 1 BY <1>1, <1>3, Parents
  <2>2. n # at BY <1>1, <2>1
  <2>3. x.tmevt_heap[n] \in Event BY <2>2, <1>1 DEF Hole, Held
  <2> QED BY <2>1, <2>3, <1>2 DEF Key, time_at
<1>4. PARENT(left) = at /\ PARENT(left + 1) = at BY <1>1, Children
<1> HIDE DEF K
<1>5. CASE left + 1 <= x.p_last /\ EVTTIM_LT(x, time_at(x, left + 1), time_at(x, left))
  <2>1. earlier_child(x, at) = left + 1 BY <1>5 DEF earlier_child, LCHILD
  <2>2. left + 1 \in 2 .. x.p_last BY <1>1, <1>5
  <2>3. K[x.tmevt_heap[left + 1]] <= K[x.tmevt_heap[left]]
    BY <1>3, <1>4, <1>5, <2>2, <1>1 DEF EVTTIM_LT
  <2>4. K[x.tmevt_heap[left + 1]] \in Nat BY <1>3, <1>4, <2>2
  <2> QED BY <2>1, <2>2, <2>3, <2>4, <1>3, <1>4 DEF K
<1>6. CASE ~(left + 1 <= x.p_last /\ EVTTIM_LT(x, time_at(x, left + 1), time_at(x, left)))
  <2>1. earlier_child(x, at) = left BY <1>6 DEF earlier_child, LCHILD
  <2>2. K[x.tmevt_heap[left]] \in Nat BY <1>1, <1>3, <1>4
  <2>3. ASSUME left + 1 \in 2 .. x.p_last PROVE K[x.tmevt_heap[left]] <= K[x.tmevt_heap[left + 1]]
    <3>1. ~EVTTIM_LT(x, time_at(x, left + 1), time_at(x, left)) BY <1>6, <2>3
    <3>2. /\ K[x.tmevt_heap[left + 1]] \in Nat
          /\ K[x.tmevt_heap[left + 1]] = EVTTIM_ADVANCE(x, time_at(x, left + 1))
          /\ K[x.tmevt_heap[left]] = EVTTIM_ADVANCE(x, time_at(x, left))
      BY <1>1, <1>3, <1>4, <2>3
    <3> QED BY <3>1, <3>2, <2>2 DEF EVTTIM_LT
  <2> QED BY <2>1, <2>2, <2>3, <1>1, <1>3, <1>4 DEF K
<1> QED BY <1>5, <1>6

(* Moving the earlier child of the hole into it takes the hole down.       *)
LEMMA HoleDown ==
    ASSUME NEW x, NEW at, NEW R, NEW K \in [Event -> Nat], NEW v \in Nat, NEW c,
           Hole(x, at, R, K), FitsAbove(x, at, K, v), c \in 2 .. x.p_last, PARENT(c) = at,
           \A n \in 2 .. x.p_last : PARENT(n) = at => K[x.tmevt_heap[c]] <= K[x.tmevt_heap[n]],
           ~(v <= K[x.tmevt_heap[c]])
    PROVE  LET y == place(x, x.tmevt_heap[c], at) IN
           /\ Hole(y, c, R, K) /\ FitsAbove(y, c, K, v)
           /\ Frame(x, y, R) /\ at < c
<1> DEFINE p == x.tmevt_heap[c]
           y == place(x, p, at)
<1>1. x \in HeapState /\ x.p_last \in 0 .. N /\ at \in Node /\ at \in 1 .. x.p_last
  BY Nodes DEF Hole, HeapState
<1>2. c \in Nat /\ at < c /\ at \in Nat /\ c \in Node /\ c \in 1 .. x.p_last
  BY <1>1, Parents, Nodes
<1>3. p \in R /\ p \in Event /\ x.p_tmevtn[p] = c
  BY <1>2 DEF Hole, Held
<1>4. /\ y \in HeapState /\ y.p_last = x.p_last /\ y.evttim = x.evttim
      /\ y.current_evttim = x.current_evttim
      /\ \A m \in Node : y.tmevt_heap[m] = IF m = at THEN p ELSE x.tmevt_heap[m]
      /\ \A d \in Event : y.p_tmevtn[d] = IF d = p THEN at ELSE x.p_tmevtn[d]
  BY <1>1, <1>3, Place
<1>5. \A n \in 1 .. x.p_last : n \in Node BY <1>1, Nodes
<1> HIDE DEF y, p
<1>6. \A n \in 1 .. x.p_last : n # c => Held(y, n, R)
  <2>1. SUFFICES ASSUME NEW n \in 1 .. x.p_last, n # c PROVE Held(y, n, R) OBVIOUS
  <2>2. CASE n = at BY <2>2, <1>3, <1>4, <1>1 DEF Held
  <2>3. CASE n # at
    <3>1. Held(x, n, R) BY <2>3 DEF Hole
    <3>2. y.tmevt_heap[n] = x.tmevt_heap[n] BY <2>3, <1>4, <1>5
    <3>3. x.tmevt_heap[n] # p BY <3>1, <1>3, <2>1 DEF Held
    <3>4. x.tmevt_heap[n] \in Event BY <3>1 DEF Hole, Held
    <3> QED BY <3>1, <3>2, <3>3, <3>4, <1>4 DEF Held
  <2> QED BY <2>2, <2>3
<1>7. \A d \in R : /\ y.p_tmevtn[d] \in 1 .. x.p_last /\ y.p_tmevtn[d] # c
                   /\ y.tmevt_heap[y.p_tmevtn[d]] = d
  <2> TAKE d \in R
  <2>1. d \in Event /\ x.p_tmevtn[d] \in 1 .. x.p_last /\ x.p_tmevtn[d] # at
        /\ x.tmevt_heap[x.p_tmevtn[d]] = d
    BY DEF Hole
  <2>2. CASE d = p BY <2>2, <1>1, <1>2, <1>4, <2>1
  <2>3. CASE d # p
    <3>1. y.p_tmevtn[d] = x.p_tmevtn[d] BY <2>1, <2>3, <1>4
    <3>2. x.p_tmevtn[d] # c BY <2>1, <2>3 DEF p
    <3> QED BY <3>1, <3>2, <2>1, <1>4, <1>5
  <2> QED BY <2>2, <2>3
<1>8. ASSUME NEW n \in 2 .. x.p_last
      PROVE  /\ n \in Node /\ PARENT(n) \in Node /\ PARENT(n) < n /\ n \in Nat /\ PARENT(n) \in Nat
             /\ PARENT(n) >= 1
  BY <1>1, <1>5, Parents, Nodes
<1>9. \A n \in 2 .. x.p_last : n # at => x.tmevt_heap[n] \in Event /\ K[x.tmevt_heap[n]] \in Nat
  <2> TAKE n \in 2 .. x.p_last
  <2> HAVE n # at
  <2>1. x.tmevt_heap[n] \in Event BY DEF Hole, Held
  <2> QED BY <2>1
<1>10. \A n \in 2 .. x.p_last :
         n # c /\ PARENT(n) # c => K[y.tmevt_heap[PARENT(n)]] <= K[y.tmevt_heap[n]]
  <2> SUFFICES ASSUME NEW n \in 2 .. x.p_last, n # c, PARENT(n) # c
               PROVE  K[y.tmevt_heap[PARENT(n)]] <= K[y.tmevt_heap[n]]
    OBVIOUS
  <2>1. CASE n = at
    <3>1. PARENT(n) # at /\ at > 1 BY <2>1, <1>8
    <3>2. y.tmevt_heap[n] = p /\ y.tmevt_heap[PARENT(n)] = x.tmevt_heap[PARENT(at)]
      BY <3>1, <2>1, <1>4, <1>8
    <3>3. K[x.tmevt_heap[PARENT(at)]] <= K[p] BY <3>1 DEF Hole, p
    <3> QED BY <3>2, <3>3
  <2>2. CASE PARENT(n) = at
    <3>1. n # at BY <2>2, <1>8
    <3>2. y.tmevt_heap[PARENT(n)] = p /\ y.tmevt_heap[n] = x.tmevt_heap[n]
      BY <3>1, <2>2, <1>4, <1>8
    <3> QED BY <3>2, <2>2 DEF p
  <2>3. CASE n # at /\ PARENT(n) # at
    BY <2>3, <1>4, <1>8 DEF Hole
  <2> QED BY <2>1, <2>2, <2>3
<1>11. \A n \in 2 .. x.p_last :
         PARENT(n) = c /\ c > 1 => K[y.tmevt_heap[PARENT(c)]] <= K[y.tmevt_heap[n]]
  <2> SUFFICES ASSUME NEW n \in 2 .. x.p_last, PARENT(n) = c
               PROVE  K[y.tmevt_heap[PARENT(c)]] <= K[y.tmevt_heap[n]]
    OBVIOUS
  <2>1. n # at /\ c # at BY <1>2, <1>8
  <2>2. y.tmevt_heap[PARENT(c)] = p /\ y.tmevt_heap[n] = x.tmevt_heap[n]
    BY <2>1, <1>1, <1>4, <1>8
  <2>3. K[p] <= K[x.tmevt_heap[n]] BY <2>1 DEF Hole, p
  <2> QED BY <2>2, <2>3
<1>12. FitsAbove(y, c, K, v)
  <2>1. y.tmevt_heap[PARENT(c)] = p BY <1>1, <1>4
  <2>2. K[p] \in Nat /\ ~(v <= K[p]) BY <1>3 DEF p
  <2> QED BY <2>1, <2>2 DEF FitsAbove
<1>13. Frame(x, y, R) BY <1>3, <1>4 DEF Frame
<1>14. R \subseteq Event BY DEF Hole
<1>15. Hole(y, c, R, K) BY <1>2, <1>4, <1>6, <1>7, <1>10, <1>11, <1>14 DEF Hole
<1> QED BY <1>2, <1>12, <1>13, <1>15 DEF y, p

-----------------------------------------------------------------------------
(* The routines are also used on states that have more than a heap. They   *)
(* touch nothing else: such a state, x, is taken to x with what they make  *)
(* of its heap alone.                                                      *)
Core(x) ==
    [ tmevt_heap |-> x.tmevt_heap, p_last |-> x.p_last, p_tmevtn |-> x.p_tmevtn,
      evttim |-> x.evttim, current_evttim |-> x.current_evttim ]

Over(x, y) ==
    [x EXCEPT !.tmevt_heap = y.tmevt_heap, !.p_last = y.p_last, !.p_tmevtn = y.p_tmevtn]

\* y has the times of x
Timed(x, y) ==
    x \in TimeState /\ y \in HeapState
    /\ y.evttim = x.evttim /\ y.current_evttim = x.current_evttim

LEMMA OverIs ==
    ASSUME NEW x, NEW y, Timed(x, y)
    PROVE  LET z == Over(x, y) IN
           /\ z \in TimeState /\ z.tmevt_heap = y.tmevt_heap /\ z.p_last = y.p_last
           /\ z.p_tmevtn = y.p_tmevtn /\ z.evttim = y.evttim
           /\ z.current_evttim = y.current_evttim /\ Core(z) = y
<1> DEFINE z == Over(x, y)
<1>1. x \in TimeState /\ y \in HeapState /\ y.evttim = x.evttim /\ y.current_evttim = x.current_evttim
  BY DEF Timed
<1>2. /\ z \in TimeState /\ z.tmevt_heap = y.tmevt_heap /\ z.p_last = y.p_last
      /\ z.p_tmevtn = y.p_tmevtn /\ z.evttim = y.evttim
      /\ z.current_evttim = y.current_evttim
  BY <1>1 DEF Over, TimeState, HeapState
<1> HIDE DEF z
<1>3. Core(z) = y BY <1>1, <1>2 DEF Core, HeapState
<1> QED BY <1>2, <1>3 DEF z

LEMMA OverPlace ==
    ASSUME NEW x, NEW y, Timed(x, y), NEW e, NEW n
    PROVE  place(Over(x, y), e, n) = Over(x, place(y, e, n))
BY DEF Timed, place, Over, TimeState, HeapState

LEMMA OverCleared ==
    ASSUME NEW x, NEW y, Timed(x, y), NEW e, NEW n
    PROVE  cleared(Over(x, y), e, n) = Over(x, cleared(y, e, n))
BY DEF Timed, cleared, Over, TimeState, HeapState

LEMMA OverLast ==
    ASSUME NEW x, NEW y, Timed(x, y), NEW l
    PROVE  [Over(x, y) EXCEPT !.p_last = l] = Over(x, [y EXCEPT !.p_last = l])
BY DEF Timed, Over, TimeState, HeapState

LEMMA OverAdvance ==
    ASSUME NEW x, NEW y, Timed(x, y)
    PROVE  \A v : EVTTIM_ADVANCE(Over(x, y), v) = EVTTIM_ADVANCE(y, v)
BY OverIs DEF EVTTIM_ADVANCE, boundary_evttim

-----------------------------------------------------------------------------
(* The loops of tmevt_up and tmevt_down, step by step. The states they can *)
(* reach are in any set that the steps do not leave.                       *)
UpStep(x, v, s) ==
    IF s.at = 1 \/ EVTTIM_LE(x, time_at(s.h, PARENT(s.at)), v) THEN s
    ELSE [h |-> place(s.h, s.h.tmevt_heap[PARENT(s.at)], s.at), at |-> PARENT(s.at)]

DownStep(x, v, s) ==
    IF \/ LCHILD(s.at) > s.h.p_last
       \/ EVTTIM_LE(x, v, time_at(s.h, earlier_child(s.h, s.at))) THEN s
    ELSE [h |-> place(s.h, s.h.tmevt_heap[earlier_child(s.h, s.at)], s.at),
          at |-> earlier_child(s.h, s.at)]

UpRuns(g, x, at, v, S) ==
    /\ g \in [0 .. N -> S] /\ g[0] = [h |-> x, at |-> at]
    /\ \A i \in 0 .. N - 1 : g[i + 1] = UpStep(x, v, g[i])
    /\ tmevt_up(x, at, v) = g[N]

LEMMA UpRun ==
    ASSUME NEW x, NEW at, NEW v, NEW S, [h |-> x, at |-> at] \in S,
           \A s \in S : UpStep(x, v, s) \in S
    PROVE  \E g : UpRuns(g, x, at, v, S)
<1> DEFINE s0 == [h |-> x, at |-> at]
           f  == [s \in S |-> UpStep(x, v, s)]
           climb[i \in 0 .. Cardinality(Event)] ==
             IF i = 0 THEN [h |-> x, at |-> at]
             ELSE LET s == climb[i - 1]
                      parent == PARENT(s.at)
                  IN  IF s.at = 1 \/ EVTTIM_LE(x, time_at(s.h, parent), v) THEN s
                      ELSE [h |-> place(s.h, s.h.tmevt_heap[parent], s.at), at |-> parent]
           body(g) == [i \in 0 .. Cardinality(Event) |->
             IF i = 0 THEN [h |-> x, at |-> at]
             ELSE LET s == g[i - 1]
                      parent == PARENT(s.at)
                  IN  IF s.at = 1 \/ EVTTIM_LE(x, time_at(s.h, parent), v) THEN s
                      ELSE [h |-> place(s.h, s.h.tmevt_heap[parent], s.at), at |-> parent]]
<1>1. climb = CHOOSE g : g = body(g) BY Zenon
<1>2. tmevt_up(x, at, v) = climb[Cardinality(Event)] BY Zenon DEF tmevt_up
<1> HIDE DEF climb
<1>3. N \in Nat /\ Cardinality(Event) = N BY Nodes DEF N
<1>4. s0 \in S /\ f \in [S -> S] OBVIOUS
<1> HIDE DEF s0, f
<1>5. PICK g : Iterates(g, N, S, s0, f) BY <1>3, <1>4, Iterate
<1>6. g \in [0 .. N -> S] /\ g[0] = [h |-> x, at |-> at] BY <1>5 DEF s0, Iterates
<1>7. ASSUME NEW i \in 0 .. N - 1 PROVE g[i + 1] = UpStep(x, v, g[i])
  <2>1. g[i] \in S BY <1>3, <1>6
  <2> QED BY <2>1, <1>5 DEF f, Iterates
<1>8. g = body(g)
  <2>1. ASSUME NEW i \in 0 .. N PROVE g[i] = body(g)[i]
    <3>1. CASE i = 0 BY <3>1, <1>6, <1>3
    <3>2. CASE i # 0
      <4>1. i - 1 \in 0 .. N - 1 /\ (i - 1) + 1 = i BY <3>2, <1>3
      <4>2. g[i] = UpStep(x, v, g[i - 1]) BY <4>1, <1>7
      <4> QED BY <4>2, <3>2, <1>3 DEF UpStep
    <3> QED BY <3>1, <3>2
  <2>2. body(g) = [i \in 0 .. N |-> body(g)[i]] BY <1>3
  <2>3. g = [i \in 0 .. N |-> g[i]] BY <1>6
  <2> HIDE DEF body
  <2> QED BY <2>1, <2>2, <2>3
<1> HIDE DEF body
<1>9. climb = body(climb) BY <1>1, <1>8
<1>10. \A i \in 0 .. N : climb[i] = g[i]
  <2> DEFINE P == {i \in 0 .. N : climb[i] = g[i]}
  <2>1. 0 \in P BY <1>3, <1>6, <1>9 DEF body
  <2>2. ASSUME NEW i \in 0 .. N - 1, i \in P PROVE i + 1 \in P
    <3>1. i + 1 \in 0 .. N /\ i + 1 # 0 /\ (i + 1) - 1 = i BY <1>3
    <3>2. climb[i + 1] = body(climb)[i + 1] /\ climb[i] = g[i] BY <1>9, <2>2
    <3>3. body(climb)[i + 1] = UpStep(x, v, climb[i])
      BY <1>3, <3>1 DEF body, UpStep
    <3> QED BY <3>1, <3>2, <3>3, <1>7
  <2> HIDE DEF P
  <2>3. \A i \in 0 .. N : i \in P BY <1>3, <2>1, <2>2, Induct
  <2> QED BY <2>3 DEF P
<1>11. UpRuns(g, x, at, v, S) BY <1>2, <1>3, <1>6, <1>7, <1>10 DEF UpRuns
<1> QED BY <1>11

(* So the loop does the same over more than a heap.                        *)
LEMMA OverUp ==
    ASSUME NEW x, NEW y, NEW at, NEW v, NEW S \in SUBSET [h : HeapState, at : Node],
           [h |-> y, at |-> at] \in S,
           \A s \in S : UpStep(y, v, s) \in S /\ Timed(x, s.h)
    PROVE  LET s == tmevt_up(y, at, v)
           IN  tmevt_up(Over(x, y), at, v) = [h |-> Over(x, s.h), at |-> s.at]
<1> DEFINE z    == Over(x, y)
           F(s) == [h |-> Over(x, s.h), at |-> s.at]
           T    == {F(s) : s \in S}
           start == [h |-> y, at |-> at]
<1>1. Timed(x, y) /\ F(start) = [h |-> z, at |-> at] OBVIOUS
<1>2. ASSUME NEW s \in S PROVE UpStep(z, v, F(s)) = F(UpStep(y, v, s))
  <2> DEFINE w == Over(x, s.h)
             n == PARENT(s.at)
  <2>1. Timed(x, s.h) OBVIOUS
  <2>2. w.tmevt_heap = s.h.tmevt_heap /\ w.evttim = s.h.evttim BY <2>1, OverIs
  <2>3. EVTTIM_LE(z, time_at(w, n), v) <=> EVTTIM_LE(y, time_at(s.h, n), v)
    BY <1>1, <2>2, OverAdvance DEF EVTTIM_LE, time_at
  <2>4. \A e, m : place(w, e, m) = Over(x, place(s.h, e, m)) BY <2>1, OverPlace
  <2>5. F(s).h = w /\ F(s).at = s.at OBVIOUS
  <2> HIDE DEF w, z
  <2>6. CASE s.at = 1 \/ EVTTIM_LE(y, time_at(s.h, n), v)
    <3>1. UpStep(y, v, s) = s BY <2>6 DEF UpStep
    <3>2. UpStep(z, v, F(s)) = F(s) BY <2>3, <2>5, <2>6 DEF UpStep
    <3> QED BY <3>1, <3>2
  <2>7. CASE ~(s.at = 1 \/ EVTTIM_LE(y, time_at(s.h, n), v))
    <3>1. UpStep(y, v, s) = [h |-> place(s.h, s.h.tmevt_heap[n], s.at), at |-> n]
      BY <2>7 DEF UpStep
    <3>2. UpStep(z, v, F(s)) = [h |-> place(w, w.tmevt_heap[n], s.at), at |-> n]
      BY <2>3, <2>5, <2>7 DEF UpStep
    <3> QED BY <3>1, <3>2, <2>2, <2>4
  <2> QED BY <2>6, <2>7
<1>3. [h |-> z, at |-> at] \in T BY <1>1
<1>4. ASSUME NEW r \in T PROVE UpStep(z, v, r) \in T
  <2>1. PICK s \in S : r = F(s) OBVIOUS
  <2>2. UpStep(y, v, s) \in S OBVIOUS
  <2>3. UpStep(z, v, r) = F(UpStep(y, v, s)) BY <1>2, <2>1
  <2> HIDE DEF F, z
  <2> QED BY <2>2, <2>3
<1>5. PICK g : UpRuns(g, y, at, v, S) BY UpRun
<1> HIDE DEF T, F, z
<1>6. PICK f : UpRuns(f, z, at, v, T) BY <1>3, <1>4, UpRun
<1> DEFINE P == {i \in 0 .. N : f[i] = F(g[i])}
<1>7. N \in Nat BY Nodes
<1>8. 0 \in P BY <1>1, <1>5, <1>6, <1>7 DEF UpRuns
<1>9. ASSUME NEW i \in 0 .. N - 1, i \in P PROVE i + 1 \in P
  <2>1. i + 1 \in 0 .. N /\ g[i] \in S BY <1>5, <1>7 DEF UpRuns
  <2>2. f[i + 1] = UpStep(z, v, f[i]) /\ g[i + 1] = UpStep(y, v, g[i])
    BY <1>5, <1>6 DEF UpRuns
  <2> QED BY <2>1, <2>2, <1>2, <1>9
<1> HIDE DEF P
<1>10. N \in P
  <2>1. \A i \in 0 .. N : i \in P BY <1>7, <1>8, <1>9, Induct
  <2> QED BY <2>1, <1>7
<1>11. f[N] = F(g[N]) BY <1>10 DEF P
<1> QED BY <1>5, <1>6, <1>11 DEF UpRuns, F, z

DownRuns(g, x, at, v, S) ==
    /\ g \in [0 .. N -> S] /\ g[0] = [h |-> x, at |-> at]
    /\ \A i \in 0 .. N - 1 : g[i + 1] = DownStep(x, v, g[i])
    /\ tmevt_down(x, at, v) = g[N]

LEMMA DownRun ==
    ASSUME NEW x, NEW at, NEW v, NEW S, [h |-> x, at |-> at] \in S,
           \A s \in S : DownStep(x, v, s) \in S
    PROVE  \E g : DownRuns(g, x, at, v, S)
<1> DEFINE s0 == [h |-> x, at |-> at]
           f  == [s \in S |-> DownStep(x, v, s)]
           sink[i \in 0 .. Cardinality(Event)] ==
             IF i = 0 THEN [h |-> x, at |-> at]
             ELSE LET s == sink[i - 1]
                      child == earlier_child(s.h, s.at)
                  IN  IF LCHILD(s.at) > s.h.p_last \/ EVTTIM_LE(x, v, time_at(s.h, child)) THEN s
                      ELSE [h |-> place(s.h, s.h.tmevt_heap[child], s.at), at |-> child]
           body(g) == [i \in 0 .. Cardinality(Event) |->
             IF i = 0 THEN [h |-> x, at |-> at]
             ELSE LET s == g[i - 1]
                      child == earlier_child(s.h, s.at)
                  IN  IF LCHILD(s.at) > s.h.p_last \/ EVTTIM_LE(x, v, time_at(s.h, child)) THEN s
                      ELSE [h |-> place(s.h, s.h.tmevt_heap[child], s.at), at |-> child]]
<1>1. sink = CHOOSE g : g = body(g) BY Zenon
<1>2. tmevt_down(x, at, v) = sink[Cardinality(Event)] BY Zenon DEF tmevt_down
<1> HIDE DEF sink
<1>3. N \in Nat /\ Cardinality(Event) = N BY Nodes DEF N
<1>4. s0 \in S /\ f \in [S -> S] OBVIOUS
<1> HIDE DEF s0, f
<1>5. PICK g : Iterates(g, N, S, s0, f) BY <1>3, <1>4, Iterate
<1>6. g \in [0 .. N -> S] /\ g[0] = [h |-> x, at |-> at] BY <1>5 DEF s0, Iterates
<1>7. ASSUME NEW i \in 0 .. N - 1 PROVE g[i + 1] = DownStep(x, v, g[i])
  <2>1. g[i] \in S BY <1>3, <1>6
  <2> QED BY <2>1, <1>5 DEF f, Iterates
<1>8. g = body(g)
  <2>1. ASSUME NEW i \in 0 .. N PROVE g[i] = body(g)[i]
    <3>1. CASE i = 0 BY <3>1, <1>6, <1>3
    <3>2. CASE i # 0
      <4>1. i - 1 \in 0 .. N - 1 /\ (i - 1) + 1 = i BY <3>2, <1>3
      <4>2. g[i] = DownStep(x, v, g[i - 1]) BY <4>1, <1>7
      <4> QED BY <4>2, <3>2, <1>3 DEF DownStep
    <3> QED BY <3>1, <3>2
  <2>2. body(g) = [i \in 0 .. N |-> body(g)[i]] BY <1>3
  <2>3. g = [i \in 0 .. N |-> g[i]] BY <1>6
  <2> HIDE DEF body
  <2> QED BY <2>1, <2>2, <2>3
<1> HIDE DEF body
<1>9. sink = body(sink) BY <1>1, <1>8
<1>10. \A i \in 0 .. N : sink[i] = g[i]
  <2> DEFINE P == {i \in 0 .. N : sink[i] = g[i]}
  <2>1. 0 \in P BY <1>3, <1>6, <1>9 DEF body
  <2>2. ASSUME NEW i \in 0 .. N - 1, i \in P PROVE i + 1 \in P
    <3>1. i + 1 \in 0 .. N /\ i + 1 # 0 /\ (i + 1) - 1 = i BY <1>3
    <3>2. sink[i + 1] = body(sink)[i + 1] /\ sink[i] = g[i] BY <1>9, <2>2
    <3>3. body(sink)[i + 1] = DownStep(x, v, sink[i])
      BY <1>3, <3>1 DEF body, DownStep
    <3> QED BY <3>1, <3>2, <3>3, <1>7
  <2> HIDE DEF P
  <2>3. \A i \in 0 .. N : i \in P BY <1>3, <2>1, <2>2, Induct
  <2> QED BY <2>3 DEF P
<1>11. DownRuns(g, x, at, v, S) BY <1>2, <1>3, <1>6, <1>7, <1>10 DEF DownRuns
<1> QED BY <1>11

(* So does this loop.                                                      *)
LEMMA OverDown ==
    ASSUME NEW x, NEW y, NEW at, NEW v, NEW S \in SUBSET [h : HeapState, at : Node],
           [h |-> y, at |-> at] \in S,
           \A s \in S : DownStep(y, v, s) \in S /\ Timed(x, s.h)
    PROVE  LET s == tmevt_down(y, at, v)
           IN  tmevt_down(Over(x, y), at, v) = [h |-> Over(x, s.h), at |-> s.at]
<1> DEFINE z    == Over(x, y)
           F(s) == [h |-> Over(x, s.h), at |-> s.at]
           T    == {F(s) : s \in S}
           start == [h |-> y, at |-> at]
<1>1. Timed(x, y) /\ F(start) = [h |-> z, at |-> at] OBVIOUS
<1>2. ASSUME NEW s \in S PROVE DownStep(z, v, F(s)) = F(DownStep(y, v, s))
  <2> DEFINE w == Over(x, s.h)
             c == earlier_child(s.h, s.at)
             stop == LCHILD(s.at) > s.h.p_last \/ EVTTIM_LE(y, v, time_at(s.h, c))
  <2>1. Timed(x, s.h) OBVIOUS
  <2>2. w.tmevt_heap = s.h.tmevt_heap /\ w.evttim = s.h.evttim /\ w.p_last = s.h.p_last
    BY <2>1, OverIs
  <2>3. \A u : /\ EVTTIM_ADVANCE(z, u) = EVTTIM_ADVANCE(y, u)
               /\ EVTTIM_ADVANCE(w, u) = EVTTIM_ADVANCE(s.h, u)
    BY <1>1, <2>1, OverAdvance
  <2>4. \A e, m : place(w, e, m) = Over(x, place(s.h, e, m)) BY <2>1, OverPlace
  <2>5. F(s).h = w /\ F(s).at = s.at OBVIOUS
  <2> HIDE DEF w, z
  <2>6. \A m : time_at(w, m) = time_at(s.h, m) BY <2>2 DEF time_at
  <2>7. earlier_child(w, s.at) = c BY <2>2, <2>3, <2>6 DEF earlier_child, EVTTIM_LT
  <2> HIDE DEF c
  <2>8. stop <=> LCHILD(s.at) > w.p_last \/ EVTTIM_LE(z, v, time_at(w, c))
    BY <2>2, <2>3, <2>6 DEF EVTTIM_LE
  <2>9. CASE stop
    <3>1. DownStep(y, v, s) = s BY <2>9 DEF DownStep, c
    <3>2. DownStep(z, v, F(s)) = F(s) BY <2>5, <2>7, <2>8, <2>9 DEF DownStep
    <3> QED BY <3>1, <3>2
  <2>10. CASE ~stop
    <3>1. DownStep(y, v, s) = [h |-> place(s.h, s.h.tmevt_heap[c], s.at), at |-> c]
      BY <2>10 DEF DownStep, c
    <3>2. DownStep(z, v, F(s)) = [h |-> place(w, w.tmevt_heap[c], s.at), at |-> c]
      BY <2>5, <2>7, <2>8, <2>10 DEF DownStep
    <3> QED BY <3>1, <3>2, <2>2, <2>4
  <2> QED BY <2>9, <2>10
<1>3. [h |-> z, at |-> at] \in T BY <1>1
<1>4. ASSUME NEW r \in T PROVE DownStep(z, v, r) \in T
  <2>1. PICK s \in S : r = F(s) OBVIOUS
  <2>2. DownStep(y, v, s) \in S OBVIOUS
  <2>3. DownStep(z, v, r) = F(DownStep(y, v, s)) BY <1>2, <2>1
  <2> HIDE DEF F, z
  <2> QED BY <2>2, <2>3
<1>5. PICK g : DownRuns(g, y, at, v, S) BY DownRun
<1> HIDE DEF T, F, z
<1>6. PICK f : DownRuns(f, z, at, v, T) BY <1>3, <1>4, DownRun
<1> DEFINE P == {i \in 0 .. N : f[i] = F(g[i])}
<1>7. N \in Nat BY Nodes
<1>8. 0 \in P BY <1>1, <1>5, <1>6, <1>7 DEF DownRuns
<1>9. ASSUME NEW i \in 0 .. N - 1, i \in P PROVE i + 1 \in P
  <2>1. i + 1 \in 0 .. N /\ g[i] \in S BY <1>5, <1>7 DEF DownRuns
  <2>2. f[i + 1] = DownStep(z, v, f[i]) /\ g[i + 1] = DownStep(y, v, g[i])
    BY <1>5, <1>6 DEF DownRuns
  <2> QED BY <2>1, <2>2, <1>2, <1>9
<1> HIDE DEF P
<1>10. N \in P
  <2>1. \A i \in 0 .. N : i \in P BY <1>7, <1>8, <1>9, Induct
  <2> QED BY <2>1, <1>7
<1>11. f[N] = F(g[N]) BY <1>10 DEF P
<1> QED BY <1>5, <1>6, <1>11 DEF DownRuns, F, z

LEMMA FrameTrans ==
    ASSUME NEW x, NEW y, NEW z, NEW R, Frame(x, y, R), Frame(y, z, R)
    PROVE  Frame(x, z, R)
BY DEF Frame

(* Where tmevt_up leaves the hole the event may stand.                     *)
LEMMA Up ==
    ASSUME NEW x, NEW at, NEW R, NEW v \in EVTTIM, Hole(x, at, R, Key(x)),
           FitsBelow(x, at, Key(x), EVTTIM_ADVANCE(x, v))
    PROVE  LET s == tmevt_up(x, at, v) IN
           /\ Hole(s.h, s.at, R, Key(x)) /\ Frame(x, s.h, R)
           /\ FitsBelow(s.h, s.at, Key(x), EVTTIM_ADVANCE(x, v))
           /\ FitsAbove(s.h, s.at, Key(x), EVTTIM_ADVANCE(x, v))
           /\ \A z : Timed(z, x) =>
                tmevt_up(Over(z, x), at, v) = [h |-> Over(z, s.h), at |-> s.at]
<1> DEFINE K == Key(x)
           w == EVTTIM_ADVANCE(x, v)
           Good(s) == /\ Hole(s.h, s.at, R, K) /\ FitsBelow(s.h, s.at, K, w)
                      /\ Frame(x, s.h, R)
           S == {s \in [h : HeapState, at : Node] : Good(s)}
           stop(s) == s.at = 1 \/ EVTTIM_LE(x, time_at(s.h, PARENT(s.at)), v)
           s0 == [h |-> x, at |-> at]
<1>1. x \in HeapState /\ K \in [Event -> Nat] /\ w \in Nat /\ N \in Nat
  <2>1. x \in HeapState BY DEF Hole
  <2> QED BY <2>1, Keys, Advance, Nodes DEF HeapState
<1>2. \A y, n : Hole(y, n, R, K) => y \in HeapState /\ n \in Node
  BY Nodes DEF Hole, HeapState
<1>3. s0 \in S
  <2>1. Frame(x, x, R) BY DEF Frame
  <2> QED BY <1>2, <2>1
<1> HIDE DEF K, w, s0
<1>4. ASSUME NEW s \in S, s.at # 1
      PROVE  /\ stop(s) <=> K[s.h.tmevt_heap[PARENT(s.at)]] <= w
             /\ s.at \in Nat /\ s.at > 1
  <2>1. /\ s.h \in HeapState /\ s.at \in 1 .. s.h.p_last /\ s.h.p_last \in Nat
        /\ s.h.evttim = x.evttim
    BY <1>1, Nodes DEF Hole, HeapState, Frame
  <2>2. PARENT(s.at) \in 1 .. s.h.p_last /\ PARENT(s.at) # s.at BY <2>1, <1>4, Parents
  <2>3. s.h.tmevt_heap[PARENT(s.at)] \in Event BY <2>2 DEF Hole, Held
  <2> QED BY <2>1, <2>3, <1>4 DEF K, w, Key, EVTTIM_LE, time_at
<1>5. ASSUME NEW s \in S, ~stop(s)
      PROVE  UpStep(x, v, s) \in S /\ UpStep(x, v, s).at < s.at
  <2> DEFINE y == place(s.h, s.h.tmevt_heap[PARENT(s.at)], s.at)
             n == PARENT(s.at)
  <2>1. s.at > 1 /\ ~(K[s.h.tmevt_heap[PARENT(s.at)]] <= w) BY <1>4, <1>5
  <2>2. Hole(y, n, R, K) /\ FitsBelow(y, n, K, w) /\ Frame(s.h, y, R) /\ n < s.at
    BY <2>1, <1>1, HoleUp
  <2>3. UpStep(x, v, s) = [h |-> y, at |-> n] BY <1>5 DEF UpStep
  <2> HIDE DEF y, n
  <2>4. Frame(x, y, R) BY <2>2, FrameTrans
  <2>5. y \in HeapState /\ n \in Node BY <2>2, <1>2
  <2> QED BY <2>2, <2>3, <2>4, <2>5
<1>6. \A s \in S : stop(s) => UpStep(x, v, s) = s BY DEF UpStep
<1>7. \A s \in S : UpStep(x, v, s) \in S BY <1>5, <1>6
<1>8. \A s \in S : s.at \in Node OBVIOUS
<1>9. \A s \in S : stop(s) => FitsAbove(s.h, s.at, K, w) BY <1>4 DEF FitsAbove
<1>10. \A s \in S : Good(s) OBVIOUS
<1>20. ASSUME NEW z, Timed(z, x)
       PROVE  LET s == tmevt_up(x, at, v)
              IN  tmevt_up(Over(z, x), at, v) = [h |-> Over(z, s.h), at |-> s.at]
  <2>1. \A s \in S : Timed(z, s.h) BY <1>20 DEF Frame, Timed
  <2>2. S \in SUBSET [h : HeapState, at : Node] OBVIOUS
  <2>3. [h |-> x, at |-> at] \in S BY <1>3 DEF s0
  <2> HIDE DEF S
  <2> QED BY <2>1, <2>2, <2>3, <1>7, OverUp
<1> HIDE DEF S, stop
<1>11. PICK g :
          /\ g \in [0 .. N -> S] /\ g[0] = s0
          /\ \A i \in 0 .. N - 1 : g[i + 1] = UpStep(x, v, g[i])
          /\ tmevt_up(x, at, v) = g[N]
  <2>1. [h |-> x, at |-> at] \in S BY <1>3 DEF s0
  <2>2. PICK g : UpRuns(g, x, at, v, S) BY <2>1, <1>7, UpRun
  <2> QED BY <2>2 DEF UpRuns, s0
<1> DEFINE P == {i \in 0 .. N : stop(g[i]) \/ g[i].at + i <= N}
<1>12. 0 \in P BY <1>1, <1>8, <1>11, Nodes
<1>13. ASSUME NEW i \in 0 .. N - 1, i \in P PROVE i + 1 \in P
  <2>1. i + 1 \in 0 .. N /\ g[i] \in S /\ g[i + 1] \in S BY <1>1, <1>11
  <2>2. CASE stop(g[i]) BY <2>1, <2>2, <1>6, <1>11
  <2>3. CASE ~stop(g[i])
    <3>1. g[i + 1].at < g[i].at /\ g[i].at \in Node /\ g[i + 1].at \in Node
      BY <2>1, <2>3, <1>5, <1>8, <1>11
    <3> QED BY <3>1, <2>1, <2>3, <1>1, <1>13, Nodes
  <2> QED BY <2>2, <2>3
<1> HIDE DEF P
<1>14. N \in P
  <2>1. \A i \in 0 .. N : i \in P BY <1>1, <1>12, <1>13, Induct
  <2> QED BY <2>1, <1>1
<1>15. g[N] \in S /\ stop(g[N])
  <2>1. g[N] \in S BY <1>1, <1>11
  <2>2. stop(g[N]) \/ g[N].at + N <= N BY <1>14 DEF P
  <2> QED BY <2>1, <2>2, <1>1, <1>8, Nodes
<1> QED BY <1>20, <1>9, <1>10, <1>11, <1>15 DEF K, w

(* So it may where tmevt_down leaves it.                                   *)
LEMMA Down ==
    ASSUME NEW x, NEW at, NEW R, NEW v \in EVTTIM, Hole(x, at, R, Key(x)),
           FitsAbove(x, at, Key(x), EVTTIM_ADVANCE(x, v))
    PROVE  LET s == tmevt_down(x, at, v) IN
           /\ Hole(s.h, s.at, R, Key(x)) /\ Frame(x, s.h, R)
           /\ FitsBelow(s.h, s.at, Key(x), EVTTIM_ADVANCE(x, v))
           /\ FitsAbove(s.h, s.at, Key(x), EVTTIM_ADVANCE(x, v))
           /\ \A z : Timed(z, x) =>
                tmevt_down(Over(z, x), at, v) = [h |-> Over(z, s.h), at |-> s.at]
<1> DEFINE K == Key(x)
           w == EVTTIM_ADVANCE(x, v)
           Good(s) == /\ Hole(s.h, s.at, R, K) /\ FitsAbove(s.h, s.at, K, w)
                      /\ Frame(x, s.h, R)
           S == {s \in [h : HeapState, at : Node] : Good(s)}
           child(s) == earlier_child(s.h, s.at)
           stop(s) == \/ LCHILD(s.at) > s.h.p_last
                      \/ EVTTIM_LE(x, v, time_at(s.h, child(s)))
           s0 == [h |-> x, at |-> at]
<1>1. x \in HeapState /\ K \in [Event -> Nat] /\ w \in Nat /\ N \in Nat
  <2>1. x \in HeapState BY DEF Hole
  <2> QED BY <2>1, Keys, Advance, Nodes DEF HeapState
<1>2. \A y, n : Hole(y, n, R, K) => y \in HeapState /\ n \in Node
  BY Nodes DEF Hole, HeapState
<1>3. s0 \in S
  <2>1. Frame(x, x, R) BY DEF Frame
  <2> QED BY <1>2, <2>1
<1> HIDE DEF K, w, s0
<1>4. \A s \in S : s.at \in Node /\ s.h \in HeapState OBVIOUS
<1>5. \A s \in S : Good(s) OBVIOUS
<1>6. ASSUME NEW s \in S, LCHILD(s.at) <= s.h.p_last
      PROVE  /\ child(s) \in 2 .. s.h.p_last /\ PARENT(child(s)) = s.at
             /\ \A n \in 2 .. s.h.p_last :
                  PARENT(n) = s.at => K[s.h.tmevt_heap[child(s)]] <= K[s.h.tmevt_heap[n]]
             /\ stop(s) <=> w <= K[s.h.tmevt_heap[child(s)]]
  <2>1. Key(s.h) = K BY <1>1 DEF Frame, K, Key, EVTTIM_ADVANCE, boundary_evttim
  <2>2. Hole(s.h, s.at, R, Key(s.h)) BY <2>1
  <2> DEFINE c == child(s)
  <2>3. /\ c \in 2 .. s.h.p_last /\ PARENT(c) = s.at
        /\ \A n \in 2 .. s.h.p_last :
             PARENT(n) = s.at => K[s.h.tmevt_heap[c]] <= K[s.h.tmevt_heap[n]]
    BY <2>1, <2>2, <1>6, Earlier
  <2> HIDE DEF child
  <2>4. s.at \in Nat /\ s.h.p_last \in Nat /\ s.h.evttim = x.evttim
    BY <1>4, <1>5, Nodes DEF HeapState, Frame
  <2>5. c \in 1 .. s.h.p_last /\ c # s.at BY <2>3, <2>4, Parents
  <2>6. s.h.tmevt_heap[c] \in Event BY <2>5, <1>5 DEF Hole, Held
  <2>7. K[s.h.tmevt_heap[c]] = EVTTIM_ADVANCE(x, time_at(s.h, c))
    BY <2>4, <2>6 DEF K, Key, time_at
  <2>8. ~(LCHILD(s.at) > s.h.p_last) BY <1>6, <2>4 DEF LCHILD
  <2> QED BY <2>3, <2>7, <2>8 DEF w, EVTTIM_LE
<1>7. ASSUME NEW s \in S PROVE s.at \in Nat /\ s.h.p_last \in Nat
  BY <1>4, Nodes DEF HeapState
<1>8. ASSUME NEW s \in S, ~stop(s)
      PROVE  DownStep(x, v, s) \in S /\ DownStep(x, v, s).at > s.at
  <2> DEFINE n == child(s)
             y == place(s.h, s.h.tmevt_heap[n], s.at)
  <2>1. DownStep(x, v, s) = [h |-> y, at |-> n] BY <1>8 DEF DownStep
  <2>2. LCHILD(s.at) <= s.h.p_last BY <1>7, <1>8 DEF LCHILD
  <2> HIDE DEF child, stop
  <2>3. /\ n \in 2 .. s.h.p_last /\ PARENT(n) = s.at
        /\ \A m \in 2 .. s.h.p_last :
             PARENT(m) = s.at => K[s.h.tmevt_heap[n]] <= K[s.h.tmevt_heap[m]]
        /\ ~(w <= K[s.h.tmevt_heap[n]])
    BY <1>6, <1>8, <2>2
  <2> HIDE DEF n
  <2>4. Hole(y, n, R, K) /\ FitsAbove(y, n, K, w) /\ Frame(s.h, y, R) /\ s.at < n
    BY <2>3, <1>1, <1>5, HoleDown
  <2> HIDE DEF y
  <2>5. Frame(x, y, R) BY <2>4, <1>5, FrameTrans
  <2>6. y \in HeapState /\ n \in Node BY <2>4, <1>2
  <2>7. n > s.at BY <2>4, <2>6, <1>4, Nodes
  <2> QED BY <2>1, <2>4, <2>5, <2>6, <2>7
<1>9. \A s \in S : stop(s) => DownStep(x, v, s) = s BY DEF DownStep
<1>10. \A s \in S : DownStep(x, v, s) \in S BY <1>8, <1>9
<1>11. ASSUME NEW s \in S, stop(s) PROVE FitsBelow(s.h, s.at, K, w)
  <2> SUFFICES ASSUME NEW n \in 2 .. s.h.p_last, PARENT(n) = s.at
               PROVE  w <= K[s.h.tmevt_heap[n]]
    BY DEF FitsBelow
  <2>1. n >= 2 * s.at /\ n # s.at /\ n \in 1 .. s.h.p_last /\ n \in Nat BY <1>7, Parents
  <2>2. LCHILD(s.at) <= s.h.p_last BY <2>1, <1>7 DEF LCHILD
  <2> HIDE DEF stop
  <2>3. w <= K[s.h.tmevt_heap[child(s)]] /\ K[s.h.tmevt_heap[child(s)]] <= K[s.h.tmevt_heap[n]]
    BY <2>2, <1>6, <1>11
  <2>4. child(s) \in 1 .. s.h.p_last /\ child(s) # s.at
    BY <2>2, <1>6, <1>7, Parents
  <2>5. s.h.tmevt_heap[child(s)] \in Event /\ s.h.tmevt_heap[n] \in Event
    BY <2>1, <2>4, <1>5 DEF Hole, Held
  <2>6. K[s.h.tmevt_heap[child(s)]] \in Nat /\ K[s.h.tmevt_heap[n]] \in Nat BY <2>5, <1>1
  <2> QED BY <2>3, <2>6, <1>1
<1>20. ASSUME NEW z, Timed(z, x)
       PROVE  LET s == tmevt_down(x, at, v)
              IN  tmevt_down(Over(z, x), at, v) = [h |-> Over(z, s.h), at |-> s.at]
  <2>1. \A s \in S : Timed(z, s.h) BY <1>20 DEF Frame, Timed
  <2>2. S \in SUBSET [h : HeapState, at : Node] OBVIOUS
  <2>3. [h |-> x, at |-> at] \in S BY <1>3 DEF s0
  <2> HIDE DEF S
  <2> QED BY <2>1, <2>2, <2>3, <1>10, OverDown
<1> HIDE DEF S, stop
<1>12. PICK g :
          /\ g \in [0 .. N -> S] /\ g[0] = s0
          /\ \A i \in 0 .. N - 1 : g[i + 1] = DownStep(x, v, g[i])
          /\ tmevt_down(x, at, v) = g[N]
  <2>1. [h |-> x, at |-> at] \in S BY <1>3 DEF s0
  <2>2. PICK g : DownRuns(g, x, at, v, S) BY <2>1, <1>10, DownRun
  <2> QED BY <2>2 DEF DownRuns, s0
<1> DEFINE P == {i \in 0 .. N : stop(g[i]) \/ g[i].at >= i + 1}
<1>13. 0 \in P BY <1>1, <1>4, <1>12, Nodes
<1>14. ASSUME NEW i \in 0 .. N - 1, i \in P PROVE i + 1 \in P
  <2>1. i + 1 \in 0 .. N /\ g[i] \in S /\ g[i + 1] \in S BY <1>1, <1>12
  <2>2. CASE stop(g[i]) BY <2>1, <2>2, <1>9, <1>12
  <2>3. CASE ~stop(g[i])
    <3>1. g[i + 1].at > g[i].at /\ g[i].at \in Node /\ g[i + 1].at \in Node
      BY <2>1, <2>3, <1>8, <1>4, <1>12
    <3> QED BY <3>1, <2>1, <2>3, <1>1, <1>14, Nodes
  <2> QED BY <2>2, <2>3
<1> HIDE DEF P
<1>15. N \in P
  <2>1. \A i \in 0 .. N : i \in P BY <1>1, <1>13, <1>14, Induct
  <2> QED BY <2>1, <1>1
<1>16. g[N] \in S /\ stop(g[N])
  <2>1. g[N] \in S BY <1>1, <1>12
  <2>2. stop(g[N]) \/ g[N].at >= N + 1 BY <1>15 DEF P
  <2> QED BY <2>1, <2>2, <1>1, <1>4, Nodes
<1> QED BY <1>20, <1>5, <1>11, <1>12, <1>16 DEF K, w

-----------------------------------------------------------------------------
(* What the operations do to a heap. As many events as nodes are in it.    *)
LEMMA HeapCard ==
    ASSUME NEW x, NEW R, NEW K, Heap(x, R, K)
    PROVE  IsFiniteSet(R) /\ Cardinality(R) = x.p_last
<1>1. x.p_last \in Nat BY Nodes DEF Heap, HeapState
<1> DEFINE L == x.p_last
           f == [n \in 1 .. L |-> x.tmevt_heap[n]]
<1>2. f \in Surjection(1 .. L, R)
  <2>1. f \in [1 .. L -> R] BY DEF Heap, Held
  <2>2. \A e \in R : x.p_tmevtn[e] \in 1 .. L /\ f[x.p_tmevtn[e]] = e BY DEF Heap
  <2> HIDE DEF f
  <2> QED BY <2>1, <2>2 DEF Surjection
<1>3. f \in Injection(1 .. L, R)
  <2>1. f \in [1 .. L -> R] BY <1>2 DEF Surjection
  <2>2. \A n \in 1 .. L : x.p_tmevtn[f[n]] = n BY DEF Heap, Held
  <2> HIDE DEF f
  <2> QED BY <2>1, <2>2 DEF Injection, IsInjective
<1> HIDE DEF f
<1>4. IsFiniteSet(1 .. L) /\ Cardinality(1 .. L) = L
  <2>1. 1 \in Int /\ L \in Int BY <1>1
  <2> HIDE DEF L
  <2>2. /\ IsFiniteSet(1 .. L)
        /\ Cardinality(1 .. L) = IF 1 > L THEN 0 ELSE L - 1 + 1
    BY <2>1, FS_Interval
  <2> QED BY <2>2, <1>1 DEF L
<1> QED BY <1>2, <1>3, <1>4, FS_Surjection

LEMMA SameKeys ==
    ASSUME NEW x, NEW y, y.evttim = x.evttim, y.current_evttim = x.current_evttim
    PROVE  /\ Key(y) = Key(x)
           /\ \A t : EVTTIM_ADVANCE(y, t) = EVTTIM_ADVANCE(x, t)
BY DEF Key, EVTTIM_ADVANCE, boundary_evttim

(* The times of two events are compared as their keys are.                 *)
LEMMA KeyOf ==
    ASSUME NEW x, NEW e \in Event
    PROVE  Key(x)[e] = EVTTIM_ADVANCE(x, x.evttim[e])
BY DEF Key

LEMMA Insert ==
    ASSUME NEW x, NEW R, Heap(x, R, Key(x)), NEW e \in Event \ R
    PROVE  LET y == tmevtb_insert(x, e) IN
           /\ Heap(y, R \cup {e}, Key(y))
           /\ y.evttim = x.evttim /\ y.current_evttim = x.current_evttim
           /\ \A d \in Event \ (R \cup {e}) : y.p_tmevtn[d] = x.p_tmevtn[d]
           /\ \A z : Timed(z, x) => tmevtb_insert(Over(z, x), e) = Over(z, y)
<1> DEFINE K == Key(x)
           last == x.p_last + 1
           x1 == [x EXCEPT !.p_last = @ + 1]
           v == x.evttim[e]
           s == tmevt_up(x1, last, v)
           y == place(s.h, e, s.at)
<1>1. x \in HeapState /\ R \subseteq Event /\ x.p_last \in Nat /\ v \in EVTTIM
  BY Nodes DEF Heap, HeapState
<1>2. last \in Nat /\ last <= N
  <2>1. IsFiniteSet(R) /\ Cardinality(R) = x.p_last BY HeapCard
  <2>2. IsFiniteSet(R \cup {e}) /\ Cardinality(R \cup {e}) = x.p_last + 1 BY <2>1, FS_AddElement
  <2>3. R \cup {e} \in SUBSET Event BY <1>1
  <2>4. Cardinality(R \cup {e}) <= Cardinality(Event) BY <2>3, HeapAssumption, FS_Subset
  <2> QED BY <2>2, <2>4, <1>1 DEF N
<1>3. last \in Node BY <1>1, <1>2, Nodes
<1>4. /\ x1 \in HeapState /\ x1.p_last = last /\ x1.tmevt_heap = x.tmevt_heap
      /\ x1.p_tmevtn = x.p_tmevtn /\ x1.evttim = x.evttim
      /\ x1.current_evttim = x.current_evttim
  BY <1>1, <1>3 DEF HeapState
<1> HIDE DEF x1
<1>5. Key(x1) = K /\ EVTTIM_ADVANCE(x1, v) = K[e] BY <1>4, SameKeys, KeyOf
<1> HIDE DEF K
<1>6. \A n \in 2 .. last : PARENT(n) \in 1 .. last /\ PARENT(n) < n /\ n \in Nat /\ PARENT(n) # last
  BY <1>1, Parents
<1>7. Hole(x1, last, R, K)
  <2>1. \A n \in 1 .. last : n # last => Held(x1, n, R) BY <1>1, <1>4 DEF Heap, Held
  <2>2. \A d \in R : /\ x1.p_tmevtn[d] \in 1 .. last /\ x1.p_tmevtn[d] # last
                     /\ x1.tmevt_heap[x1.p_tmevtn[d]] = d
    BY <1>1, <1>4 DEF Heap
  <2>3. \A n \in 2 .. last : n # last => K[x1.tmevt_heap[PARENT(n)]] <= K[x1.tmevt_heap[n]]
    BY <1>1, <1>4 DEF Heap, K
  <2> QED BY <2>1, <2>2, <2>3, <1>1, <1>4, <1>6 DEF Hole
<1>8. FitsBelow(x1, last, K, K[e]) BY <1>4, <1>6 DEF FitsBelow
<1> HIDE DEF v, last
<1>9. /\ Hole(s.h, s.at, R, K) /\ Frame(x1, s.h, R)
      /\ FitsBelow(s.h, s.at, K, K[e]) /\ FitsAbove(s.h, s.at, K, K[e])
  BY <1>1, <1>5, <1>7, <1>8, Up
<1>10. K \in [Event -> Nat] BY <1>1, Keys DEF K
<1> HIDE DEF s
<1>11. Heap(y, R \cup {e}, K) BY <1>9, <1>10, Fill
<1>12. s.h \in HeapState /\ s.at \in Node BY <1>9, Nodes DEF Hole, HeapState
<1>13. /\ y.evttim = s.h.evttim /\ y.current_evttim = s.h.current_evttim
       /\ \A d \in Event : d # e => y.p_tmevtn[d] = s.h.p_tmevtn[d]
  BY <1>12, Place
<1>14. y = tmevtb_insert(x, e) BY DEF y, s, v, last, x1, tmevtb_insert
<1> HIDE DEF y
<1>15. y.evttim = x.evttim /\ y.current_evttim = x.current_evttim
  BY <1>4, <1>9, <1>13 DEF Frame
<1>16. \A d \in Event \ (R \cup {e}) : y.p_tmevtn[d] = x.p_tmevtn[d]
  BY <1>4, <1>9, <1>13 DEF Frame
<1>17. Key(y) = K BY <1>15, SameKeys DEF K
<1>18. ASSUME NEW z, Timed(z, x) PROVE tmevtb_insert(Over(z, x), e) = Over(z, y)
  <2> DEFINE c == Over(z, x)
  <2>1. c.p_last = x.p_last /\ c.evttim = x.evttim BY <1>18, OverIs
  <2>2. [c EXCEPT !.p_last = c.p_last + 1] = Over(z, x1)
    BY <1>18, <2>1, OverLast DEF x1, last
  <2> HIDE DEF c
  <2>3. tmevtb_insert(c, e) =
          LET r == tmevt_up(Over(z, x1), last, v) IN place(r.h, e, r.at)
    BY <2>1, <2>2 DEF tmevtb_insert, last, v
  <2>4. Timed(z, x1) BY <1>4, <1>18 DEF Timed
  <2>5. tmevt_up(Over(z, x1), last, v) = [h |-> Over(z, s.h), at |-> s.at]
    BY <2>4, <1>1, <1>5, <1>7, <1>8, Up DEF s
  <2>6. Timed(z, s.h) BY <2>4, <1>9, <1>12 DEF Timed, Frame
  <2>7. place(Over(z, s.h), e, s.at) = Over(z, y) BY <2>6, OverPlace DEF y
  <2> QED BY <2>3, <2>5, <2>7 DEF c
<1> QED BY <1>11, <1>14, <1>15, <1>16, <1>17, <1>18

(* tmevt_down stays where the hole has no child.                           *)
LEMMA Stays ==
    ASSUME NEW x, NEW at, NEW v, LCHILD(at) > x.p_last
    PROVE  tmevt_down(x, at, v) = [h |-> x, at |-> at]
<1> DEFINE s0 == [h |-> x, at |-> at]
           S == {s0}
<1>1. \A s \in S : DownStep(x, v, s) \in S BY DEF DownStep
<1>2. [h |-> x, at |-> at] \in S OBVIOUS
<1> HIDE DEF S
<1>3. PICK g : DownRuns(g, x, at, v, S) BY <1>1, <1>2, DownRun
<1>4. g[N] \in S /\ tmevt_down(x, at, v) = g[N] BY <1>3, Nodes DEF DownRuns
<1> QED BY <1>4 DEF S

(* cleared leaves the rest of the heap.                                    *)
LEMMA Cleared ==
    ASSUME NEW x \in HeapState, NEW e \in Event, NEW n \in Node
    PROVE  LET y == cleared(x, e, n) IN
           /\ y \in HeapState
           /\ y.p_last = x.p_last /\ y.evttim = x.evttim
           /\ y.current_evttim = x.current_evttim
           /\ \A m \in Node : m # n => y.tmevt_heap[m] = x.tmevt_heap[m]
           /\ y.p_tmevtn[e] = 0
           /\ \A d \in Event : d # e => y.p_tmevtn[d] = x.p_tmevtn[d]
BY DEF cleared, HeapState

(* The node after the last one holds e, which is taken out.                *)
LEMMA ClearedHeap ==
    ASSUME NEW x, NEW R, NEW K, Heap(x, R, K), NEW e \in Event \ R, NEW n \in Node, n > x.p_last
    PROVE  Heap(cleared(x, e, n), R, K)
<1> DEFINE y == cleared(x, e, n)
<1>1. x \in HeapState /\ x.p_last \in Nat /\ R \subseteq Event BY Nodes DEF Heap, HeapState
<1>2. /\ y \in HeapState /\ y.p_last = x.p_last
      /\ \A m \in Node : m # n => y.tmevt_heap[m] = x.tmevt_heap[m]
      /\ \A d \in Event : d # e => y.p_tmevtn[d] = x.p_tmevtn[d]
  BY <1>1, Cleared
<1> HIDE DEF y
<1>3. \A m \in 1 .. x.p_last : m \in Node /\ m # n BY <1>1, Nodes DEF Heap, HeapState
<1>4. \A m \in 1 .. x.p_last : y.tmevt_heap[m] = x.tmevt_heap[m] BY <1>2, <1>3
<1>5. \A d \in R : y.p_tmevtn[d] = x.p_tmevtn[d] BY <1>1, <1>2
<1>6. \A m \in 1 .. x.p_last : Held(y, m, R) BY <1>4, <1>5 DEF Heap, Held
<1>7. \A d \in R : y.p_tmevtn[d] \in 1 .. x.p_last /\ y.tmevt_heap[y.p_tmevtn[d]] = d
  BY <1>4, <1>5 DEF Heap
<1>8. \A m \in 2 .. x.p_last : PARENT(m) \in 1 .. x.p_last /\ m \in 1 .. x.p_last
  BY <1>1, Parents
<1>9. \A m \in 2 .. x.p_last : K[y.tmevt_heap[PARENT(m)]] <= K[y.tmevt_heap[m]]
  BY <1>4, <1>8 DEF Heap
<1> QED BY <1>1, <1>2, <1>6, <1>7, <1>9 DEF Heap, y

(* The last event takes the place of the one that is taken out.            *)
LEMMA Delete ==
    ASSUME NEW x, NEW R, Heap(x, R, Key(x)), NEW e \in R
    PROVE  LET y == tmevtb_delete(x, e) IN
           /\ Heap(y, R \ {e}, Key(y)) /\ y.p_tmevtn[e] = 0
           /\ y.evttim = x.evttim /\ y.current_evttim = x.current_evttim
           /\ \A d \in Event \ R : y.p_tmevtn[d] = x.p_tmevtn[d]
           /\ \A u : Timed(u, x) => tmevtb_delete(Over(u, x), e) = Over(u, y)
<1> DEFINE K == Key(x)
           L == x.p_last
           x1 == [x EXCEPT !.p_last = @ - 1]
           n == x.p_tmevtn[e]
           last == x.tmevt_heap[x.p_last]
           v == x.evttim[last]
           parent == PARENT(n)
           goesup == n > 1 /\ EVTTIM_LT(x, v, time_at(x, parent))
           s == IF goesup THEN tmevt_up(place(x1, x.tmevt_heap[parent], n), parent, v)
                ELSE tmevt_down(x1, n, v)
           \* the same of a state that has more than the heap
           s1(u) == IF goesup
                    THEN tmevt_up(place(Over(u, x1), x.tmevt_heap[parent], n), parent, v)
                    ELSE tmevt_down(Over(u, x1), n, v)
           R1 == R \ {e, last}
           y == tmevtb_delete(x, e)
           Result(z) == /\ Heap(z, R \ {e}, K) /\ z.p_tmevtn[e] = 0
                        /\ z.evttim = x.evttim /\ z.current_evttim = x.current_evttim
                        /\ \A d \in Event \ R : z.p_tmevtn[d] = x.p_tmevtn[d]
                        /\ \A u : Timed(u, x) => tmevtb_delete(Over(u, x), e) = Over(u, z)
<1>1. /\ x \in HeapState /\ R \subseteq Event /\ L \in Nat /\ L <= N /\ L >= 1
      /\ n \in 1 .. L /\ x.tmevt_heap[n] = e /\ e \in Event
      /\ last \in R /\ x.p_tmevtn[last] = L /\ v \in EVTTIM
  <2>1. x \in HeapState /\ R \subseteq Event /\ L \in Nat /\ L <= N BY Nodes DEF Heap, HeapState
  <2>2. n \in 1 .. L /\ x.tmevt_heap[n] = e BY DEF Heap
  <2>3. L >= 1 /\ L \in 1 .. L BY <2>1, <2>2
  <2>4. last \in R /\ x.p_tmevtn[last] = L BY <2>3 DEF Heap, Held
  <2>5. v \in EVTTIM BY <2>1, <2>4 DEF HeapState
  <2> QED BY <2>1, <2>2, <2>3, <2>4, <2>5
<1>2. \A m \in 1 .. L : m \in Node BY <1>1, Nodes
<1>3. /\ x1 \in HeapState /\ x1.p_last = L - 1 /\ x1.tmevt_heap = x.tmevt_heap
      /\ x1.p_tmevtn = x.p_tmevtn /\ x1.evttim = x.evttim
      /\ x1.current_evttim = x.current_evttim
  BY <1>1, Nodes DEF HeapState
<1>4. y = IF L - 1 < 1 THEN cleared(x1, e, 1) ELSE cleared(place(s.h, last, s.at), e, L)
  BY <1>3 DEF tmevtb_delete
<1>5. SUFFICES Result(y)
  BY SameKeys
<1>8. ASSUME NEW u, Timed(u, x)
      PROVE  /\ Timed(u, x1)
             /\ tmevtb_delete(Over(u, x), e) =
                  IF L - 1 < 1 THEN cleared(Over(u, x1), e, 1)
                  ELSE cleared(place(s1(u).h, last, s1(u).at), e, L)
  <2> DEFINE c == Over(u, x)
  <2>1. /\ c.p_last = L /\ c.evttim = x.evttim /\ c.tmevt_heap = x.tmevt_heap
        /\ c.p_tmevtn = x.p_tmevtn
    BY <1>8, OverIs
  <2>2. Timed(u, x1) BY <1>3, <1>8 DEF Timed
  <2>3. [c EXCEPT !.p_last = c.p_last - 1] = Over(u, x1) BY <1>8, <2>1, OverLast
  <2>4. \A w : EVTTIM_ADVANCE(c, w) = EVTTIM_ADVANCE(x, w) BY <1>8, OverAdvance
  <2> HIDE DEF c
  <2>5. goesup <=> n > 1 /\ EVTTIM_LT(c, v, time_at(c, parent))
    BY <2>1, <2>4 DEF EVTTIM_LT, time_at
  <2> HIDE DEF goesup, x1
  <2>6. Over(u, x1).p_last = L - 1 BY <2>2, <1>3, OverIs
  <2> QED BY <2>1, <2>2, <2>3, <2>5, <2>6 DEF tmevtb_delete, c
<1> HIDE DEF x1, y, n, last, v, L
<1>6. CASE L - 1 < 1
  <2>1. L = 1 /\ n = 1 /\ last = e BY <1>1, <1>6 DEF last, L
  <2>2. R \ {e} = {} BY <2>1, <1>1 DEF Heap, L, n
  <2>3. 1 \in Node BY <2>1, <1>1, <1>2
  <2> DEFINE z == cleared(x1, e, 1)
  <2>4. /\ z \in HeapState /\ z.p_last = 0 /\ z.evttim = x.evttim
        /\ z.current_evttim = x.current_evttim /\ z.p_tmevtn[e] = 0
        /\ \A d \in Event : d # e => z.p_tmevtn[d] = x.p_tmevtn[d]
    BY <1>1, <1>3, <2>1, <2>3, Cleared
  <2> HIDE DEF z
  <2>5. Heap(z, {}, K) BY <2>4 DEF Heap
  <2>6. \A u : Timed(u, x) => tmevtb_delete(Over(u, x), e) = Over(u, z)
    BY <1>6, <1>8, OverCleared DEF z
  <2> QED BY <1>1, <1>4, <1>6, <2>2, <2>4, <2>5, <2>6 DEF z
<1>7. CASE L - 1 >= 1
  <2> DEFINE z == place(s.h, last, s.at)
  <2>1. y = cleared(z, e, L) BY <1>4, <1>7, <1>1
  <2>2. L \in Node BY <1>1, <1>2
  <2>3. K \in [Event -> Nat] /\ K[last] = EVTTIM_ADVANCE(x, v)
    BY <1>1, Keys, KeyOf DEF v
  <2> SUFFICES /\ Heap(z, R \ {e}, K) /\ z.p_last = L - 1
               /\ z.evttim = x.evttim /\ z.current_evttim = x.current_evttim
               /\ \A d \in Event \ R : z.p_tmevtn[d] = x.p_tmevtn[d]
               /\ s.h \in HeapState /\ s.h.evttim = x.evttim
               /\ s.h.current_evttim = x.current_evttim
               /\ \A u : Timed(u, x) => s1(u) = [h |-> Over(u, s.h), at |-> s.at]
    <3>4. ASSUME NEW u, Timed(u, x)
          PROVE  tmevtb_delete(Over(u, x), e) = Over(u, cleared(z, e, L))
      <4> HIDE DEF s, s1
      <4>1. Timed(u, s.h) BY <3>4 DEF Timed
      <4>2. s1(u).h = Over(u, s.h) /\ s1(u).at = s.at BY <3>4
      <4> HIDE DEF z
      <4>3. z \in HeapState BY DEF Heap
      <4>4. Timed(u, z) BY <3>4, <4>3 DEF Timed
      <4>5. place(s1(u).h, last, s1(u).at) = Over(u, z) BY <4>1, <4>2, OverPlace DEF z
      <4> HIDE DEF z
      <4>6. cleared(Over(u, z), e, L) = Over(u, cleared(z, e, L)) BY <4>4, OverCleared
      <4> QED BY <4>5, <4>6, <3>4, <1>7, <1>8, <1>1
    <3> HIDE DEF z, s, s1
    <3>1. z \in HeapState BY DEF Heap
    <3>2. L > z.p_last BY <1>1
    <3>3. Heap(y, R \ {e}, K) BY <2>1, <2>2, <3>2, <1>1, ClearedHeap
    <3> QED BY <2>1, <2>2, <3>1, <3>3, <3>4, <1>1, Cleared
  <2>4. /\ \A m \in 1 .. L : Held(x, m, R)
        /\ \A d \in R : x.p_tmevtn[d] \in 1 .. L /\ x.tmevt_heap[x.p_tmevtn[d]] = d
        /\ \A m \in 2 .. L : K[x.tmevt_heap[PARENT(m)]] <= K[x.tmevt_heap[m]]
    BY DEF Heap, L
  <2>5. \A m \in 2 .. L : m \in 1 .. L /\ PARENT(m) \in 1 .. L /\ PARENT(m) < m
    BY <1>1, Parents
  <2>6. ASSUME n > 1
        PROVE  /\ parent \in 1 .. L /\ parent # n /\ parent < n
               /\ x.tmevt_heap[parent] \in R
               /\ goesup <=> ~(K[x.tmevt_heap[parent]] <= K[last])
    <3>1. n \in 2 .. L BY <1>1, <2>6
    <3>2. parent \in 1 .. L /\ parent < n BY <3>1, <2>5
    <3>3. x.tmevt_heap[parent] \in R BY <3>2, <2>4 DEF Held
    <3>4. K[x.tmevt_heap[parent]] = EVTTIM_ADVANCE(x, time_at(x, parent))
      BY <3>3, <1>1, KeyOf DEF time_at
    <3>5. K[x.tmevt_heap[parent]] \in Nat /\ K[last] \in Nat BY <3>3, <1>1, <2>3
    <3> QED BY <3>2, <3>3, <3>4, <3>5, <2>3, <2>6, <1>1 DEF EVTTIM_LT
  <2> HIDE DEF K
  <2>7. CASE e = last
    <3>1. n = L BY <2>7, <1>1 DEF n
    <3>2. ~goesup
      <4> SUFFICES ASSUME n > 1 PROVE K[x.tmevt_heap[parent]] <= K[last] BY <2>6
      <4> QED BY <2>4, <2>7, <3>1, <1>1
    <3>3. s = [h |-> x1, at |-> L]
      <4>1. LCHILD(n) > x1.p_last BY <3>1, <1>1, <1>3 DEF LCHILD
      <4> QED BY <3>1, <3>2, <4>1, Stays
    <3>11. ASSUME NEW u, Timed(u, x) PROVE s1(u) = [h |-> Over(u, s.h), at |-> s.at]
      <4>1. Over(u, x1).p_last = x1.p_last BY <3>11, <1>8, OverIs
      <4>2. LCHILD(n) > Over(u, x1).p_last BY <3>1, <4>1, <1>1, <1>3 DEF LCHILD
      <4>3. s1(u) = tmevt_down(Over(u, x1), n, v) BY <3>2
      <4> HIDE DEF s1, s
      <4> QED BY <3>1, <3>3, <4>2, <4>3, Stays
    <3>12. /\ s.h \in HeapState /\ s.h.evttim = x.evttim
           /\ s.h.current_evttim = x.current_evttim
      BY <3>3, <1>3
    <3>4. /\ z \in HeapState /\ z.p_last = L - 1 /\ z.evttim = x.evttim
          /\ z.current_evttim = x.current_evttim
          /\ \A m \in Node : z.tmevt_heap[m] = IF m = L THEN last ELSE x.tmevt_heap[m]
          /\ \A d \in Event : z.p_tmevtn[d] = IF d = last THEN L ELSE x.p_tmevtn[d]
      <4>1. z = place(x1, last, L) /\ last \in Event BY <3>3, <1>1
      <4> HIDE DEF z
      <4> QED BY <4>1, <2>2, <1>3, Place
    <3> HIDE DEF z, s, s1
    <3>5. \A m \in 1 .. L : z.tmevt_heap[m] = x.tmevt_heap[m] BY <3>1, <3>4, <1>1, <1>2, <2>7
    <3>6. \A d \in Event : z.p_tmevtn[d] = x.p_tmevtn[d] BY <3>4, <1>1
    <3>7. \A m \in 1 .. L - 1 : Held(z, m, R \ {e})
      <4> TAKE m \in 1 .. L - 1
      <4>1. m \in 1 .. L /\ m # L BY <1>1
      <4>2. x.tmevt_heap[m] # e BY <4>1, <2>4, <2>7, <1>1 DEF Held
      <4>3. x.tmevt_heap[m] \in Event BY <4>1, <2>4, <1>1 DEF Held
      <4> QED BY <4>1, <4>2, <4>3, <2>4, <3>5, <3>6 DEF Held
    <3>8. \A d \in R \ {e} : z.p_tmevtn[d] \in 1 .. L - 1 /\ z.tmevt_heap[z.p_tmevtn[d]] = d
      <4> TAKE d \in R \ {e}
      <4>1. x.p_tmevtn[d] \in 1 .. L /\ x.tmevt_heap[x.p_tmevtn[d]] = d /\ d \in Event
        BY <2>4, <1>1
      <4>2. x.p_tmevtn[d] # L BY <4>1, <3>1, <1>1
      <4> QED BY <4>1, <4>2, <3>5, <3>6, <1>1
    <3>9. \A m \in 2 .. L - 1 : K[z.tmevt_heap[PARENT(m)]] <= K[z.tmevt_heap[m]]
      BY <2>4, <2>5, <3>5, <1>1
    <3>10. Heap(z, R \ {e}, K) BY <3>4, <3>7, <3>8, <3>9, <1>1 DEF Heap
    <3> QED BY <3>4, <3>6, <3>10, <3>11, <3>12
  <2>8. CASE e # last
    <3>1. n # L /\ n \in 1 .. L - 1 BY <2>8, <1>1 DEF last, n, L
    <3>2. Hole(x1, n, R1, K)
      <4>1. \A m \in 1 .. L - 1 : m # n => Held(x1, m, R1)
        <5> TAKE m \in 1 .. L - 1
        <5> HAVE m # n
        <5>1. m \in 1 .. L /\ m # L BY <1>1
        <5>2. x.tmevt_heap[m] \in R /\ x.p_tmevtn[x.tmevt_heap[m]] = m BY <5>1, <2>4 DEF Held
        <5>3. x.tmevt_heap[m] # e /\ x.tmevt_heap[m] # last BY <5>1, <5>2, <1>1 DEF n
        <5> QED BY <5>2, <5>3, <1>3 DEF Held
      <4>2. \A d \in R1 : /\ x1.p_tmevtn[d] \in 1 .. L - 1 /\ x1.p_tmevtn[d] # n
                          /\ x1.tmevt_heap[x1.p_tmevtn[d]] = d
        <5> TAKE d \in R1
        <5>1. x.p_tmevtn[d] \in 1 .. L /\ x.tmevt_heap[x.p_tmevtn[d]] = d BY <2>4
        <5>2. x.p_tmevtn[d] # n /\ x.p_tmevtn[d] # L BY <5>1, <1>1 DEF last, L
        <5> QED BY <5>1, <5>2, <1>1, <1>3
      <4>3. \A m \in 2 .. L - 1 : K[x1.tmevt_heap[PARENT(m)]] <= K[x1.tmevt_heap[m]]
        BY <2>4, <1>1, <1>3
      <4>4. \A m \in 2 .. L - 1 : PARENT(m) = n /\ n > 1
                => K[x1.tmevt_heap[PARENT(n)]] <= K[x1.tmevt_heap[m]]
        <5> SUFFICES ASSUME NEW m \in 2 .. L - 1, PARENT(m) = n, n > 1
                     PROVE  K[x1.tmevt_heap[PARENT(n)]] <= K[x1.tmevt_heap[m]]
          OBVIOUS
        <5>1. K[x1.tmevt_heap[n]] <= K[x1.tmevt_heap[m]] BY <4>3
        <5>2. K[x1.tmevt_heap[PARENT(n)]] <= K[x1.tmevt_heap[n]] BY <4>3, <3>1, <1>1
        <5>3. m \in 1 .. L BY <1>1
        <5>4. /\ x1.tmevt_heap[n] \in Event /\ x1.tmevt_heap[m] \in Event
              /\ x1.tmevt_heap[PARENT(n)] \in Event
          BY <5>3, <2>4, <2>6, <1>1, <1>3 DEF Held
        <5>5. /\ K[x1.tmevt_heap[n]] \in Nat /\ K[x1.tmevt_heap[m]] \in Nat
              /\ K[x1.tmevt_heap[PARENT(n)]] \in Nat
          BY <5>4, <2>3
        <5> QED BY <5>1, <5>2, <5>5
      <4> QED BY <4>1, <4>2, <4>3, <4>4, <3>1, <1>1, <1>3 DEF Hole
    <3>3. K[last] \in Nat BY <2>3, <1>1
    <3>4. /\ Hole(s.h, s.at, R1, K) /\ Frame(x1, s.h, R1)
          /\ FitsBelow(s.h, s.at, K, K[last]) /\ FitsAbove(s.h, s.at, K, K[last])
          /\ \A u : Timed(u, x) => s1(u) = [h |-> Over(u, s.h), at |-> s.at]
      <4>1. CASE ~goesup
        <5>1. FitsAbove(x1, n, K, K[last]) BY <4>1, <2>6, <1>3 DEF FitsAbove
        <5>2. Key(x1) = K /\ EVTTIM_ADVANCE(x1, v) = K[last] BY <1>3, <2>3, SameKeys DEF K
        <5>3. s = tmevt_down(x1, n, v) /\ \A u : s1(u) = tmevt_down(Over(u, x1), n, v)
          BY <4>1
        <5> HIDE DEF s, s1
        <5> QED BY <5>1, <5>2, <5>3, <3>2, <1>1, <1>8, Down
      <4>2. CASE goesup
        <5> DEFINE w == place(x1, x.tmevt_heap[parent], n)
        <5>1. n > 1 /\ ~(K[x.tmevt_heap[parent]] <= K[last]) BY <4>2, <2>6
        <5>2. FitsBelow(x1, n, K, K[last])
          <6> SUFFICES ASSUME NEW m \in 2 .. L - 1, PARENT(m) = n
                       PROVE  K[last] <= K[x.tmevt_heap[m]]
            BY <1>3 DEF FitsBelow
          <6>1. m \in 2 .. L /\ m \in 1 .. L /\ n \in 2 .. L BY <5>1, <1>1
          <6>2. /\ K[x.tmevt_heap[n]] <= K[x.tmevt_heap[m]]
                /\ K[x.tmevt_heap[parent]] <= K[x.tmevt_heap[n]]
            BY <6>1, <2>4
          <6>3. /\ x.tmevt_heap[n] \in Event /\ x.tmevt_heap[m] \in Event
                /\ x.tmevt_heap[parent] \in Event
            BY <6>1, <5>1, <2>4, <2>6, <1>1 DEF Held
          <6>4. /\ K[x.tmevt_heap[n]] \in Nat /\ K[x.tmevt_heap[m]] \in Nat
                /\ K[x.tmevt_heap[parent]] \in Nat
            BY <6>3, <2>3
          <6> QED BY <5>1, <6>2, <6>4, <3>3
        <5>3. /\ Hole(w, parent, R1, K) /\ FitsBelow(w, parent, K, K[last])
              /\ Frame(x1, w, R1)
          BY <5>1, <5>2, <3>2, <3>3, <2>3, <1>3, HoleUp
        <5>4. s = tmevt_up(w, parent, v) BY <4>2
        <5>7. ASSUME NEW u, Timed(u, x)
              PROVE  Timed(u, w) /\ s1(u) = tmevt_up(Over(u, w), parent, v)
          <6>1. Timed(u, x1) BY <5>7, <1>8
          <6>2. Timed(u, w) BY <5>3, <6>1 DEF Timed, Frame, Hole
          <6>3. s1(u) = tmevt_up(place(Over(u, x1), x.tmevt_heap[parent], n), parent, v)
            BY <4>2
          <6> HIDE DEF s1
          <6> QED BY <6>1, <6>2, <6>3, OverPlace
        <5> HIDE DEF w
        <5>5. Key(w) = K /\ EVTTIM_ADVANCE(w, v) = K[last]
          BY <5>3, <1>3, <2>3, SameKeys DEF K, Frame
        <5>6. /\ Hole(s.h, s.at, R1, K) /\ Frame(w, s.h, R1)
              /\ FitsBelow(s.h, s.at, K, K[last]) /\ FitsAbove(s.h, s.at, K, K[last])
              /\ \A u : Timed(u, w) =>
                   tmevt_up(Over(u, w), parent, v) = [h |-> Over(u, s.h), at |-> s.at]
          BY <5>3, <5>4, <5>5, <1>1, Up
        <5> HIDE DEF s, s1
        <5> QED BY <5>3, <5>6, <5>7, FrameTrans
      <4> QED BY <4>1, <4>2
    <3> HIDE DEF s, s1
    <3>5. last \in Event \ R1 /\ R1 \cup {last} = R \ {e} BY <2>8, <1>1
    <3>6. Heap(z, R \ {e}, K) BY <3>4, <3>5, <2>3, Fill
    <3>7. s.h \in HeapState /\ s.at \in Node BY <3>4, Nodes DEF Hole, HeapState
    <3>8. /\ z.p_last = s.h.p_last /\ z.evttim = s.h.evttim
          /\ z.current_evttim = s.h.current_evttim
          /\ \A d \in Event : d # last => z.p_tmevtn[d] = s.h.p_tmevtn[d]
      BY <3>7, <1>1, Place
    <3> HIDE DEF z
    <3>9. \A d \in Event \ R : z.p_tmevtn[d] = x.p_tmevtn[d]
      BY <3>4, <3>8, <1>1, <1>3 DEF Frame
    <3> QED BY <3>4, <3>6, <3>7, <3>8, <3>9, <1>3 DEF Frame
  <2> QED BY <2>7, <2>8
<1> QED BY <1>6, <1>7, <1>1

(* The top event is taken out as any other one.                            *)
LEMMA DeleteTop ==
    ASSUME NEW x, NEW R, NEW K, Heap(x, R, K), not_empty(x)
    PROVE  /\ x.tmevt_heap[1] \in R
           /\ tmevtb_delete_top(x) = tmevtb_delete(x, x.tmevt_heap[1])
<1>1. x.p_last \in Nat /\ x.p_last >= 1 BY Nodes DEF Heap, HeapState, not_empty
<1>2. x.tmevt_heap[1] \in R /\ x.p_tmevtn[x.tmevt_heap[1]] = 1 BY <1>1 DEF Heap, Held
<1>3. ~(x.p_tmevtn[x.tmevt_heap[1]] > 1) BY <1>2
<1> QED BY <1>2, <1>3 DEF tmevtb_delete_top, tmevtb_delete

(* The top event is one of the earliest.                                   *)
LEMMA Earliest ==
    ASSUME NEW x, NEW R, NEW K \in [Event -> Nat], Heap(x, R, K), NEW e \in R
    PROVE  K[x.tmevt_heap[1]] <= K[e]
<1> DEFINE L == x.p_last
           k(n) == K[x.tmevt_heap[n]]
           bad == {n \in 1 .. L : ~(k(1) <= k(n))}
<1>1. L \in Nat /\ R \subseteq Event BY Nodes DEF Heap, HeapState
<1>2. \A n \in 1 .. L : k(n) \in Nat
  <2> TAKE n \in 1 .. L
  <2>1. x.tmevt_heap[n] \in Event BY <1>1 DEF Heap, Held
  <2> QED BY <2>1
<1>3. \A n \in 2 .. L : k(PARENT(n)) <= k(n) BY DEF Heap
<1> HIDE DEF k
<1>4. ASSUME bad # {} PROVE FALSE
  <2>1. bad \in SUBSET Nat BY <1>1
  <2>2. PICK m \in bad : \A n \in bad : m <= n BY <2>1, <1>4, LeastElement
  <2>3. m # 1 /\ m \in 1 .. L
    <3>1. 1 \in 1 .. L BY <2>2, <1>1
    <3> QED BY <3>1, <1>2
  <2>4. m \in 2 .. L BY <2>3, <1>1
  <2>5. PARENT(m) \in 1 .. L /\ PARENT(m) < m BY <2>4, <1>1, Parents
  <2>6. k(1) <= k(PARENT(m)) BY <2>2, <2>5, <1>1
  <2>7. 1 \in 1 .. L BY <2>3, <1>1
  <2>8. k(1) \in Nat /\ k(PARENT(m)) \in Nat /\ k(m) \in Nat BY <2>3, <2>5, <2>7, <1>2
  <2> QED BY <2>2, <2>4, <2>6, <2>8, <1>3
<1>5. x.p_tmevtn[e] \in 1 .. L /\ x.tmevt_heap[x.p_tmevtn[e]] = e BY DEF Heap
<1> QED BY <1>4, <1>5 DEF k

(* The time of an event that is not in the heap does not matter.           *)
LEMMA Retime ==
    ASSUME NEW x, NEW R, Heap(x, R, Key(x)), NEW e \in Event \ R, NEW t \in EVTTIM
    PROVE  LET y == [x EXCEPT !.evttim[e] = t] IN
           /\ Heap(y, R, Key(y)) /\ y.p_tmevtn = x.p_tmevtn
           /\ y.current_evttim = x.current_evttim
           /\ \A d \in Event : y.evttim[d] = IF d = e THEN t ELSE x.evttim[d]
<1> DEFINE y == [x EXCEPT !.evttim[e] = t]
<1>1. x \in HeapState /\ R \subseteq Event /\ x.p_last \in Nat BY Nodes DEF Heap, HeapState
<1>2. /\ y \in HeapState /\ y.p_tmevtn = x.p_tmevtn /\ y.p_last = x.p_last
      /\ y.current_evttim = x.current_evttim /\ y.tmevt_heap = x.tmevt_heap
      /\ \A d \in Event : y.evttim[d] = IF d = e THEN t ELSE x.evttim[d]
  BY <1>1 DEF HeapState
<1> HIDE DEF y
<1>3. \A d \in R : Key(y)[d] = Key(x)[d]
  BY <1>1, <1>2 DEF Key, EVTTIM_ADVANCE, boundary_evttim
<1>4. \A n \in 2 .. x.p_last : n \in 1 .. x.p_last /\ PARENT(n) \in 1 .. x.p_last
  BY <1>1, Parents
<1>5. \A n \in 2 .. x.p_last : x.tmevt_heap[n] \in R /\ x.tmevt_heap[PARENT(n)] \in R
  BY <1>4 DEF Heap, Held
<1>6. Heap(y, R, Key(y)) BY <1>2, <1>3, <1>5 DEF Heap, Held
<1> QED BY <1>2, <1>6 DEF y

-----------------------------------------------------------------------------
(* Arithmetic. A sum or difference is reduced by one span at most.         *)
LEMMA Near ==
    ASSUME NEW n \in Nat \ {0}, NEW i \in Int, -n <= i, i < 2 * n
    PROVE  i % n = IF i < 0 THEN i + n ELSE IF i < n THEN i ELSE i - n
OBVIOUS

LEMMA NearSpan ==
    ASSUME NEW i \in Int, -EVTTIM_SPAN <= i, i < 2 * EVTTIM_SPAN
    PROVE  i % EVTTIM_SPAN = IF i < 0 THEN i + EVTTIM_SPAN
                             ELSE IF i < EVTTIM_SPAN THEN i ELSE i - EVTTIM_SPAN
BY HeapAssumption, Near

LEMMA Span ==
    /\ EVTTIM_SPAN \in Nat \ {0} /\ BOUNDARY_MARGIN \in Nat /\ BOUNDARY_MARGIN < EVTTIM_SPAN
BY HeapAssumption

(* EVTTIM_ADVANCE, without the remainders.                                 *)
LEMMA AdvanceValue ==
    ASSUME NEW x, x.current_evttim \in EVTTIM, NEW v \in EVTTIM
    PROVE  LET c == x.current_evttim
               b == IF c < BOUNDARY_MARGIN THEN c - BOUNDARY_MARGIN + EVTTIM_SPAN
                    ELSE c - BOUNDARY_MARGIN
           IN  /\ EVTTIM_ADVANCE(x, v) = IF v < b THEN v - b + EVTTIM_SPAN ELSE v - b
               /\ EVTTIM_ADVANCE(x, v) \in EVTTIM
<1> DEFINE c == x.current_evttim
           b == IF c < BOUNDARY_MARGIN THEN c - BOUNDARY_MARGIN + EVTTIM_SPAN
                ELSE c - BOUNDARY_MARGIN
<1>1. c \in Nat /\ c < EVTTIM_SPAN /\ v \in Nat /\ v < EVTTIM_SPAN BY Span DEF EVTTIM
<1>2. boundary_evttim(x) = b
  <2>1. c - BOUNDARY_MARGIN \in Int BY <1>1, Span
  <2>2. (c - BOUNDARY_MARGIN) % EVTTIM_SPAN = b BY <1>1, <2>1, Span, Near
  <2> QED BY <2>2 DEF boundary_evttim
<1>3. b \in Nat /\ b < EVTTIM_SPAN BY <1>1, Span
<1> HIDE DEF b
<1>4. (v - b) % EVTTIM_SPAN = IF v < b THEN v - b + EVTTIM_SPAN ELSE v - b
  <2>1. v - b \in Int /\ -EVTTIM_SPAN <= v - b /\ v - b < EVTTIM_SPAN BY <1>1, <1>3, Span
  <2> QED BY <1>1, <1>3, <2>1, Span, NearSpan
<1> QED BY <1>1, <1>2, <1>3, <1>4, Span DEF EVTTIM_ADVANCE, EVTTIM, b

(* What the passing of the time, or an adjustment, makes of it.            *)
LEMMA Passes ==
    ASSUME NEW x, x.current_evttim \in EVTTIM, NEW y, NEW d \in Int,
           -EVTTIM_SPAN < d, d < EVTTIM_SPAN,
           y.current_evttim = (x.current_evttim + d) % EVTTIM_SPAN, NEW v \in EVTTIM,
           0 <= EVTTIM_ADVANCE(x, v) - d, EVTTIM_ADVANCE(x, v) - d < EVTTIM_SPAN
    PROVE  EVTTIM_ADVANCE(y, v) = EVTTIM_ADVANCE(x, v) - d
<1> DEFINE c == x.current_evttim
           c1 == y.current_evttim
<1>1. c \in Nat /\ c < EVTTIM_SPAN /\ v \in Nat /\ v < EVTTIM_SPAN BY Span DEF EVTTIM
<1>2. c1 = IF c + d < 0 THEN c + d + EVTTIM_SPAN
           ELSE IF c + d < EVTTIM_SPAN THEN c + d ELSE c + d - EVTTIM_SPAN
  <2>1. c + d \in Int /\ -EVTTIM_SPAN <= c + d /\ c + d < 2 * EVTTIM_SPAN BY <1>1, Span
  <2> QED BY <1>1, <2>1, Span, NearSpan
<1>3. c1 \in EVTTIM BY <1>1, <1>2, Span DEF EVTTIM
<1>4. c1 \in Nat /\ c1 < EVTTIM_SPAN BY <1>3, Span DEF EVTTIM
<1> DEFINE a == EVTTIM_ADVANCE(x, v)
           a1 == EVTTIM_ADVANCE(y, v)
           M == BOUNDARY_MARGIN
           S == EVTTIM_SPAN
<1>5. LET b == IF c < M THEN c - M + S ELSE c - M
      IN  a = IF v < b THEN v - b + S ELSE v - b
  BY AdvanceValue
<1>6. LET b == IF c1 < M THEN c1 - M + S ELSE c1 - M
      IN  a1 = IF v < b THEN v - b + S ELSE v - b
  BY <1>3, AdvanceValue
<1>7. M \in Nat /\ S \in Nat /\ M < S BY Span
<1>8. 0 <= a - d /\ a - d < S OBVIOUS
<1> HIDE DEF a, a1, c, c1, M, S
<1>9. a1 = a - d BY <1>1, <1>2, <1>4, <1>5, <1>6, <1>7, <1>8 DEF S, c1
<1> QED BY <1>9 DEF a, a1

(* A heap stays one while the time passes.                                 *)
LEMMA HeapPasses ==
    ASSUME NEW x, NEW R, Heap(x, R, Key(x)), NEW d \in Int,
           -EVTTIM_SPAN < d, d < EVTTIM_SPAN,
           \A e \in R : EVTTIM_ADVANCE(x, x.evttim[e]) - d \in EVTTIM
    PROVE  LET y == [x EXCEPT !.current_evttim = (@ + d) % EVTTIM_SPAN] IN
           Heap(y, R, Key(y)) /\ y.p_tmevtn = x.p_tmevtn /\ y.evttim = x.evttim
<1> DEFINE c == (x.current_evttim + d) % EVTTIM_SPAN
           y == [x EXCEPT !.current_evttim = c]
<1>1. x \in HeapState /\ R \subseteq Event /\ x.p_last \in Nat BY Nodes DEF Heap, HeapState
<1>2. x.current_evttim \in EVTTIM /\ x.evttim \in [Event -> EVTTIM] BY <1>1 DEF HeapState
<1>3. c \in EVTTIM
  <2>1. x.current_evttim \in Int BY <1>2, Span DEF EVTTIM
  <2>2. x.current_evttim + d \in Int BY <2>1
  <2> QED BY <2>2, Span DEF EVTTIM
<1> HIDE DEF c
<1>4. /\ y \in HeapState /\ y.p_tmevtn = x.p_tmevtn /\ y.p_last = x.p_last
      /\ y.evttim = x.evttim /\ y.tmevt_heap = x.tmevt_heap /\ y.current_evttim = c
  BY <1>1, <1>3 DEF HeapState
<1> HIDE DEF y
<1>5. ASSUME NEW e \in R PROVE Key(y)[e] = Key(x)[e] - d
  <2>1. e \in Event /\ x.evttim[e] \in EVTTIM BY <1>1, <1>2
  <2> DEFINE a == EVTTIM_ADVANCE(x, x.evttim[e])
  <2>2. a - d \in EVTTIM OBVIOUS
  <2>3. 0 <= a - d /\ a - d < EVTTIM_SPAN
    <3> HIDE DEF a
    <3> QED BY <2>2, Span DEF EVTTIM
  <2>4. y.current_evttim = (x.current_evttim + d) % EVTTIM_SPAN BY <1>4 DEF c
  <2>5. EVTTIM_ADVANCE(y, x.evttim[e]) = EVTTIM_ADVANCE(x, x.evttim[e]) - d
    BY <1>2, <2>1, <2>3, <2>4, Passes
  <2> QED BY <2>1, <2>5, <1>4, KeyOf
<1>6. \A n \in 2 .. x.p_last : n \in 1 .. x.p_last /\ PARENT(n) \in 1 .. x.p_last
  BY <1>1, Parents
<1>7. \A n \in 2 .. x.p_last : x.tmevt_heap[n] \in R /\ x.tmevt_heap[PARENT(n)] \in R
  BY <1>6 DEF Heap, Held
<1>8. \A e \in R : Key(x)[e] \in Nat BY <1>1, Keys
<1>9. ASSUME NEW n \in 2 .. x.p_last
      PROVE  Key(y)[x.tmevt_heap[PARENT(n)]] <= Key(y)[x.tmevt_heap[n]]
  <2> DEFINE u == x.tmevt_heap[PARENT(n)]
             v == x.tmevt_heap[n]
  <2>1. Key(x)[u] <= Key(x)[v] BY DEF Heap
  <2>2. u \in R /\ v \in R BY <1>7
  <2> HIDE DEF u, v
  <2>3. Key(y)[u] <= Key(y)[v] BY <2>1, <2>2, <1>5, <1>8
  <2> QED BY <2>3 DEF u, v
<1>10. Heap(y, R, Key(y)) BY <1>4, <1>9 DEF Heap, Held
<1>11. y = [x EXCEPT !.current_evttim = (@ + d) % EVTTIM_SPAN] BY DEF y, c
<1> QED BY <1>4, <1>10, <1>11

-----------------------------------------------------------------------------
(* The inductive invariant.                                                *)
HeapInv == Heap(h, Registered(h), Key(h))

(* What a step does: one event comes, one event goes, or time passes.      *)
Came(e) ==
    /\ e \in Event \ Registered(h) /\ Registered(h') = Registered(h) \cup {e}
    /\ Heap(h', Registered(h'), Key(h'))
    /\ \A d \in Registered(h) : h'.evttim[d] = h.evttim[d]
Gone(e) ==
    /\ e \in Registered(h) /\ Registered(h') = Registered(h) \ {e}
    /\ Heap(h', Registered(h'), Key(h'))
    /\ \A d \in Registered(h') : h'.evttim[d] = h.evttim[d]
Passed ==
    /\ Registered(h') = Registered(h) /\ h'.evttim = h.evttim
    /\ Heap(h', Registered(h'), Key(h'))

LEMMA Registers ==
    ASSUME HeapInv, NEW e \in Event, NEW t \in EVTTIM, register(e, t)
    PROVE  Came(e)
<1> DEFINE R == Registered(h)
           x == [h EXCEPT !.evttim[e] = t]
<1>1. e \in Event \ R /\ h' = tmevtb_insert(x, e) BY DEF register
<1>2. Heap(h, R, Key(h)) BY DEF HeapInv
<1>3. R \subseteq Event BY DEF Registered
<1> HIDE DEF x
<1>4. /\ Heap(x, R, Key(x)) /\ x.p_tmevtn = h.p_tmevtn
      /\ \A d \in Event : x.evttim[d] = IF d = e THEN t ELSE h.evttim[d]
  BY <1>1, <1>2, Retime DEF x
<1> HIDE DEF R
<1>5. /\ Heap(h', R \cup {e}, Key(h')) /\ h'.evttim = x.evttim
      /\ \A d \in Event \ (R \cup {e}) : h'.p_tmevtn[d] = h.p_tmevtn[d]
  BY <1>1, <1>4, Insert
<1>6. Registered(h') = R \cup {e}
  <2>1. \A d \in R \cup {e} : d \in Event /\ h'.p_tmevtn[d] # 0 BY <1>5, <1>1, <1>3 DEF Heap
  <2>2. \A d \in Event \ (R \cup {e}) : h'.p_tmevtn[d] = 0 BY <1>5 DEF R, Registered
  <2> QED BY <2>1, <2>2 DEF Registered
<1>7. \A d \in R : h'.evttim[d] = h.evttim[d] BY <1>1, <1>3, <1>4, <1>5
<1> QED BY <1>1, <1>5, <1>6, <1>7 DEF Came, R

LEMMA Unregisters ==
    ASSUME HeapInv, NEW e \in Registered(h), h' = [tmevtb_delete(h, e) EXCEPT !.evttim[e] = 0]
    PROVE  Gone(e)
<1> DEFINE R == Registered(h)
           x == tmevtb_delete(h, e)
<1>1. Heap(h, R, Key(h)) BY DEF HeapInv
<1>2. R \subseteq Event BY DEF Registered
<1>3. e \in R OBVIOUS
<1>4. \A d \in Event \ R : h.p_tmevtn[d] = 0 BY DEF Registered
<1> HIDE DEF R
<1>5. /\ Heap(x, R \ {e}, Key(x)) /\ x.p_tmevtn[e] = 0 /\ x.evttim = h.evttim
      /\ \A d \in Event \ R : x.p_tmevtn[d] = h.p_tmevtn[d]
  BY <1>1, <1>3, Delete
<1> HIDE DEF x
<1>6. 0 \in EVTTIM BY HeapAssumption DEF EVTTIM
<1>7. e \in Event \ (R \ {e}) BY <1>2, <1>3
<1>8. h' = [x EXCEPT !.evttim[e] = 0] BY DEF x
<1>9. /\ Heap(h', R \ {e}, Key(h')) /\ h'.p_tmevtn = x.p_tmevtn
      /\ \A d \in Event : h'.evttim[d] = IF d = e THEN 0 ELSE x.evttim[d]
  <2> DEFINE y == [x EXCEPT !.evttim[e] = 0]
  <2>1. /\ Heap(y, R \ {e}, Key(y)) /\ y.p_tmevtn = x.p_tmevtn
        /\ \A d \in Event : y.evttim[d] = IF d = e THEN 0 ELSE x.evttim[d]
    BY <1>5, <1>6, <1>7, Retime
  <2>2. h' = y BY <1>8
  <2> HIDE DEF y
  <2> QED BY <2>1, <2>2
<1>10. Registered(h') = R \ {e}
  <2>1. \A d \in R \ {e} : d \in Event /\ h'.p_tmevtn[d] # 0 BY <1>9, <1>2 DEF Heap
  <2>2. \A d \in Event : d \notin R \ {e} => h'.p_tmevtn[d] = 0 BY <1>4, <1>5, <1>9
  <2> QED BY <2>1, <2>2 DEF Registered
<1>11. \A d \in R \ {e} : h'.evttim[d] = h.evttim[d] BY <1>2, <1>5, <1>9
<1> QED BY <1>3, <1>9, <1>10, <1>11 DEF Gone, R

LEMMA TimePasses ==
    ASSUME HeapInv, NEW d \in 1 - EVTTIM_SPAN .. EVTTIM_SPAN - 1, pass(d)
    PROVE  Passed
<1> DEFINE y == [h EXCEPT !.current_evttim = (@ + d) % EVTTIM_SPAN]
<1>1. d \in Int /\ -EVTTIM_SPAN < d /\ d < EVTTIM_SPAN BY Span
<1>2. Heap(h, Registered(h), Key(h)) BY DEF HeapInv
<1>3. \A e \in Registered(h) : EVTTIM_ADVANCE(h, h.evttim[e]) - d \in EVTTIM BY DEF pass
<1>4. Heap(y, Registered(h), Key(y)) /\ y.p_tmevtn = h.p_tmevtn /\ y.evttim = h.evttim
  BY <1>1, <1>2, <1>3, HeapPasses
<1>5. h' = y BY DEF pass
<1> HIDE DEF y
<1>6. Registered(y) = Registered(h) BY <1>4 DEF Registered
<1> QED BY <1>4, <1>5, <1>6 DEF Passed

LEMMA Step ==
    ASSUME HeapInv, HeapNext
    PROVE  \/ \E e \in Event : Came(e) /\ \E t \in EVTTIM : register(e, t)
           \/ \E e \in Registered(h) : Gone(e) /\ unregister(e)
           \/ Gone(h.tmevt_heap[1]) /\ expire
           \/ Passed
<1>1. CASE \E e \in Event : unregister(e) \/ \E t \in EVTTIM : register(e, t)
  <2>1. PICK e \in Event : unregister(e) \/ \E t \in EVTTIM : register(e, t) BY <1>1
  <2>2. CASE unregister(e) BY <2>2, Unregisters DEF unregister
  <2>3. CASE \E t \in EVTTIM : register(e, t) BY <2>3, Registers
  <2> QED BY <2>1, <2>2, <2>3
<1>2. CASE expire
  <2>1. /\ h.tmevt_heap[1] \in Registered(h)
        /\ tmevtb_delete_top(h) = tmevtb_delete(h, h.tmevt_heap[1])
    BY <1>2, DeleteTop DEF HeapInv, expire
  <2>2. h' = [tmevtb_delete(h, h.tmevt_heap[1]) EXCEPT !.evttim[h.tmevt_heap[1]] = 0]
    BY <1>2, <2>1 DEF expire
  <2> QED BY <1>2, <2>1, <2>2, Unregisters
<1>3. CASE \E d \in 1 - EVTTIM_SPAN .. EVTTIM_SPAN - 1 : pass(d) BY <1>3, TimePasses
<1> QED BY <1>1, <1>2, <1>3 DEF HeapNext

LEMMA InvInit == HeapInit => HeapInv
<1> SUFFICES ASSUME HeapInit PROVE HeapInv OBVIOUS
<1>1. PICK t \in EVTTIM :
        h = [ tmevt_heap |-> [n \in Node |-> NONE], p_last |-> 0,
              p_tmevtn |-> [e \in Event |-> 0],
              evttim |-> [e \in Event |-> 0], current_evttim |-> t ]
  BY DEF HeapInit
<1>2. 0 \in EVTTIM BY HeapAssumption DEF EVTTIM
<1>3. h \in HeapState BY <1>1, <1>2 DEF HeapState
<1>4. Registered(h) = {} BY <1>1 DEF Registered
<1>5. h.p_last = 0 BY <1>1
<1> QED BY <1>3, <1>4, <1>5 DEF HeapInv, Heap

LEMMA InvNext == HeapInv /\ [HeapNext]_h => HeapInv'
<1> SUFFICES ASSUME HeapInv, [HeapNext]_h PROVE HeapInv' OBVIOUS
<1>1. CASE HeapNext
  <2>1. Heap(h', Registered(h'), Key(h')) BY <1>1, Step DEF Came, Gone, Passed
  <2> QED BY <2>1 DEF HeapInv
<1>2. CASE UNCHANGED h BY <1>2 DEF HeapInv, Registered, Heap, Key, Held
<1> QED BY <1>1, <1>2

LEMMA Ordered ==
    ASSUME NEW x, Heap(x, Registered(x), Key(x))
    PROVE  HeapOrdered(x)
<1> DEFINE R == Registered(x)
           K == Key(x)
           L == x.p_last
<1>1. Heap(x, R, K) OBVIOUS
<1>2. x \in HeapState /\ L \in Nat /\ R \subseteq Event BY <1>1, Nodes DEF Heap, HeapState
<1>3. L = Cardinality(R) BY <1>1, HeapCard
<1>4. \A e \in R : x.p_tmevtn[e] <= L /\ x.tmevt_heap[x.p_tmevtn[e]] = e
  BY <1>1, <1>2 DEF Heap
<1>5. ASSUME NEW n \in 2 .. L PROVE EVTTIM_LE(x, time_at(x, PARENT(n)), time_at(x, n))
  <2>1. n \in 1 .. L /\ PARENT(n) \in 1 .. L BY <1>2, Parents
  <2>2. x.tmevt_heap[n] \in Event /\ x.tmevt_heap[PARENT(n)] \in Event
    BY <2>1, <1>1, <1>2 DEF Heap, Held
  <2>3. K[x.tmevt_heap[PARENT(n)]] <= K[x.tmevt_heap[n]] BY <1>1 DEF Heap
  <2> QED BY <2>2, <2>3, KeyOf DEF EVTTIM_LE, time_at
<1> QED BY <1>3, <1>4, <1>5 DEF HeapOrdered

LEMMA InvOK == HeapInv => HeapOK
BY Ordered DEF HeapInv, HeapOK, Heap

(* However events come and go and the boundary by which they are compared  *)
(* moves on, wraps around or is set back, the heap stays a heap.           *)
THEOREM HeapCorrect == HeapSpec => []HeapOK
<1>1. HeapSpec => []HeapInv BY InvInit, InvNext, PTL DEF HeapSpec
<1> QED BY <1>1, InvOK, PTL

(* Each step, in a state of the invariant, is what OthersStay asks.        *)
LEMMA StepStays ==
    ASSUME HeapInv, HeapNext
    PROVE  Undisturbed
<1>1. ASSUME expire
      PROVE  \E e \in Registered(h) \ Registered(h') :
                 \A o \in Registered(h) : EVTTIM_LE(h, h.evttim[e], h.evttim[o])
  <2> DEFINE e == h.tmevt_heap[1]
  <2>1. e \in Registered(h)
        /\ tmevtb_delete_top(h) = tmevtb_delete(h, e)
    BY <1>1, DeleteTop DEF HeapInv, expire
  <2>2. h' = [tmevtb_delete(h, e) EXCEPT !.evttim[e] = 0]
    BY <1>1, <2>1 DEF expire
  <2> HIDE DEF e
  <2>3. Gone(e) BY <2>1, <2>2, Unregisters
  <2>4. Heap(h, Registered(h), Key(h)) /\ h \in HeapState BY DEF HeapInv, Heap
  <2>5. Key(h) \in [Event -> Nat] BY <2>4, Keys
  <2>6. \A o \in Registered(h) : Key(h)[e] <= Key(h)[o] BY <2>4, <2>5, Earliest DEF e
  <2>7. \A o \in Registered(h) : o \in Event BY DEF Registered
  <2>8. \A o \in Registered(h) : EVTTIM_LE(h, h.evttim[e], h.evttim[o])
    BY <2>1, <2>6, <2>7, KeyOf DEF EVTTIM_LE
  <2> QED BY <2>1, <2>3, <2>8 DEF Gone
<1>2. CASE \E e \in Event : Came(e)
  <2>1. Registered(h) \ Registered(h') = {} BY <1>2 DEF Came
  <2> QED BY <1>1, <1>2, <2>1, FS_EmptySet DEF Came, Undisturbed
<1>3. CASE \E e \in Event : Gone(e)
  <2>1. PICK e \in Event : Gone(e) BY <1>3
  <2>2. Registered(h) \ Registered(h') = {e} BY <2>1 DEF Gone
  <2>3. Cardinality({e}) = 1 BY FS_Singleton
  <2> QED BY <1>1, <2>1, <2>2, <2>3 DEF Gone, Undisturbed
<1>4. \A e \in Registered(h) : e \in Event BY DEF Registered
<1>5. CASE Passed
  <2>1. Registered(h) \ Registered(h') = {} BY <1>5 DEF Passed
  <2> QED BY <1>1, <1>5, <2>1, FS_EmptySet DEF Passed, Undisturbed
<1> QED BY <1>2, <1>3, <1>4, <1>5, Step DEF Gone

(* No call loses or changes another event than its own, and the one that   *)
(* expires is one of the earliest.                                         *)
THEOREM OthersStayCorrect == HeapSpec => OthersStay
<1>1. HeapSpec => []HeapInv BY InvInit, InvNext, PTL DEF HeapSpec
<1>2. HeapInv /\ [HeapNext]_h => [Undisturbed]_h BY StepStays
<1> QED BY <1>1, <1>2, PTL DEF HeapSpec, OthersStay
=============================================================================
