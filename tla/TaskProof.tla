----------------------------- MODULE TaskProof -----------------------------
(***************************************************************************)
(* Proofs about TaskCalls, for every set of tasks and number of            *)
(* priorities: the kernel without synchronisation objects keeps to its     *)
(* types, its ready queues stay consistent and p_schedtsk is always the    *)
(* task that should run.                                                   *)
(***************************************************************************)
EXTENDS TaskCalls, SequenceTheorems, FiniteSetTheorems, WellFoundedInduction, TLAPS

-----------------------------------------------------------------------------
(* What the queue operations of include/queue.h do to a queue in which no  *)
(* entry is linked twice, and the least element that primap_search finds.  *)

(* u is linked in q; every entry is linked once.                           *)
Linked(q, u) == \E i \in 1 .. Len(q) : q[i] = u
NoTwice(q)   == \A i, h \in 1 .. Len(q) : q[i] = q[h] => i = h

(* a comes before b in q.                                                  *)
Before(q, a, b) == \E i, h \in 1 .. Len(q) : i < h /\ q[i] = a /\ q[h] = b

(* From q to r no entry but x has changed its place among the others, and  *)
(* if x has, it has gone to the tail.                                      *)
Moved(q, r, x) ==
    /\ \A a, b : a # x /\ b # x /\ Before(r, a, b) => Before(q, a, b)
    /\ Linked(r, x) => r = q \/ Last(r) = x

LEMMA NotMoved == \A q, x : Moved(q, q, x)
BY DEF Moved

LEMMA MovedAgain ==
    ASSUME NEW q, NEW r, NEW s, NEW x, Moved(q, r, x), Moved(r, s, x)
    PROVE  Moved(q, s, x)
BY DEF Moved

(* A nonempty set of naturals has a least element; primap_search returns   *)
(* it.                                                                     *)
LEMMA LeastElement ==
    ASSUME NEW S \in SUBSET Nat, S # {}
    PROVE  \E m \in S : \A n \in S : m <= n
<1> DEFINE R == {p \in Nat \X Nat : p[1] < p[2]}
<1>1. R = OpToRel(<, Nat) BY DEF OpToRel
<1>2. IsWellFoundedOn(R, Nat) BY <1>1, NatLessThanWellFounded
<1>3. PICK x \in S : \A y \in S : ~ (<<y, x>> \in R) BY <1>2, WFMin
<1>4. ASSUME NEW y \in S PROVE x <= y
  <2>1. x \in Nat /\ y \in Nat OBVIOUS
  <2>2. y < x => <<y, x>> \in R BY <2>1
  <2> QED BY <2>1, <2>2, <1>3
<1> QED BY <1>4

(* Insertion at the tail links t and keeps the order of the others.        *)
LEMMA InsertPrev ==
    ASSUME NEW q \in Seq(Task), NEW t \in Task, NoTwice(q), ~Linked(q, t)
    PROVE  LET r == queue_insert_prev(q, t) IN
           /\ r \in Seq(Task)
           /\ r # << >>
           /\ NoTwice(r)
           /\ \A u : Linked(r, u) <=> Linked(q, u) \/ u = t
           /\ Head(r) = IF q = << >> THEN t ELSE Head(q)
           /\ Moved(q, r, t)
<1> DEFINE r == Append(q, t)
<1>1. r \in Seq(Task) /\ Len(r) = Len(q) + 1 /\ Len(q) \in Nat OBVIOUS
<1>2. \A i \in 1 .. Len(q) + 1 : r[i] = IF i <= Len(q) THEN q[i] ELSE t OBVIOUS
<1>3. r # << >> BY <1>1
<1>4. NoTwice(r) BY <1>1, <1>2 DEF NoTwice, Linked
<1>5. ASSUME NEW u PROVE Linked(r, u) <=> Linked(q, u) \/ u = t
  <2>1. Linked(r, u) => Linked(q, u) \/ u = t BY <1>1, <1>2 DEF Linked
  <2>2. Linked(q, u) => Linked(r, u) BY <1>1, <1>2 DEF Linked
  <2>3. r[Len(q) + 1] = t /\ Len(q) + 1 \in 1 .. Len(r) BY <1>1, <1>2
  <2> QED BY <2>1, <2>2, <2>3 DEF Linked
<1>6. Head(r) = r[1] BY <1>1, <1>3
<1>7. q # << >> => Head(q) = q[1] /\ Len(q) >= 1 OBVIOUS
<1>8. q = << >> => Len(q) = 0 OBVIOUS
<1>9. Head(r) = IF q = << >> THEN t ELSE Head(q) BY <1>1, <1>2, <1>6, <1>7, <1>8
<1>10. ASSUME NEW a, NEW b, a # t, b # t, Before(r, a, b) PROVE Before(q, a, b)
  <2>1. PICK i, h \in 1 .. Len(r) : i < h /\ r[i] = a /\ r[h] = b BY <1>10 DEF Before
  <2>2. i \in 1 .. Len(q) /\ h \in 1 .. Len(q) /\ q[i] = a /\ q[h] = b
    BY <2>1, <1>1, <1>2, <1>10
  <2> QED BY <2>1, <2>2 DEF Before
<1>11. Last(r) = t BY <1>1, <1>2 DEF Last
<1>12. Moved(q, r, t) BY <1>10, <1>11 DEF Moved
<1> QED BY <1>1, <1>3, <1>4, <1>5, <1>9, <1>12 DEF queue_insert_prev

(* Insertion at the head.                                                  *)
LEMMA InsertNext ==
    ASSUME NEW q \in Seq(Task), NEW t \in Task, NoTwice(q), ~Linked(q, t)
    PROVE  LET r == queue_insert_next(q, t) IN
           /\ r \in Seq(Task)
           /\ r # << >>
           /\ NoTwice(r)
           /\ \A u : Linked(r, u) <=> Linked(q, u) \/ u = t
           /\ Head(r) = t
<1> DEFINE r == <<t>> \o q
<1>1. r \in Seq(Task) /\ Len(r) = Len(q) + 1 /\ Len(q) \in Nat OBVIOUS
<1>2. \A i \in 1 .. Len(q) + 1 : r[i] = IF i = 1 THEN t ELSE q[i - 1] OBVIOUS
<1> HIDE DEF r
<1>3. r # << >> /\ Head(r) = t BY <1>1, <1>2
<1>4. NoTwice(r)
  <2>1. ASSUME NEW i \in 1 .. Len(r), NEW h \in 1 .. Len(r), r[i] = r[h] PROVE i = h
    <3>1. CASE i = 1 /\ h # 1
      <4>1. h - 1 \in 1 .. Len(q) /\ q[h - 1] = t BY <3>1, <2>1, <1>1, <1>2
      <4> QED BY <4>1 DEF Linked
    <3>2. CASE i # 1 /\ h = 1
      <4>1. i - 1 \in 1 .. Len(q) /\ q[i - 1] = t BY <3>2, <2>1, <1>1, <1>2
      <4> QED BY <4>1 DEF Linked
    <3>3. CASE i # 1 /\ h # 1
      <4>1. i - 1 \in 1 .. Len(q) /\ h - 1 \in 1 .. Len(q) /\ q[i - 1] = q[h - 1]
        BY <3>3, <2>1, <1>1, <1>2
      <4>2. i - 1 = h - 1 BY <4>1 DEF NoTwice
      <4> QED BY <4>2
    <3> QED BY <3>1, <3>2, <3>3
  <2> QED BY <2>1 DEF NoTwice
<1>5. ASSUME NEW u PROVE Linked(r, u) <=> Linked(q, u) \/ u = t
  <2>1. ASSUME NEW i \in 1 .. Len(r), r[i] = u, u # t PROVE Linked(q, u)
    <3>1. i - 1 \in 1 .. Len(q) /\ q[i - 1] = u BY <2>1, <1>1, <1>2
    <3> QED BY <3>1 DEF Linked
  <2>2. ASSUME NEW i \in 1 .. Len(q), q[i] = u PROVE Linked(r, u)
    <3>1. i + 1 \in 1 .. Len(r) /\ r[i + 1] = u BY <2>2, <1>1, <1>2
    <3> QED BY <3>1 DEF Linked
  <2>3. r[1] = t /\ 1 \in 1 .. Len(r) BY <1>1, <1>2
  <2> QED BY <2>1, <2>2, <2>3 DEF Linked
<1> QED BY <1>1, <1>3, <1>4, <1>5 DEF queue_insert_next, r

(* Insertion at either end.                                                *)
Inserted(q, t, front) == IF front THEN queue_insert_next(q, t) ELSE queue_insert_prev(q, t)

LEMMA InsertEnd ==
    ASSUME NEW q \in Seq(Task), NEW t \in Task, NoTwice(q), ~Linked(q, t),
           NEW front \in BOOLEAN
    PROVE  LET r == Inserted(q, t, front) IN
           /\ r \in Seq(Task)
           /\ r # << >>
           /\ NoTwice(r)
           /\ \A u : Linked(r, u) <=> Linked(q, u) \/ u = t
           /\ Head(r) = IF front \/ q = << >> THEN t ELSE Head(q)
           /\ ~front => Moved(q, r, t)
<1>1. CASE front BY <1>1, InsertNext DEF Inserted
<1>2. CASE ~front BY <1>2, InsertPrev DEF Inserted
<1> QED BY <1>1, <1>2

(* Deletion closes the gap that an entry leaves.                           *)
Gap(q, r, n) ==
    /\ Len(r) = Len(q) - 1
    /\ \A i \in 1 .. Len(q) - 1 : r[i] = IF i < n THEN q[i] ELSE q[i + 1]

LEMMA DeleteAt ==
    ASSUME NEW S, NEW q \in Seq(S), NEW t, Linked(q, t)
    PROVE  LET r == queue_delete(q, t) IN
           r \in Seq(S) /\ \E n \in 1 .. Len(q) : q[n] = t /\ Gap(q, r, n)
<1> DEFINE n == CHOOSE i \in 1 .. Len(q) : q[i] = t
           a == SubSeq(q, 1, n - 1)
           b == SubSeq(q, n + 1, Len(q))
           r == a \o b
<1>1. n \in 1 .. Len(q) /\ q[n] = t BY DEF Linked
<1>2. Len(q) \in Nat /\ q # << >> BY <1>1
<1> HIDE DEF n
<1>3. a \in Seq(S) /\ Len(a) = n - 1 /\ \A i \in 1 .. n - 1 : a[i] = q[i]
  <2>1. \A i \in 1 .. n - 1 : q[i] \in S BY <1>1, <1>2, ElementOfSeq
  <2> QED BY <1>1, <1>2, <2>1, SubSeqProperties
<1>4. b \in Seq(S) /\ Len(b) = Len(q) - n /\ \A i \in 1 .. Len(q) - n : b[i] = q[n + i]
  <2>1. \A i \in n + 1 .. Len(q) : q[i] \in S BY <1>1, <1>2, ElementOfSeq
  <2>2. /\ SubSeq(q, n + 1, Len(q)) \in Seq(S)
        /\ Len(SubSeq(q, n + 1, Len(q))) = IF n + 1 <= Len(q) THEN Len(q) - (n + 1) + 1 ELSE 0
        /\ \A i \in 1 .. Len(q) - (n + 1) + 1 : SubSeq(q, n + 1, Len(q))[i] = q[n + 1 + i - 1]
    BY <1>1, <1>2, <2>1, SubSeqProperties
  <2> QED BY <1>1, <1>2, <2>2
<1> HIDE DEF a, b
<1>5. /\ r \in Seq(S)
      /\ Len(r) = Len(q) - 1
      /\ \A i \in 1 .. Len(q) - 1 : r[i] = IF i < n THEN q[i] ELSE q[i + 1]
  <2>1. /\ r \in Seq(S)
        /\ Len(r) = Len(a) + Len(b)
        /\ \A i \in 1 .. Len(a) + Len(b) : r[i] = IF i <= Len(a) THEN a[i] ELSE b[i - Len(a)]
    BY <1>3, <1>4, ConcatProperties
  <2> HIDE DEF r
  <2>2. ASSUME NEW i \in 1 .. Len(q) - 1 PROVE r[i] = IF i < n THEN q[i] ELSE q[i + 1]
    <3>1. i \in 1 .. Len(a) + Len(b) /\ i \in Int /\ n \in Int BY <1>1, <1>2, <1>3, <1>4
    <3>2. CASE i < n
      <4>1. i <= Len(a) /\ i \in 1 .. n - 1 BY <3>1, <3>2, <1>1, <1>2, <1>3
      <4> QED BY <4>1, <3>1, <3>2, <2>1, <1>3
    <3>3. CASE i >= n
      <4>1. ~(i <= Len(a)) /\ i - Len(a) = i - (n - 1) BY <3>1, <3>3, <1>1, <1>2, <1>3
      <4>2. r[i] = b[i - (n - 1)] BY <4>1, <3>1, <2>1
      <4>3. i - (n - 1) \in 1 .. Len(q) - n /\ n + (i - (n - 1)) = i + 1
        BY <3>1, <3>3, <1>1, <1>2
      <4>4. b[i - (n - 1)] = q[n + (i - (n - 1))] BY <4>3, <1>4
      <4> QED BY <4>2, <4>3, <4>4, <3>1, <3>3
    <3> QED BY <3>1, <3>2, <3>3
  <2> QED BY <2>1, <2>2, <1>1, <1>2, <1>3, <1>4
<1> HIDE DEF r
<1>6. queue_delete(q, t) = r BY DEF queue_delete, RemoveAt, r, a, b, n
<1>7. Gap(q, r, n) BY <1>5 DEF Gap
<1> QED BY <1>1, <1>5, <1>6, <1>7

(* Deletion of a linked entry unlinks it alone; a head that is not deleted *)
(* stays the head, a head that is gives way to the next entry.             *)
LEMMA Delete ==
    ASSUME NEW q \in Seq(Task), NEW t \in Task, NoTwice(q), Linked(q, t)
    PROVE  LET r == queue_delete(q, t) IN
           /\ r \in Seq(Task)
           /\ NoTwice(r)
           /\ \A u : Linked(r, u) <=> Linked(q, u) /\ u # t
           /\ Head(q) # t => r # << >> /\ Head(r) = Head(q)
           /\ Moved(q, r, t)
<1> DEFINE r == queue_delete(q, t)
<1>3. r \in Seq(Task) /\ \E n \in 1 .. Len(q) : q[n] = t /\ Gap(q, r, n) BY DeleteAt
<1> HIDE DEF r
<1>4. PICK n \in 1 .. Len(q) : q[n] = t /\ Gap(q, r, n) BY <1>3
<1>1. n \in 1 .. Len(q) /\ q[n] = t BY <1>4
<1>2. Len(q) \in Nat /\ q # << >> BY <1>1
<1>5. /\ r \in Seq(Task)
      /\ Len(r) = Len(q) - 1
      /\ \A i \in 1 .. Len(q) - 1 : r[i] = IF i < n THEN q[i] ELSE q[i + 1]
  BY <1>3, <1>4 DEF Gap
<1>6. NoTwice(r) BY <1>1, <1>2, <1>5 DEF NoTwice
<1>7. ASSUME NEW u PROVE Linked(r, u) <=> Linked(q, u) /\ u # t
  <2>1. ASSUME NEW i \in 1 .. Len(r) PROVE Linked(q, r[i]) /\ r[i] # t
    <3>1. CASE i < n BY <3>1, <1>1, <1>2, <1>5 DEF NoTwice, Linked
    <3>2. CASE i >= n BY <3>2, <1>1, <1>2, <1>5 DEF NoTwice, Linked
    <3> QED BY <3>1, <3>2, <1>1, <1>2, <1>5
  <2>2. ASSUME NEW i \in 1 .. Len(q), q[i] # t PROVE Linked(r, q[i])
    <3>1. CASE i < n
      <4>1. i \in 1 .. Len(r) /\ r[i] = q[i] BY <3>1, <1>1, <1>2, <1>5
      <4> QED BY <4>1 DEF Linked
    <3>2. CASE i > n
      <4>1. i - 1 \in 1 .. Len(r) /\ r[i - 1] = q[i] BY <3>2, <1>1, <1>2, <1>5
      <4> QED BY <4>1 DEF Linked
    <3>3. i # n BY <2>2, <1>1
    <3> QED BY <3>1, <3>2, <3>3, <1>1, <1>2
  <2>3. Linked(r, u) => Linked(q, u) /\ u # t
    <3> SUFFICES ASSUME NEW i \in 1 .. Len(r), r[i] = u PROVE Linked(q, u) /\ u # t
      BY DEF Linked
    <3> QED BY <2>1
  <2>4. Linked(q, u) /\ u # t => Linked(r, u)
    <3> SUFFICES ASSUME NEW i \in 1 .. Len(q), q[i] = u, u # t PROVE Linked(r, u)
      BY DEF Linked
    <3> QED BY <2>2
  <2> QED BY <2>3, <2>4
<1>8. Head(q) # t => r # << >> /\ Head(r) = Head(q)
  <2>1. Head(q) = q[1] BY <1>2
  <2>2. ASSUME q[1] # t PROVE r # << >> /\ Head(r) = q[1]
    <3>1. n > 1 /\ Len(q) >= 2 BY <2>2, <1>1, <1>2
    <3>2. Len(r) >= 1 /\ r[1] = q[1] BY <3>1, <1>1, <1>2, <1>5
    <3> QED BY <3>2, <1>5
  <2> QED BY <2>1, <2>2
<1>10. ASSUME NEW x, NEW y, x # t, y # t, Before(r, x, y) PROVE Before(q, x, y)
  <2> DEFINE at(i) == IF i < n THEN i ELSE i + 1
  <2>1. PICK i, h \in 1 .. Len(r) : i < h /\ r[i] = x /\ r[h] = y BY <1>10 DEF Before
  <2>2. \A l \in 1 .. Len(r) : at(l) \in 1 .. Len(q) /\ q[at(l)] = r[l] BY <1>1, <1>2, <1>5
  <2>3. at(i) < at(h) BY <2>1, <1>1, <1>2, <1>5
  <2> HIDE DEF at
  <2> QED BY <2>1, <2>2, <2>3 DEF Before
<1>11. Moved(q, r, t) BY <1>7, <1>10 DEF Moved
<1> QED BY <1>5, <1>6, <1>7, <1>8, <1>11 DEF r


(* A queue without its head.                                               *)
LEMMA TailLinks ==
    ASSUME NEW q \in Seq(Task), q # << >>, NoTwice(q)
    PROVE  /\ Tail(q) \in Seq(Task) /\ NoTwice(Tail(q))
           /\ \A u : Linked(Tail(q), u) <=> Linked(q, u) /\ u # Head(q)
           /\ Moved(q, Tail(q), Head(q))
<1>1. /\ Tail(q) \in Seq(Task) /\ Len(Tail(q)) = Len(q) - 1 /\ Len(q) \in Nat
      /\ \A i \in 1 .. Len(q) - 1 : Tail(q)[i] = q[i + 1]
      /\ Head(q) = q[1] /\ Len(q) >= 1
  BY HeadTailProperties
<1>2. NoTwice(Tail(q)) BY <1>1 DEF NoTwice
<1>3. ASSUME NEW u PROVE Linked(Tail(q), u) <=> Linked(q, u) /\ u # Head(q)
  <2>1. ASSUME NEW i \in 1 .. Len(Tail(q)), Tail(q)[i] = u
        PROVE  Linked(q, u) /\ u # Head(q)
    <3>1. i + 1 \in 1 .. Len(q) /\ 1 \in 1 .. Len(q) /\ q[i + 1] = u /\ i + 1 # 1
      BY <1>1, <2>1
    <3> QED BY <3>1, <1>1 DEF Linked, NoTwice
  <2>2. ASSUME NEW i \in 1 .. Len(q), q[i] = u, u # Head(q) PROVE Linked(Tail(q), u)
    <3>1. i # 1 BY <1>1, <2>2
    <3>2. i - 1 \in 1 .. Len(Tail(q)) /\ Tail(q)[i - 1] = u BY <1>1, <2>2, <3>1
    <3> QED BY <3>2 DEF Linked
  <2> QED BY <2>1, <2>2 DEF Linked
<1>4. ASSUME NEW a, NEW b, Before(Tail(q), a, b) PROVE Before(q, a, b)
  <2>1. PICK i, h \in 1 .. Len(Tail(q)) : i < h /\ Tail(q)[i] = a /\ Tail(q)[h] = b
    BY <1>4 DEF Before
  <2>2. /\ i + 1 \in 1 .. Len(q) /\ h + 1 \in 1 .. Len(q) /\ i + 1 < h + 1
        /\ q[i + 1] = a /\ q[h + 1] = b
    BY <2>1, <1>1
  <2> QED BY <2>2 DEF Before
<1>5. Moved(q, Tail(q), Head(q)) BY <1>3, <1>4 DEF Moved
<1> QED BY <1>1, <1>2, <1>3, <1>5

(* Moving the head to the tail links the same entries.                     *)
LEMMA Rotate ==
    ASSUME NEW q \in Seq(Task), q # << >>, NoTwice(q)
    PROVE  LET r == queue_insert_prev(Tail(q), Head(q)) IN
           /\ r \in Seq(Task) /\ r # << >> /\ NoTwice(r)
           /\ \A u : Linked(r, u) <=> Linked(q, u)
           /\ Moved(q, r, Head(q))
<1>1. /\ Tail(q) \in Seq(Task) /\ NoTwice(Tail(q))
      /\ \A u : Linked(Tail(q), u) <=> Linked(q, u) /\ u # Head(q)
      /\ Moved(q, Tail(q), Head(q))
  BY TailLinks
<1>2. Head(q) \in Task /\ Linked(q, Head(q)) BY DEF Linked
<1>3. ~Linked(Tail(q), Head(q)) BY <1>1
<1> DEFINE r == queue_insert_prev(Tail(q), Head(q))
<1>4. /\ r \in Seq(Task) /\ r # << >> /\ NoTwice(r)
      /\ \A u : Linked(r, u) <=> Linked(Tail(q), u) \/ u = Head(q)
      /\ Moved(Tail(q), r, Head(q))
  BY <1>1, <1>2, <1>3, InsertPrev
<1>5. Moved(q, r, Head(q)) BY <1>1, <1>4, MovedAgain
<1> QED BY <1>1, <1>2, <1>4, <1>5

(* Insertion in the order of priorities links t somewhere.                 *)
LEMMA InsertTpri ==
    ASSUME NEW q \in Seq(Task), NEW t \in Task, NoTwice(q), ~Linked(q, t), NEW priority
    PROVE  LET r == queue_insert_tpri(q, t, priority) IN
           /\ r \in Seq(Task)
           /\ NoTwice(r)
           /\ \A u : Linked(r, u) <=> Linked(q, u) \/ u = t
<1> DEFINE ahead == {i \in 1 .. Len(q) : \A h \in 1 .. i : priority[q[h]] <= priority[t]}
           n == 1 + Cardinality(ahead)
           a == SubSeq(q, 1, n - 1)
           b == SubSeq(q, n, Len(q))
           c == a \o <<t>>
           r == c \o b
<1>1. Len(q) \in Nat OBVIOUS
<1>2. n \in 1 .. Len(q) + 1
  <2>1. IsFiniteSet(1 .. Len(q)) /\ Cardinality(1 .. Len(q)) = Len(q)
    <3>1. 1 \in Int /\ Len(q) \in Int BY <1>1
    <3>2. /\ IsFiniteSet(1 .. Len(q))
          /\ Cardinality(1 .. Len(q)) = IF 1 > Len(q) THEN 0 ELSE Len(q) - 1 + 1
      BY <3>1, FS_Interval
    <3> QED BY <3>2, <1>1
  <2>2. ahead \subseteq 1 .. Len(q) OBVIOUS
  <2> HIDE DEF ahead
  <2>3. Cardinality(ahead) \in Nat /\ Cardinality(ahead) <= Len(q)
    <3>1. IsFiniteSet(ahead) /\ Cardinality(ahead) <= Cardinality(1 .. Len(q))
      BY <2>1, <2>2, FS_Subset
    <3> QED BY <3>1, <2>1, FS_CardinalityType
  <2> QED BY <1>1, <2>3
<1>3. r = queue_insert_tpri(q, t, priority) BY DEF queue_insert_tpri, InsertAt
<1> HIDE DEF n
<1>4. a \in Seq(Task) /\ Len(a) = n - 1 /\ \A i \in 1 .. n - 1 : a[i] = q[i]
  <2>1. \A i \in 1 .. n - 1 : q[i] \in Task BY <1>1, <1>2, ElementOfSeq
  <2> QED BY <1>1, <1>2, <2>1, SubSeqProperties
<1>5. b \in Seq(Task) /\ Len(b) = Len(q) - n + 1 /\ \A i \in 1 .. Len(q) - n + 1 : b[i] = q[n + i - 1]
  <2>1. \A i \in n .. Len(q) : q[i] \in Task BY <1>1, <1>2, ElementOfSeq
  <2>2. /\ SubSeq(q, n, Len(q)) \in Seq(Task)
        /\ Len(SubSeq(q, n, Len(q))) = IF n <= Len(q) THEN Len(q) - n + 1 ELSE 0
        /\ \A i \in 1 .. Len(q) - n + 1 : SubSeq(q, n, Len(q))[i] = q[n + i - 1]
    BY <1>1, <1>2, <2>1, SubSeqProperties
  <2> QED BY <1>1, <1>2, <2>2
<1> HIDE DEF a, b
<1>6. c \in Seq(Task) /\ Len(c) = n /\ \A i \in 1 .. n : c[i] = IF i < n THEN q[i] ELSE t
  <2>1. <<t>> \in Seq(Task) /\ Len(<<t>>) = 1 /\ <<t>>[1] = t OBVIOUS
  <2>2. c \in Seq(Task) /\ Len(c) = Len(a) + 1 BY <2>1, <1>4
  <2>3. \A i \in 1 .. Len(a) + 1 : c[i] = IF i <= Len(a) THEN a[i] ELSE <<t>>[i - Len(a)]
    BY <2>1, <1>4
  <2>4. n \in Int BY <1>1, <1>2
  <2>5. ASSUME NEW i \in 1 .. n PROVE c[i] = IF i < n THEN q[i] ELSE t
    <3>1. CASE i < n BY <3>1, <2>3, <2>4, <1>2, <1>4
    <3>2. CASE ~(i < n)
      <4>1. i = n /\ i - Len(a) = 1 /\ i \in 1 .. Len(a) + 1 /\ ~(i <= Len(a))
        BY <3>2, <2>4, <1>4
      <4> HIDE DEF c
      <4> QED BY <4>1, <2>1, <2>3
    <3> QED BY <3>1, <3>2
  <2> QED BY <2>2, <2>4, <2>5, <1>4
<1> HIDE DEF c
<1>7. /\ r \in Seq(Task)
      /\ Len(r) = Len(q) + 1
      /\ \A i \in 1 .. Len(q) + 1 :
           r[i] = IF i < n THEN q[i] ELSE IF i = n THEN t ELSE q[i - 1]
  <2>1. r \in Seq(Task) /\ Len(r) = Len(c) + Len(b) BY <1>5, <1>6
  <2>2. \A i \in 1 .. Len(c) + Len(b) : r[i] = IF i <= Len(c) THEN c[i] ELSE b[i - Len(c)]
    BY <1>5, <1>6
  <2> QED BY <2>1, <2>2, <1>1, <1>2, <1>5, <1>6
<1> HIDE DEF r
\* where each entry of r was in q
<1> DEFINE old(i) == IF i < n THEN i ELSE i - 1
<1>8. ASSUME NEW i \in 1 .. Len(r), i # n
      PROVE  old(i) \in 1 .. Len(q) /\ r[i] = q[old(i)] /\ r[i] # t
  <2>1. i \in 1 .. Len(q) + 1 /\ i \in Int /\ n \in Int BY <1>1, <1>2, <1>7
  <2>2. old(i) \in 1 .. Len(q) BY <2>1, <1>1, <1>2, <1>8
  <2>3. r[i] = q[old(i)] BY <2>1, <1>7, <1>8
  <2> QED BY <2>2, <2>3 DEF Linked
<1>10. ASSUME NEW i \in 1 .. Len(r), NEW h \in 1 .. Len(r), r[i] = r[h] PROVE i = h
  <2>1. i \in Int /\ h \in Int /\ n \in Int /\ r[n] = t BY <1>1, <1>2, <1>7
  <2>2. CASE i = n \/ h = n BY <2>1, <2>2, <1>8, <1>10
  <2>3. CASE i # n /\ h # n
    <3>1. /\ old(i) \in 1 .. Len(q) /\ old(h) \in 1 .. Len(q) /\ q[old(i)] = q[old(h)]
      BY <2>3, <1>8, <1>10
    <3>2. old(i) = old(h) BY <3>1 DEF NoTwice
    <3> QED BY <3>2, <2>1, <2>3
  <2> QED BY <2>2, <2>3
<1>11. NoTwice(r) BY <1>10 DEF NoTwice
<1>9. ASSUME NEW u PROVE Linked(r, u) <=> Linked(q, u) \/ u = t
  <2>1. ASSUME Linked(r, u), u # t PROVE Linked(q, u)
    <3>1. PICK i \in 1 .. Len(r) : r[i] = u BY <2>1 DEF Linked
    <3>2. i # n BY <3>1, <2>1, <1>1, <1>2, <1>7
    <3>3. old(i) \in 1 .. Len(q) /\ q[old(i)] = u BY <3>1, <3>2, <1>8
    <3> HIDE DEF old
    <3> QED BY <3>3 DEF Linked
  <2>2. ASSUME Linked(q, u) PROVE Linked(r, u)
    <3>1. PICK i \in 1 .. Len(q) : q[i] = u BY <2>2 DEF Linked
    <3>2. CASE i < n BY <3>1, <3>2, <1>1, <1>2, <1>7 DEF Linked
    <3>3. CASE ~(i < n)
      <4>1. i + 1 \in 1 .. Len(r) /\ r[i + 1] = u BY <3>1, <3>3, <1>1, <1>2, <1>7
      <4> QED BY <4>1 DEF Linked
    <3> QED BY <3>2, <3>3
  <2>3. r[n] = t /\ n \in 1 .. Len(r) BY <1>1, <1>2, <1>7
  <2> QED BY <2>1, <2>2, <2>3 DEF Linked
<1> QED BY <1>3, <1>7, <1>9, <1>11

-----------------------------------------------------------------------------
(* The invariant.                                                          *)

(* The queues of a kernel state link exactly the tasks of R.               *)
Core(j, R) ==
    /\ j \in KernelState
    /\ R \subseteq Task
    /\ \A p \in Pri : NoTwice(j.readyq[p])
    /\ \A p \in Pri, t \in Task : Linked(j.readyq[p], t) <=> t \in R /\ j.priority[t] = p
    /\ j.primap = {p \in Pri : j.readyq[p] # << >>}

(* x is the first task of the best priority among R, or R is empty.        *)
Top(j, R, x) ==
    IF R = {} THEN x = NULL
    ELSE /\ x \in R
         /\ \A u \in R : j.priority[x] <= j.priority[u]
         /\ x = Head(j.readyq[j.priority[x]])

(* Everything but the ready queues, their bitmap and p_schedtsk agrees.    *)
Same(j, n) ==
    /\ n.tstat = j.tstat /\ n.bpriority = j.bpriority /\ n.actque = j.actque
    /\ n.wupque = j.wupque /\ n.raster = j.raster /\ n.enater = j.enater
    /\ n.winfo = j.winfo /\ n.wobj = j.wobj /\ n.tmevtb = j.tmevtb
    /\ n.lastmtx = j.lastmtx /\ n.prevmtx = j.prevmtx /\ n.loctsk = j.loctsk
    /\ n.wque = j.wque /\ n.runtsk = j.runtsk /\ n.enadsp = j.enadsp
    /\ n.dspflg = j.dspflg /\ n.ipm = j.ipm /\ n.lock = j.lock /\ n.nest = j.nest
    /\ n.broken = j.broken

(* ... everything but the ready queues and their bitmap.                   *)
SameSched(j, n) ==
    Same(j, n) /\ n.schedtsk = j.schedtsk /\ n.priority = j.priority

(* The waits and the failed asserts agree.                                 *)
SameWait(j, n) ==
    /\ n.winfo = j.winfo /\ n.tmevtb = j.tmevtb /\ n.broken = j.broken
    /\ n.wobj = j.wobj /\ n.wque = j.wque

(* The dispatcher's variables agree, and no task has joined a wait queue.  *)
SameSys(j, n) ==
    /\ \A w \in Wobj, t \in Task : Linked(n.wque[w], t) => Linked(j.wque[w], t)
    /\ n.lastmtx = j.lastmtx /\ n.runtsk = j.runtsk
    /\ n.enadsp = j.enadsp /\ n.dspflg = j.dspflg /\ n.ipm = j.ipm /\ n.nest = j.nest

(* Everything the invariant says of the rest of the state agrees.          *)
SameMode(j, n) ==
    /\ \A w \in Wobj, t \in Task : Linked(n.wque[w], t) => Linked(j.wque[w], t)
    /\ n.runtsk = j.runtsk /\ n.enadsp = j.enadsp /\ n.dspflg = j.dspflg
    /\ n.ipm = j.ipm /\ n.nest = j.nest

SameRest(j, n) ==
    /\ \A w \in Wobj, t \in Task : Linked(n.wque[w], t) => Linked(j.wque[w], t)
    /\ n.lastmtx = j.lastmtx /\ n.runtsk = j.runtsk
    /\ n.enadsp = j.enadsp /\ n.dspflg = j.dspflg /\ n.ipm = j.ipm /\ n.nest = j.nest
    /\ n.raster = j.raster /\ n.enater = j.enater

(* No task but x has changed its place in a ready queue, and x has only    *)
(* gone to the tail of one.                                                *)
OneMoved(j, n, x) == \A p \in Pri : Moved(j.readyq[p], n.readyq[p], x)

Kept(j, n) == n.readyq = j.readyq \/ \E x \in Task : OneMoved(j, n, x)

LEMMA NoneMoved ==
    ASSUME NEW j, NEW n, n.readyq = j.readyq, NEW x
    PROVE  OneMoved(j, n, x)
BY NotMoved DEF OneMoved

LEMMA OneMovedAgain ==
    ASSUME NEW j, NEW i, NEW n, NEW x, OneMoved(j, i, x), OneMoved(i, n, x)
    PROVE  OneMoved(j, n, x)
BY MovedAgain DEF OneMoved

(* Priorities are numbers.                                                 *)
LEMMA PriNat == Pri \subseteq Nat /\ \A p, q \in Pri : p \in Int /\ q \in Int
BY TaskAssumption DEF Pri

(* A null pointer is no task.                                              *)
LEMMA NullNotTask == NULL \notin Task
BY TaskAssumption

(* primap_search finds the best priority that has a runnable task, and     *)
(* search_schedtsk the first task of it.                                   *)
LEMMA Search ==
    ASSUME NEW j, NEW R, Core(j, R), R # {}
    PROVE  /\ ~primap_empty(j)
           /\ Top(j, R, search_schedtsk(j))
<1>1. PICK u \in R : TRUE OBVIOUS
<1>2. u \in Task /\ j.priority[u] \in Pri BY <1>1 DEF Core, KernelState
<1>3. Linked(j.readyq[j.priority[u]], u) BY <1>1, <1>2 DEF Core
<1>4. ASSUME NEW v \in R PROVE j.priority[v] \in j.primap
  <2>1. v \in Task /\ j.priority[v] \in Pri /\ j.readyq[j.priority[v]] \in Seq(Task)
    BY DEF Core, KernelState
  <2>2. Linked(j.readyq[j.priority[v]], v) BY <2>1 DEF Core
  <2>3. j.readyq[j.priority[v]] # << >> BY <2>1, <2>2 DEF Linked
  <2> QED BY <2>1, <2>3 DEF Core
<1> DEFINE p == primap_search(j)
<1>5. p \in j.primap /\ \A q \in j.primap : p <= q
  <2>1. j.primap \in SUBSET Nat /\ j.primap # {}
    BY <1>1, <1>4, PriNat DEF Core
  <2>2. \E m \in j.primap : \A q \in j.primap : m <= q BY <2>1, LeastElement
  <2> QED BY <2>2 DEF primap_search
<1> HIDE DEF p
<1>6. p \in Pri /\ j.readyq[p] \in Seq(Task) /\ j.readyq[p] # << >>
  BY <1>5 DEF Core, KernelState
<1> DEFINE x == Head(j.readyq[p])
<1>7. x \in Task /\ x = j.readyq[p][1] /\ 1 \in 1 .. Len(j.readyq[p])
  BY <1>6
<1>8. x \in R /\ j.priority[x] = p
  BY <1>6, <1>7 DEF Core, Linked
<1>9. Top(j, R, x) BY <1>1, <1>4, <1>5, <1>8 DEF Top
<1> QED BY <1>4, <1>1, <1>9 DEF primap_empty, search_schedtsk, p

(* HighestTask, in terms of the tasks that are linked: Top names the same  *)
(* task.                                                                   *)
LEMMA Highest ==
    ASSUME NEW j, NEW R, Core(j, R)
    PROVE  \A x : Top(j, R, x) <=> x = HighestTask(j)
<1>1. CASE R = {}
  <2>1. primap_empty(j)
    <3>1. ASSUME NEW p \in Pri, j.readyq[p] # << >> PROVE FALSE
      <4>1. j.readyq[p] \in Seq(Task) BY DEF Core, KernelState
      <4>2. 1 \in 1 .. Len(j.readyq[p]) /\ j.readyq[p][1] \in Task
        BY <4>1, <3>1
      <4>3. Linked(j.readyq[p], j.readyq[p][1]) BY <4>2 DEF Linked
      <4> QED BY <4>2, <4>3, <1>1 DEF Core
    <3>2. j.primap = {p \in Pri : j.readyq[p] # << >>} BY DEF Core
    <3>3. j.primap = {} BY <3>1, <3>2
    <3> QED BY <3>3 DEF primap_empty
  <2> QED BY <1>1, <2>1 DEF Top, HighestTask
<1>2. CASE R # {}
  <2>1. ~primap_empty(j) /\ Top(j, R, search_schedtsk(j)) BY <1>2, Search
  <2>2. ASSUME NEW x, Top(j, R, x) PROVE x = search_schedtsk(j)
    <3> DEFINE y == search_schedtsk(j)
    <3> HIDE DEF y
    <3>1. x \in R /\ y \in R /\ j.priority[x] <= j.priority[y] /\ j.priority[y] <= j.priority[x]
      BY <1>2, <2>1, <2>2 DEF Top, y
    <3>2. j.priority[x] \in Int /\ j.priority[y] \in Int
      <4>1. j \in KernelState /\ x \in Task /\ y \in Task BY <3>1 DEF Core
      <4>2. j.priority[x] \in Pri /\ j.priority[y] \in Pri BY <4>1 DEF KernelState
      <4> QED BY <4>2, PriNat
    <3>3. j.priority[x] = j.priority[y] BY <3>1, <3>2
    <3> QED BY <1>2, <2>1, <2>2, <3>3 DEF Top, y
  <2> QED BY <2>1, <2>2 DEF HighestTask
<1> QED BY <1>1, <1>2


-----------------------------------------------------------------------------
(* What the routines of TaskCtl rely on and keep: the ready queues are     *)
(* consistent, and p_schedtsk is the first task of the best priority, or,  *)
(* while dispatching is disabled, the running task.                        *)
Ready(j, R) ==
    /\ Core(j, R)
    /\ j.dspflg => Top(j, R, j.schedtsk)
    /\ ~j.dspflg => j.schedtsk = j.runtsk /\ j.runtsk \in R

(* Core and Top only look at the priorities of the runnable tasks.         *)
LEMMA CoreFrame ==
    ASSUME NEW j, NEW R, NEW n, Core(j, R), n \in KernelState,
           n.readyq = j.readyq, n.primap = j.primap,
           \A u \in R : n.priority[u] = j.priority[u],
           \A p \in Pri, t \in Task \ R : ~Linked(n.readyq[p], t)
    PROVE  Core(n, R) /\ \A x : Top(n, R, x) <=> Top(j, R, x)
<1>1. Core(n, R) BY DEF Core
<1>2. ASSUME NEW x PROVE Top(n, R, x) <=> Top(j, R, x) BY DEF Top
<1> QED BY <1>1, <1>2

(* A task outside R is in no ready queue.                                  *)
LEMMA NotLinked ==
    ASSUME NEW j, NEW R, Core(j, R)
    PROVE  \A p \in Pri, t \in Task \ R : ~Linked(j.readyq[p], t)
BY DEF Core

(* Ready depends only on the ready queues, their bitmap, p_schedtsk,       *)
(* p_runtsk, dspflg and the priorities of the runnable tasks.              *)
LEMMA ReadyFrame ==
    ASSUME NEW j, NEW R, NEW n, Ready(j, R), n \in KernelState,
           n.readyq = j.readyq, n.primap = j.primap, n.schedtsk = j.schedtsk,
           n.dspflg = j.dspflg, n.runtsk = j.runtsk,
           \A u \in R : n.priority[u] = j.priority[u]
    PROVE  Ready(n, R)
<1>1. Core(j, R) BY DEF Ready
<1>2. \A p \in Pri, t \in Task \ R : ~Linked(n.readyq[p], t) BY <1>1, NotLinked
<1>3. Core(n, R) /\ \A x : Top(n, R, x) <=> Top(j, R, x) BY <1>1, <1>2, CoreFrame
<1> QED BY <1>3 DEF Ready

(* The head of a ready queue is a runnable task of that priority.          *)
LEMMA HeadRunnable ==
    ASSUME NEW j, NEW R, Core(j, R), NEW p \in Pri, j.readyq[p] # << >>
    PROVE  /\ Head(j.readyq[p]) \in R
           /\ Head(j.readyq[p]) \in Task
           /\ j.priority[Head(j.readyq[p])] = p
<1>1. j.readyq[p] \in Seq(Task) BY DEF Core, KernelState
<1> DEFINE x == Head(j.readyq[p])
<1>2. x \in Task /\ x = j.readyq[p][1] /\ 1 \in 1 .. Len(j.readyq[p]) BY <1>1
<1>3. Linked(j.readyq[p], x) BY <1>2 DEF Linked
<1> QED BY <1>2, <1>3 DEF Core

(* The queue of a runnable task's priority is not empty.                   *)
LEMMA RunnableLinked ==
    ASSUME NEW j, NEW R, Core(j, R), NEW t \in R
    PROVE  /\ t \in Task /\ j.priority[t] \in Pri
           /\ j.readyq[j.priority[t]] \in Seq(Task)
           /\ Linked(j.readyq[j.priority[t]], t)
           /\ j.readyq[j.priority[t]] # << >>
<1>1. /\ t \in Task /\ j.priority[t] \in Pri
      /\ j.readyq[j.priority[t]] \in Seq(Task)
  BY DEF Core, KernelState
<1>2. Linked(j.readyq[j.priority[t]], t) BY <1>1 DEF Core
<1> QED BY <1>1, <1>2 DEF Linked

(* t has joined the queue of priority pri at one of its ends.              *)
Joined(j, n, t, pri, front) ==
    /\ Head(n.readyq[pri]) = IF front \/ j.readyq[pri] = << >> THEN t ELSE Head(j.readyq[pri])
    /\ \A p \in Pri : p # pri => n.readyq[p] = j.readyq[p]

(* Linking t at an end of its priority's queue adds it to the linked tasks *)
(* and changes no other queue.                                             *)
LEMMA Link ==
    ASSUME NEW j, NEW R, Core(j, R), NEW t \in Task, t \notin R, NEW n,
           n \in KernelState, n.priority = j.priority, NEW front \in BOOLEAN,
           n.readyq = [j.readyq EXCEPT ![j.priority[t]] = Inserted(@, t, front)],
           n.primap = j.primap \cup {j.priority[t]}
    PROVE  /\ Core(n, R \cup {t}) /\ Joined(j, n, t, j.priority[t], front)
           /\ ~front => OneMoved(j, n, t)
<1> DEFINE pri == j.priority[t]
           q == Inserted(j.readyq[pri], t, front)
<1>2. /\ j \in KernelState /\ pri \in Pri /\ j.readyq \in [Pri -> Seq(Task)]
      /\ j.primap \in SUBSET Pri /\ R \subseteq Task /\ j.priority \in [Task -> Pri]
  BY DEF Core, KernelState
<1>3. /\ q \in Seq(Task) /\ q # << >> /\ NoTwice(q)
      /\ \A u : Linked(q, u) <=> Linked(j.readyq[pri], u) \/ u = t
      /\ Head(q) = IF front \/ j.readyq[pri] = << >> THEN t ELSE Head(j.readyq[pri])
      /\ ~front => Moved(j.readyq[pri], q, t)
  <2>1. j.readyq[pri] \in Seq(Task) /\ NoTwice(j.readyq[pri]) BY <1>2 DEF Core
  <2>2. ~Linked(j.readyq[pri], t) BY <1>2 DEF Core
  <2> QED BY <2>1, <2>2, InsertEnd
<1>4. n.readyq = [j.readyq EXCEPT ![pri] = q] OBVIOUS
<1> HIDE DEF q
<1>5. ASSUME NEW p \in Pri PROVE NoTwice(n.readyq[p])
  BY <1>2, <1>3, <1>4 DEF Core
<1>6. ASSUME NEW p \in Pri, NEW u \in Task
      PROVE  Linked(n.readyq[p], u) <=> u \in R \cup {t} /\ n.priority[u] = p
  <2>1. CASE p = pri BY <2>1, <1>2, <1>3, <1>4 DEF Core
  <2>2. CASE p # pri BY <2>2, <1>2, <1>3, <1>4 DEF Core
  <2> QED BY <2>1, <2>2
<1>7. n.primap = {p \in Pri : n.readyq[p] # << >>}
  BY <1>2, <1>3, <1>4 DEF Core
<1>8. Core(n, R \cup {t}) BY <1>2, <1>5, <1>6, <1>7 DEF Core
<1>9. ~front => OneMoved(j, n, t) BY <1>2, <1>3, <1>4, NotMoved DEF OneMoved
<1> QED BY <1>2, <1>3, <1>4, <1>8, <1>9 DEF Joined

(* A head of j's queues that is not t is still one in n's.                 *)
HeadsKept(j, n, t) ==
    \A p \in Pri : j.readyq[p] # << >> /\ Head(j.readyq[p]) # t =>
        n.readyq[p] # << >> /\ Head(n.readyq[p]) = Head(j.readyq[p])

(* Unlinking a runnable task leaves the others linked; a head that stays   *)
(* is still the head.                                                      *)
LEMMA Unlink ==
    ASSUME NEW j, NEW R, Core(j, R), NEW t \in R, NEW i \in KernelState,
           i.readyq = j.readyq, i.primap = j.primap,
           \A u \in R \ {t} : i.priority[u] = j.priority[u]
    PROVE  LET n == ready_unlink(i, t, j.priority[t]) IN
           /\ Core(n, R \ {t})
           /\ SameSched(i, n)
           /\ HeadsKept(j, n, t)
           /\ OneMoved(j, n, t)
<1> DEFINE pri == j.priority[t]
           rest == queue_delete(j.readyq[pri], t)
           n == ready_unlink(i, t, pri)
           map == IF rest = << >> THEN i.primap \ {pri} ELSE i.primap
<1>1. /\ t \in Task /\ pri \in Pri /\ j.readyq \in [Pri -> Seq(Task)]
      /\ j.primap \in SUBSET Pri /\ R \subseteq Task
  BY DEF Core, KernelState
<1>2. /\ rest \in Seq(Task) /\ NoTwice(rest)
      /\ \A u : Linked(rest, u) <=> Linked(j.readyq[pri], u) /\ u # t
      /\ Head(j.readyq[pri]) # t => rest # << >> /\ Head(rest) = Head(j.readyq[pri])
      /\ Moved(j.readyq[pri], rest, t)
  <2>1. Linked(j.readyq[pri], t) /\ NoTwice(j.readyq[pri]) BY <1>1 DEF Core
  <2> QED BY <1>1, <2>1, Delete
<1>3. n = [i EXCEPT !.readyq[pri] = rest, !.primap = map]
  BY DEF ready_unlink, queue_empty
<1>4. map \in SUBSET Pri BY <1>1
<1> HIDE DEF rest, n, map
<1>5. /\ n.readyq = [j.readyq EXCEPT ![pri] = rest] /\ n.primap = map
      /\ SameSched(i, n) /\ n.priority = i.priority
  BY <1>3 DEF KernelState, Same, SameSched
<1> HIDE DEF pri
<1>6. n \in KernelState BY <1>1, <1>2, <1>3, <1>4 DEF KernelState
<1> USE DEF pri
<1>7. ASSUME NEW p \in Pri PROVE NoTwice(n.readyq[p])
  BY <1>1, <1>2, <1>5 DEF Core
<1>8. ASSUME NEW p \in Pri, NEW u \in Task
      PROVE  Linked(n.readyq[p], u) <=> u \in R \ {t} /\ n.priority[u] = p
  <2>1. CASE p = pri
    <3>1. Linked(rest, u) <=> u \in R /\ j.priority[u] = pri /\ u # t
      BY <1>1, <1>2 DEF Core
    <3>2. n.readyq[p] = rest BY <2>1, <1>1, <1>5
    <3> QED BY <2>1, <3>1, <3>2, <1>5
  <2>2. CASE p # pri BY <2>2, <1>1, <1>2, <1>5 DEF Core
  <2> QED BY <2>1, <2>2
<1>9. n.primap = {p \in Pri : n.readyq[p] # << >>}
  <2>1. j.primap = {p \in Pri : j.readyq[p] # << >>} /\ pri \in j.primap
    BY <1>1, RunnableLinked DEF Core
  <2>2. n.primap \subseteq Pri BY <1>4, <1>5
  <2>3. ASSUME NEW p \in Pri PROVE p \in n.primap <=> n.readyq[p] # << >>
    <3>1. CASE p = pri BY <3>1, <2>1, <1>1, <1>5 DEF map
    <3>2. CASE p # pri BY <3>2, <2>1, <1>1, <1>5 DEF map
    <3> QED BY <3>1, <3>2
  <2> QED BY <2>2, <2>3
<1>10. Core(n, R \ {t}) BY <1>1, <1>6, <1>7, <1>8, <1>9 DEF Core
<1>11. ASSUME NEW p \in Pri, j.readyq[p] # << >>, Head(j.readyq[p]) # t
       PROVE  n.readyq[p] # << >> /\ Head(n.readyq[p]) = Head(j.readyq[p])
  BY <1>1, <1>2, <1>5, <1>11
<1>12. OneMoved(j, n, t) BY <1>1, <1>2, <1>5, NotMoved DEF OneMoved
<1> QED BY <1>5, <1>10, <1>11, <1>12 DEF n, HeadsKept

(* A task taken out of the queue of its own, unchanged priority.           *)
LEMMA UnlinkSelf ==
    ASSUME NEW j, NEW R, Core(j, R), NEW t \in R
    PROVE  LET n == ready_unlink(j, t, j.priority[t]) IN
           /\ Core(n, R \ {t})
           /\ SameSched(j, n)
           /\ HeadsKept(j, n, t)
           /\ OneMoved(j, n, t)
<1>1. j \in KernelState /\ \A u \in R \ {t} : j.priority[u] = j.priority[u] BY DEF Core
<1> QED BY <1>1, Unlink

(* make_runnable adds t to the runnable tasks.                             *)
LEMMA MakeRunnable ==
    ASSUME NEW j, NEW R, Ready(j, R), NEW t \in Task, t \notin R
    PROVE  LET n == make_runnable(j, t) IN
           /\ Ready(n, R \cup {t}) /\ Same(j, n) /\ n.priority = j.priority
           /\ OneMoved(j, n, t)
<1> DEFINE n == make_runnable(j, t)
           pri == j.priority[t]
           q == queue_insert_prev(j.readyq[pri], t)
<1>1. Core(j, R) BY DEF Ready
<1>2. /\ j \in KernelState /\ pri \in Pri /\ j.readyq \in [Pri -> Seq(Task)]
      /\ j.primap \in SUBSET Pri /\ R \subseteq Task /\ j.priority \in [Task -> Pri]
  BY <1>1 DEF Core, KernelState
<1>3. /\ q \in Seq(Task) /\ q # << >> /\ NoTwice(q)
      /\ \A u : Linked(q, u) <=> Linked(j.readyq[pri], u) \/ u = t
      /\ Head(q) = IF j.readyq[pri] = << >> THEN t ELSE Head(j.readyq[pri])
  <2>1. j.readyq[pri] \in Seq(Task) /\ NoTwice(j.readyq[pri]) BY <1>1, <1>2 DEF Core
  <2>2. ~Linked(j.readyq[pri], t) BY <1>1, <1>2 DEF Core
  <2> QED BY <2>1, <2>2, InsertPrev
<1> HIDE DEF q
<1>4. /\ n.readyq = [j.readyq EXCEPT ![pri] = q]
      /\ n.primap = j.primap \cup {pri}
      /\ n.schedtsk = IF /\ j.dspflg
                         /\ j.schedtsk = NULL \/ pri < j.priority[j.schedtsk]
                      THEN t ELSE j.schedtsk
      /\ n.priority = j.priority
      /\ Same(j, n)
      /\ n \in KernelState
  <2> DEFINE s == IF /\ j.dspflg
                     /\ j.schedtsk = NULL \/ pri < j.priority[j.schedtsk]
                  THEN t ELSE j.schedtsk
  <2>1. n = [j EXCEPT !.readyq[pri] = q, !.primap = @ \cup {pri}, !.schedtsk = s]
    BY DEF make_runnable, q
  <2>2. s \in Task \cup {NULL} BY <1>2 DEF KernelState
  <2> HIDE DEF s, n, pri
  <2>3. /\ n.readyq = [j.readyq EXCEPT ![pri] = q]
        /\ n.primap = j.primap \cup {pri}
        /\ n.schedtsk = s
        /\ n.priority = j.priority
        /\ Same(j, n)
    BY <2>1, <1>2 DEF KernelState, Same
  <2>4. n \in KernelState BY <2>1, <2>2, <1>2, <1>3 DEF KernelState
  <2> QED BY <2>3, <2>4 DEF s
<1> HIDE DEF n
<1>5. Core(n, R \cup {t}) /\ OneMoved(j, n, t)
  <2>1. n.readyq = [j.readyq EXCEPT ![pri] = Inserted(@, t, FALSE)] BY <1>4 DEF q, Inserted
  <2>2. FALSE \in BOOLEAN OBVIOUS
  <2> QED BY <2>1, <2>2, <1>1, <1>4, Link
<1>6. ASSUME n.dspflg PROVE Top(n, R \cup {t}, n.schedtsk)
  <2>1. j.dspflg /\ Top(j, R, j.schedtsk) BY <1>4, <1>6 DEF Ready, Same
  <2>2. CASE R = {}
    <3>1. j.schedtsk = NULL BY <2>1, <2>2 DEF Top
    <3>2. j.readyq[pri] = << >>
      <4>1. CASE j.readyq[pri] # << >> BY <4>1, <1>1, <1>2, <2>2, HeadRunnable
      <4> QED BY <4>1
    <3>3. n.schedtsk = t /\ R \cup {t} = {t} BY <3>1, <2>1, <2>2, <1>4
    <3>4. t = Head(n.readyq[n.priority[t]]) BY <3>2, <1>2, <1>3, <1>4
    <3>5. n.priority[t] <= n.priority[t]
      <4>1. j.priority[t] \in Int BY <1>2, PriNat
      <4> QED BY <4>1, <1>4
    <3> QED BY <3>3, <3>4, <3>5 DEF Top
  <2>3. CASE R # {}
    <3>1. /\ j.schedtsk \in R /\ \A u \in R : j.priority[j.schedtsk] <= j.priority[u]
          /\ j.schedtsk = Head(j.readyq[j.priority[j.schedtsk]])
      BY <2>1, <2>3 DEF Top
    <3>2. j.schedtsk # NULL /\ j.schedtsk \in Task BY <3>1, <1>2, NullNotTask
    <3>3. /\ j.priority[j.schedtsk] \in Int /\ pri \in Int
          /\ \A u \in R : j.priority[u] \in Int
      BY <3>2, <1>2, PriNat
    <3>4. CASE pri < j.priority[j.schedtsk]
      <4>1. n.schedtsk = t BY <3>4, <1>4, <2>1
      <4>2. \A u \in R : pri < j.priority[u] BY <3>1, <3>3, <3>4
      <4>3. j.readyq[pri] = << >>
        <5>1. CASE j.readyq[pri] # << >>
          BY <5>1, <1>1, <1>2, <4>2, <3>3, HeadRunnable
        <5> QED BY <5>1
      <4>4. t = Head(n.readyq[pri]) BY <4>3, <1>2, <1>3, <1>4
      <4>5. \A u \in R \cup {t} : n.priority[t] <= n.priority[u]
        <5>1. n.priority = j.priority /\ pri = j.priority[t] BY <1>4
        <5>2. ASSUME NEW u \in R PROVE pri <= j.priority[u]
          <6>1. pri \in Int /\ j.priority[u] \in Int BY <3>3
          <6>2. pri < j.priority[u] BY <4>2
          <6> QED BY <6>1, <6>2
        <5>3. pri \in Int BY <3>3, Zenon
        <5> QED BY <5>1, <5>2, <5>3
      <4> QED BY <4>1, <4>4, <4>5, <1>4 DEF Top
    <3>5. CASE ~(pri < j.priority[j.schedtsk])
      <4>1. n.schedtsk = j.schedtsk BY <3>5, <3>2, <1>4
      <4>2. \A u \in R \cup {t} : n.priority[j.schedtsk] <= n.priority[u]
        BY <3>1, <3>3, <3>5, <1>4
      <4>3. j.schedtsk = Head(n.readyq[j.priority[j.schedtsk]])
        <5>1. CASE j.priority[j.schedtsk] = pri
          <6>1. j.readyq[pri] # << >> BY <5>1, <3>1, <1>1, RunnableLinked
          <6> QED BY <6>1, <5>1, <3>1, <1>2, <1>3, <1>4
        <5>2. CASE j.priority[j.schedtsk] # pri
          BY <5>2, <3>1, <3>2, <1>2, <1>4
        <5> QED BY <5>1, <5>2
      <4> QED BY <4>1, <4>2, <4>3, <3>1, <1>4 DEF Top
    <3> QED BY <3>4, <3>5
  <2> QED BY <2>2, <2>3
<1>7. ~n.dspflg => n.schedtsk = n.runtsk /\ n.runtsk \in R \cup {t}
  BY <1>4 DEF Ready, Same
<1> QED BY <1>4, <1>5, <1>6, <1>7 DEF Ready, n


(* make_non_runnable takes t out of the runnable tasks; with dispatching   *)
(* disabled t may not be the running task.                                 *)
LEMMA MakeNonRunnable ==
    ASSUME NEW j, NEW R, Ready(j, R), NEW t \in R, j.dspflg \/ t # j.runtsk
    PROVE  LET n == make_non_runnable(j, t) IN
           /\ Ready(n, R \ {t}) /\ Same(j, n) /\ n.priority = j.priority
           /\ OneMoved(j, n, t)
<1> DEFINE pri  == j.priority[t]
           k1   == ready_unlink(j, t, pri)
           next == IF k1.readyq[pri] # << >> THEN Head(k1.readyq[pri])
                   ELSE IF primap_empty(k1) THEN NULL ELSE search_schedtsk(k1)
           n    == make_non_runnable(j, t)
<1>1. Core(j, R) /\ j \in KernelState /\ t \in Task /\ pri \in Pri /\ R \subseteq Task
  BY DEF Ready, Core, KernelState
<1>2. /\ Core(k1, R \ {t})
      /\ SameSched(j, k1)
      /\ HeadsKept(j, k1, t)
      /\ OneMoved(j, k1, t)
  BY <1>1, UnlinkSelf
<1> HIDE DEF k1
<1>3. /\ k1 \in KernelState
      /\ Same(j, k1) /\ k1.schedtsk = j.schedtsk /\ k1.priority = j.priority
  BY <1>2 DEF Core, SameSched
<1> USE DEF k1
<1>4. j.schedtsk = t => j.dspflg BY DEF Ready
<1>5. n = IF j.schedtsk = t THEN [k1 EXCEPT !.schedtsk = next] ELSE k1
  BY <1>4 DEF make_non_runnable, Check, queue_empty
<1> HIDE DEF k1, n
<1>6. CASE j.schedtsk = t
  <2>1. j.dspflg /\ Top(j, R, t) BY <1>4, <1>6 DEF Ready
  <2>2. Top(k1, R \ {t}, next)
    <3>1. CASE k1.readyq[pri] # << >>
      <4>1. next \in R \ {t} /\ k1.priority[next] = pri
        BY <3>1, <1>1, <1>2, <1>3, HeadRunnable
      <4>2. \A u \in R \ {t} : pri <= k1.priority[u]
        <5>1. \A u \in R : pri <= j.priority[u] BY <2>1 DEF Top
        <5> QED BY <5>1, <1>3
      <4> QED BY <3>1, <4>1, <4>2 DEF Top
    <3>2. CASE k1.readyq[pri] = << >>
      <4>1. next = HighestTask(k1) BY <3>2, Zenon DEF HighestTask
      <4> QED BY <4>1, <1>2, <1>3, Highest
    <3> QED BY <3>1, <3>2
  <2>3. next \in Task \cup {NULL}
    BY <2>2, <1>1 DEF Top
  <2> HIDE DEF next
  <2>4. n = [k1 EXCEPT !.schedtsk = next] BY <1>5, <1>6
  <2>5. /\ n.readyq = k1.readyq /\ n.primap = k1.primap /\ n.priority = k1.priority
        /\ n.schedtsk = next /\ Same(k1, n)
    BY <2>4, <1>3 DEF KernelState, Same
  <2>6. n \in KernelState BY <2>3, <2>4, <1>3 DEF KernelState
  <2>7. Core(n, R \ {t}) /\ Top(n, R \ {t}, n.schedtsk)
    <3>1. \A p \in Pri, u \in Task \ (R \ {t}) : ~Linked(n.readyq[p], u)
      BY <2>5, <1>2, <1>3, NotLinked
    <3> QED BY <3>1, <2>2, <2>5, <2>6, <1>2, <1>3, CoreFrame
  <2>8. n.dspflg /\ Same(j, n) BY <2>1, <2>5, <1>2, <1>3 DEF Same
  <2>9. OneMoved(j, n, t) BY <2>5, <1>2 DEF OneMoved
  <2> QED BY <2>5, <2>7, <2>8, <2>9, <1>2, <1>3 DEF Ready, n
<1>7. CASE j.schedtsk # t
  <2>1. n = k1 BY <1>5, <1>7
  <2>2. ASSUME j.dspflg PROVE Top(k1, R \ {t}, k1.schedtsk)
    <3>1. /\ j.schedtsk \in R /\ \A u \in R : j.priority[j.schedtsk] <= j.priority[u]
          /\ j.schedtsk = Head(j.readyq[j.priority[j.schedtsk]])
      BY <2>2 DEF Ready, Top
    <3>2. j.readyq[j.priority[j.schedtsk]] # << >> /\ j.priority[j.schedtsk] \in Pri
      BY <3>1, <1>1, RunnableLinked
    <3>3. j.schedtsk = Head(k1.readyq[k1.priority[j.schedtsk]])
      BY <3>1, <3>2, <1>2, <1>3, <1>7 DEF HeadsKept
    <3> QED BY <3>1, <3>3, <1>2, <1>3, <1>7 DEF Top
  <2>3. ASSUME ~j.dspflg PROVE k1.schedtsk = k1.runtsk /\ k1.runtsk \in R \ {t}
    BY <2>3, <1>2, <1>3 DEF Ready, Same
  <2> QED BY <2>1, <2>2, <2>3, <1>2, <1>3 DEF Ready, Same, n
<1> QED BY <1>6, <1>7


(* change_priority moves t to an end of its new priority's queue.          *)
LEMMA ChangePriority ==
    ASSUME NEW j, NEW R, Ready(j, R), NEW t \in Task, NEW newpri \in Pri,
           TSTAT_RUNNABLE(j.tstat[t]) <=> t \in R,
           ~TSTAT_WAIT_WOBJCB(j.tstat[t]), NEW mtxmode \in BOOLEAN
    PROVE  LET n == change_priority(j, t, newpri, mtxmode) IN
           /\ Ready(n, R) /\ Same(j, n) /\ n.priority = [j.priority EXCEPT ![t] = newpri]
           /\ ~mtxmode => OneMoved(j, n, t)
<1> DEFINE oldpri == j.priority[t]
           n  == change_priority(j, t, newpri, mtxmode)
           k1 == [j EXCEPT !.priority[t] = newpri]
<1>1. /\ Core(j, R) /\ j \in KernelState /\ oldpri \in Pri /\ R \subseteq Task
      /\ j.priority \in [Task -> Pri]
  BY DEF Ready, Core, KernelState
<1>2. /\ k1.readyq = j.readyq /\ k1.primap = j.primap /\ k1.schedtsk = j.schedtsk
      /\ k1.priority = [j.priority EXCEPT ![t] = newpri] /\ Same(j, k1)
  BY <1>1 DEF KernelState, Same
<1>3. k1 \in KernelState BY <1>1 DEF KernelState
<1> HIDE DEF k1
<1>4. CASE t \notin R
  <2>1. n = k1 BY <1>4 DEF change_priority, k1
  <2>2. \A u \in R : k1.priority[u] = j.priority[u] BY <1>1, <1>2, <1>4
  <2>3. k1.dspflg = j.dspflg /\ k1.runtsk = j.runtsk BY <1>2 DEF Same
  <2>4. Ready(k1, R) BY <2>2, <2>3, <1>2, <1>3, ReadyFrame
  <2>5. OneMoved(j, k1, t) BY <1>2, NoneMoved
  <2> QED BY <2>1, <2>4, <2>5, <1>2
<1>5. CASE t \in R
  <2> DEFINE u1 == ready_unlink(k1, t, oldpri)
             q  == Inserted(u1.readyq[newpri], t, mtxmode)
             k2 == [u1 EXCEPT !.readyq[newpri] = q, !.primap = @ \cup {newpri}]
             beats == \/ newpri < k1.priority[j.schedtsk]
                      \/ mtxmode /\ newpri = k1.priority[j.schedtsk]
             s  == IF ~j.dspflg THEN j.schedtsk
                   ELSE IF j.schedtsk = t
                   THEN (IF newpri >= oldpri THEN search_schedtsk(k2) ELSE j.schedtsk)
                   ELSE IF beats THEN t ELSE j.schedtsk
  <2>1. /\ Core(u1, R \ {t})
        /\ SameSched(k1, u1)
        /\ HeadsKept(j, u1, t)
        /\ OneMoved(j, u1, t)
    <3>1. \A u \in R \ {t} : k1.priority[u] = j.priority[u] BY <1>1, <1>2
    <3>2. Core(u1, R \ {t}) BY <3>1, <1>1, <1>2, <1>3, <1>5, Unlink
    <3>3. SameSched(k1, u1) BY <3>1, <1>1, <1>2, <1>3, <1>5, Unlink
    <3>4. HeadsKept(j, u1, t)
      BY <3>1, <1>1, <1>2, <1>3, <1>5, Unlink
    <3>5. OneMoved(j, u1, t)
      BY <3>1, <1>1, <1>2, <1>3, <1>5, Unlink
    <3> QED BY <3>2, <3>3, <3>4, <3>5
  <2> HIDE DEF u1
  <2>2. u1 \in KernelState /\ u1.priority[t] = newpri BY <2>1, <1>1, <1>2 DEF Core, SameSched
  <2>3. /\ k2.readyq = [u1.readyq EXCEPT ![newpri] = q] /\ k2.primap = u1.primap \cup {newpri}
        /\ k2.priority = u1.priority /\ k2.schedtsk = u1.schedtsk /\ Same(u1, k2)
    BY <2>2 DEF KernelState, Same
  <2>4. k2 \in KernelState
    <3>1. q \in Seq(Task) BY <2>2 DEF KernelState, queue_insert_prev, queue_insert_next, Inserted
    <3> HIDE DEF q
    <3> QED BY <2>2, <3>1 DEF KernelState
  <2> HIDE DEF k2
  <2>5. /\ Core(k2, R)
        /\ Joined(u1, k2, t, newpri, mtxmode)
        /\ ~mtxmode => OneMoved(u1, k2, t)
    <3>1. (R \ {t}) \cup {t} = R BY <1>5
    <3>2. t \notin R \ {t} OBVIOUS
    <3>6. /\ k2.readyq = [u1.readyq EXCEPT ![u1.priority[t]] = Inserted(@, t, mtxmode)]
          /\ k2.primap = u1.primap \cup {u1.priority[t]} /\ k2.priority = u1.priority
      BY <2>2, <2>3
    <3>7. /\ Core(k2, (R \ {t}) \cup {t})
          /\ Joined(u1, k2, t, u1.priority[t], mtxmode)
          /\ ~mtxmode => OneMoved(u1, k2, t)
      BY <3>2, <3>6, <2>1, <2>4, Link
    <3>3. Core(k2, (R \ {t}) \cup {t}) BY <3>7
    <3>4. Joined(u1, k2, t, newpri, mtxmode) BY <3>7, <2>2
    <3>5. ~mtxmode => OneMoved(u1, k2, t) BY <3>7
    <3> QED BY <3>1, <3>3, <3>4, <3>5
  <2>6. /\ k2.schedtsk = j.schedtsk /\ Same(j, k2)
        /\ k2.priority = [j.priority EXCEPT ![t] = newpri]
    BY <2>1, <2>3, <1>2 DEF SameSched, Same
  <2>7. n = [k2 EXCEPT !.schedtsk = s]
    <3>1. TSTAT_RUNNABLE(j.tstat[t]) BY <1>5
    <3>2. n = [k2 EXCEPT !.schedtsk =
                 IF ~j.dspflg THEN k2.schedtsk
                 ELSE IF k2.schedtsk = t
                 THEN (IF newpri >= oldpri THEN search_schedtsk(k2) ELSE k2.schedtsk)
                 ELSE IF beats THEN t ELSE k2.schedtsk]
      BY <3>1 DEF change_priority, k2, u1, k1, Inserted
    <3> QED BY <3>2, <2>6
  <2>8. ASSUME j.dspflg PROVE Top(k2, R, s)
    <3>1. /\ j.schedtsk \in R /\ \A u \in R : j.priority[j.schedtsk] <= j.priority[u]
          /\ j.schedtsk = Head(j.readyq[j.priority[j.schedtsk]])
      BY <1>5, <2>8 DEF Ready, Top
    <3>2. /\ j.readyq[j.priority[j.schedtsk]] # << >>
          /\ j.priority[j.schedtsk] \in Pri /\ j.schedtsk \in Task
      BY <3>1, <1>1, RunnableLinked
    <3>3. /\ newpri \in Int /\ oldpri \in Int /\ j.priority[j.schedtsk] \in Int
          /\ \A u \in R : j.priority[u] \in Int
      BY <1>1, <3>2, PriNat
    <3>4. k2.priority[t] = newpri /\ \A u \in R \ {t} : k2.priority[u] = j.priority[u]
      BY <1>1, <2>6
    \* newpri is better than the priority of every other runnable task, or as
    \* good and t goes to the head
    <3>10. ASSUME mtxmode, \A u \in R \ {t} : newpri <= j.priority[u] PROVE Top(k2, R, t)
      <4>1. Head(k2.readyq[k2.priority[t]]) = t BY <2>5, <3>4, <3>10 DEF Joined
      <4>2. \A u \in R : k2.priority[t] <= k2.priority[u] BY <3>3, <3>4, <3>10
      <4> QED BY <4>1, <4>2, <1>5 DEF Top
    <3>5. ASSUME \A u \in R \ {t} : newpri < j.priority[u] PROVE Top(k2, R, t)
      <4>1. CASE u1.readyq[newpri] # << >>
        <5>1. /\ Head(u1.readyq[newpri]) \in R \ {t}
              /\ u1.priority[Head(u1.readyq[newpri])] = newpri
          BY <4>1, <2>1, HeadRunnable
        <5>2. \A u \in R \ {t} : u1.priority[u] = j.priority[u] BY <3>4, <2>3
        <5>3. newpri < newpri BY <5>1, <5>2, <3>5
        <5> QED BY <5>3, <3>3
      <4>2. CASE u1.readyq[newpri] = << >>
        <5>1. Head(k2.readyq[k2.priority[t]]) = t BY <4>2, <2>5, <3>4 DEF Joined
        <5>2. \A u \in R : k2.priority[t] <= k2.priority[u] BY <3>3, <3>4, <3>5
        <5> QED BY <5>1, <5>2, <1>5 DEF Top
      <4> QED BY <4>1, <4>2
    <3>6. CASE j.schedtsk = t
      <4>1. CASE newpri >= oldpri
        <5>1. s = search_schedtsk(k2) BY <2>8, <3>6, <4>1
        <5> QED BY <5>1, <1>5, <2>5, Search
      <4>2. CASE ~(newpri >= oldpri)
        <5>1. s = t BY <2>8, <3>6, <4>2
        <5>2. \A u \in R \ {t} : newpri < j.priority[u] BY <3>1, <3>3, <3>6, <4>2
        <5> QED BY <5>1, <5>2, <3>5
      <4> QED BY <4>1, <4>2
    <3>7. CASE j.schedtsk # t
      <4>1. k1.priority[j.schedtsk] = j.priority[j.schedtsk] BY <3>7, <3>2, <1>1, <1>2
      <4>2. CASE newpri < j.priority[j.schedtsk]
        <5>1. s = t BY <4>1, <4>2, <3>7, <2>8
        <5>2. \A u \in R \ {t} : newpri < j.priority[u] BY <3>1, <3>3, <4>2
        <5> QED BY <5>1, <5>2, <3>5
      <4>4. CASE mtxmode /\ newpri = j.priority[j.schedtsk]
        <5>1. s = t BY <4>1, <4>4, <3>7, <2>8
        <5>2. \A u \in R \ {t} : newpri <= j.priority[u] BY <3>1, <4>4
        <5> QED BY <5>1, <5>2, <4>4, <3>10
      <4>3. CASE ~(newpri < j.priority[j.schedtsk]) /\ ~(mtxmode /\ newpri = j.priority[j.schedtsk])
        <5>1. s = j.schedtsk BY <4>1, <4>3, <3>7, <2>8
        <5>2. \A u \in R : k2.priority[j.schedtsk] <= k2.priority[u]
          BY <3>1, <3>3, <3>4, <3>7, <4>3
        <5>3. /\ u1.readyq[j.priority[j.schedtsk]] # << >>
              /\ Head(u1.readyq[j.priority[j.schedtsk]]) = j.schedtsk
          BY <3>1, <3>2, <3>7, <2>1 DEF HeadsKept
        <5>5. mtxmode => j.priority[j.schedtsk] # newpri BY <4>3
        <5>4. Head(k2.readyq[j.priority[j.schedtsk]]) = j.schedtsk
          BY <5>3, <5>5, <2>5, <3>2 DEF Joined
        <5> QED BY <5>1, <5>2, <5>4, <3>1, <3>4, <3>7 DEF Top
      <4> QED BY <4>2, <4>3, <4>4
    <3> QED BY <3>6, <3>7
  <2>9. s \in Task \cup {NULL}
    <3>1. CASE j.dspflg BY <3>1, <2>8, <1>1 DEF Top
    <3>2. CASE ~j.dspflg BY <3>2, <1>1 DEF KernelState
    <3> QED BY <3>1, <3>2
  <2>10. ~j.dspflg => s = j.schedtsk OBVIOUS
  <2> HIDE DEF s, n
  <2>11. /\ n.readyq = k2.readyq /\ n.primap = k2.primap /\ n.priority = k2.priority
         /\ n.schedtsk = s /\ Same(k2, n)
    BY <2>4, <2>7 DEF KernelState, Same
  <2>12. n \in KernelState BY <2>4, <2>7, <2>9 DEF KernelState
  <2>13. Core(n, R) /\ \A x : Top(n, R, x) <=> Top(k2, R, x)
    <3>1. \A p \in Pri, u \in Task \ R : ~Linked(n.readyq[p], u)
      BY <2>5, <2>11, NotLinked
    <3> QED BY <3>1, <2>5, <2>11, <2>12, CoreFrame
  <2>14. Same(j, n) BY <2>6, <2>11 DEF Same
  <2>15. n.dspflg = j.dspflg /\ n.runtsk = j.runtsk BY <2>14 DEF Same
  <2>16. ~mtxmode => OneMoved(j, n, t)
    <3>1. ~mtxmode => OneMoved(j, k2, t) BY <2>1, <2>5, OneMovedAgain
    <3> QED BY <3>1, <2>11 DEF OneMoved
  <2>17. n.priority = [j.priority EXCEPT ![t] = newpri] BY <2>6, <2>11
  <2> QED BY <2>8, <2>10, <2>11, <2>13, <2>14, <2>15, <2>16, <2>17 DEF Ready, n
<1> QED BY <1>4, <1>5


(* Rotating a ready queue keeps the same tasks linked.                     *)
LEMMA RotateReadyQueue ==
    ASSUME NEW j, NEW R, Ready(j, R), NEW pri \in Pri
    PROVE  LET n == rotate_ready_queue(j, pri) IN
           Ready(n, R) /\ Same(j, n) /\ Kept(j, n)
<1> DEFINE q  == j.readyq[pri]
           q1 == queue_insert_prev(Tail(q), Head(q))
           s  == IF j.dspflg /\ j.schedtsk = Head(q) THEN Head(q1) ELSE j.schedtsk
           n  == rotate_ready_queue(j, pri)
<1>1. Core(j, R) /\ j \in KernelState /\ R \subseteq Task /\ q \in Seq(Task) /\ NoTwice(q)
  BY DEF Ready, Core, KernelState
<1>2. CASE Len(q) < 2
  <2>1. n = j BY <1>2 DEF rotate_ready_queue
  <2> QED BY <2>1 DEF Same, Kept
<1>3. CASE ~(Len(q) < 2)
  <2>1. q # << >> BY <1>3
  <2>2. /\ q1 \in Seq(Task) /\ q1 # << >> /\ NoTwice(q1)
        /\ \A u : Linked(q1, u) <=> Linked(q, u)
        /\ Moved(q, q1, Head(q))
    BY <2>1, <1>1, Rotate
  <2>3. n = [j EXCEPT !.readyq[pri] = q1, !.schedtsk = s]
    BY <1>3 DEF rotate_ready_queue
  <2>4. s \in Task \cup {NULL}
    <3>1. Head(q1) \in Task BY <2>2
    <3> QED BY <3>1, <1>1 DEF KernelState
  <2> HIDE DEF q1, s, n
  <2>5. /\ n.readyq = [j.readyq EXCEPT ![pri] = q1] /\ n.primap = j.primap
        /\ n.priority = j.priority /\ n.schedtsk = s /\ Same(j, n)
    BY <2>3, <1>1 DEF KernelState, Same
  <2>6. n \in KernelState BY <2>2, <2>3, <2>4, <1>1 DEF KernelState
  <2>7. /\ n.readyq[pri] = q1 /\ \A p \in Pri : p # pri => n.readyq[p] = j.readyq[p]
    BY <2>5, <1>1 DEF KernelState
  <2>8. Core(n, R)
    <3>1. ASSUME NEW p \in Pri PROVE NoTwice(n.readyq[p])
      BY <2>2, <2>7, <1>1 DEF Core
    <3>2. ASSUME NEW p \in Pri, NEW u \in Task
          PROVE  Linked(n.readyq[p], u) <=> u \in R /\ n.priority[u] = p
      <4>1. Linked(n.readyq[p], u) <=> Linked(j.readyq[p], u)
        <5>1. CASE p = pri BY <5>1, <2>2, <2>7
        <5>2. CASE p # pri BY <5>2, <2>7
        <5> QED BY <5>1, <5>2
      <4> QED BY <4>1, <2>5, <1>1 DEF Core
    <3>3. ASSUME NEW p \in Pri PROVE n.readyq[p] # << >> <=> j.readyq[p] # << >>
      <4>1. CASE p = pri BY <4>1, <2>1, <2>2, <2>7
      <4>2. CASE p # pri BY <4>2, <2>7
      <4> QED BY <4>1, <4>2
    <3>4. n.primap = {p \in Pri : n.readyq[p] # << >>} BY <3>3, <2>5, <1>1 DEF Core
    <3> QED BY <3>1, <3>2, <3>4, <2>6, <1>1 DEF Core
  <2>9. ASSUME j.dspflg PROVE Top(n, R, n.schedtsk)
    <3>1. Top(j, R, j.schedtsk) BY <2>9 DEF Ready
    <3>2. /\ Head(q) \in R /\ j.priority[Head(q)] = pri BY <2>1, <1>1, HeadRunnable
    <3>3. /\ j.schedtsk \in R /\ \A u \in R : j.priority[j.schedtsk] <= j.priority[u]
          /\ j.schedtsk = Head(j.readyq[j.priority[j.schedtsk]])
      BY <3>1, <3>2 DEF Top
    <3>4. CASE j.schedtsk = Head(q)
      <4>1. n.schedtsk = Head(n.readyq[pri]) BY <2>5, <2>7, <2>9, <3>4 DEF s
      <4>2. n.schedtsk \in R /\ n.priority[n.schedtsk] = pri
        BY <4>1, <2>2, <2>7, <2>8, HeadRunnable
      <4>3. \A u \in R : pri <= n.priority[u] BY <2>5, <3>2, <3>3, <3>4
      <4> QED BY <4>1, <4>2, <4>3 DEF Top
    <3>5. CASE j.schedtsk # Head(q)
      <4>1. n.schedtsk = j.schedtsk /\ j.priority[j.schedtsk] # pri
        BY <2>5, <3>3, <3>5 DEF s
      <4>2. j.priority[j.schedtsk] \in Pri BY <3>3, <1>1, RunnableLinked
      <4>3. n.readyq[j.priority[j.schedtsk]] = j.readyq[j.priority[j.schedtsk]]
        BY <4>1, <4>2, <2>7
      <4> QED BY <4>1, <4>3, <3>3, <2>5 DEF Top
    <3> QED BY <3>4, <3>5
  <2>10. ~j.dspflg => n.schedtsk = j.schedtsk BY <2>5 DEF s
  <2>11. Kept(j, n)
    <3>1. Head(q) \in Task BY <2>1, <1>1
    <3>2. OneMoved(j, n, Head(q)) BY <2>2, <2>7, NotMoved DEF OneMoved
    <3> QED BY <3>1, <3>2 DEF Kept
  <2> QED BY <2>5, <2>8, <2>9, <2>10, <2>11 DEF Ready, Same, n
<1> QED BY <1>2, <1>3

(* make_active starts a dormant task.                                      *)
LEMMA MakeActive ==
    ASSUME NEW j, NEW R, Ready(j, R), NEW t \in Task, t \notin R
    PROVE  LET n == make_active(j, t) IN
           /\ Ready(n, R \cup {t})
           /\ n.tstat = [j.tstat EXCEPT ![t] = {TS_RUNNABLE}]
           /\ SameRest(j, n)
           /\ n.tmevtb = j.tmevtb /\ n.winfo = [j.winfo EXCEPT ![t] = NULL]
           /\ n.broken = j.broken /\ n.wque = j.wque
           /\ n.wobj = [j.wobj EXCEPT ![t] = NULL]
           /\ OneMoved(j, n, t)
<1> DEFINE k1 == [activate_context(j, t) EXCEPT !.tstat[t] = {TS_RUNNABLE}]
           n == make_active(j, t)
<1>1. j \in KernelState /\ Core(j, R) BY DEF Ready, Core
<1>2. k1 = [j EXCEPT !.winfo[t] = NULL, !.wobj[t] = NULL, !.tstat[t] = {TS_RUNNABLE}]
  BY DEF activate_context
<1>3. n = make_runnable(k1, t) BY DEF make_active
<1> HIDE DEF k1, n
<1>4. k1 \in KernelState BY <1>1, <1>2 DEF KernelState, TStat, WInfo, WaitErcd, E_OK
<1>5. /\ k1.readyq = j.readyq /\ k1.primap = j.primap /\ k1.schedtsk = j.schedtsk
      /\ k1.dspflg = j.dspflg /\ k1.runtsk = j.runtsk /\ k1.priority = j.priority
      /\ k1.tstat = [j.tstat EXCEPT ![t] = {TS_RUNNABLE}] /\ SameRest(j, k1)
      /\ k1.tmevtb = j.tmevtb /\ k1.winfo = [j.winfo EXCEPT ![t] = NULL]
      /\ k1.broken = j.broken /\ k1.wque = j.wque
      /\ k1.wobj = [j.wobj EXCEPT ![t] = NULL]
  BY <1>1, <1>2 DEF KernelState, SameRest
<1>6. Ready(k1, R) BY <1>4, <1>5, ReadyFrame
<1>7. Ready(n, R \cup {t}) /\ Same(k1, n) /\ OneMoved(k1, n, t) BY <1>3, <1>6, MakeRunnable
<1>8. OneMoved(j, n, t) BY <1>5, <1>7 DEF OneMoved
<1> QED BY <1>5, <1>7, <1>8 DEF Same, SameRest, n


-----------------------------------------------------------------------------
(* The invariant, for a kernel with wait queues. It says nothing of the    *)
(* objects that the queues belong to, nor of which task holds which mutex. *)
TaskStates ==
    {{}, {TS_RUNNABLE}, {TS_SUSPENDED}}
        \cup {{f} : f \in WaitFactor} \cup {{f, TS_SUSPENDED} : f \in WaitFactor}

Runnable(j) == {t \in Task : TS_RUNNABLE \in j.tstat[t]}

Plain(j) == j.tstat \in [Task -> TaskStates]

\* what holds between any two routines
Settled(j) ==
    /\ Ready(j, Runnable(j))
    /\ Plain(j)
    /\ j.dspflg <=> j.enadsp /\ j.ipm = "TIPM_ENAALL"

\* a wait queue links exactly the tasks that wait in it, and those of X are
\* in none
Waits(j, X) ==
    /\ \A w \in Wobj : NoTwice(j.wque[w])
    /\ \A w \in Wobj, t \in Task :
         Linked(j.wque[w], t) <=>
             t \notin X /\ TSTAT_WAIT_WOBJ(j.tstat[t]) /\ j.wobj[t] = w
    /\ \A t \in Task \ X : TSTAT_WAIT_WOBJ(j.tstat[t]) =>
         j.wobj[t] \in Wobj /\ wfactor[j.wobj[t]] \in j.tstat[t]

\* a TMEVTB is in the heap exactly while its task waits with a timeout
TimedOK(j, t) ==
    /\ j.tmevtb[t] # NULL <=> TSTAT_WAITING(j.tstat[t]) /\ j.winfo[t] # NULL
    /\ j.tmevtb[t] # NULL => j.winfo[t] = PTMEVTB
    /\ j.tmevtb[t] = "wait_tmout_ok" <=> TS_WAITING_DLY \in j.tstat[t]

\* ... for all tasks but those of X; and no assert has failed
Timed(j, X) == j.broken = {} /\ \A t \in Task \ X : TimedOK(j, t)

Fine(j, X) == Timed(j, X) /\ Waits(j, X)

\* a task that is asked to terminate runs or is ready to; if it allows it,
\* only because dispatching is disabled. Again for all tasks but those of X
Asked(j, X) ==
    \A t \in Task \ X : j.raster[t] =>
        t \in Runnable(j) /\ (j.enater[t] => t = j.runtsk /\ ~j.dspflg)

\* what holds between any two steps
Inv(j) ==
    /\ Settled(j)
    /\ Fine(j, {})
    /\ Asked(j, {})
    /\ j.runtsk # NULL => j.runtsk \in Runnable(j)
    /\ j.nest = 0 => j.runtsk = j.schedtsk

\* no task holds a mutex
NoneHeld(j) == j.lastmtx = [t \in Task |-> NULL]

\* what a step leads to: another task runs only outside interrupt handlers
\* and with dispatching enabled;
\* where no mutex is handed over, one task at most has lost its place in a
\* ready queue
Follows(j, n) ==
    /\ Inv(n) /\ (n.runtsk # j.runtsk => n.nest = 0 /\ n.dspflg)
    /\ \A w \in Wobj, t \in Task : Linked(n.wque[w], t) => Linked(j.wque[w], t)
    /\ NoneHeld(j) => Kept(j, n) /\ NoneHeld(n)

(* What the macros of task.h say of the task states, and which states      *)
(* sus_tsk and rsm_tsk lead to.                                            *)
LEMMA Factors ==
    /\ TS_RUNNABLE \notin WaitFactor /\ TS_SUSPENDED \notin WaitFactor
    /\ TS_RUNNABLE # TS_SUSPENDED
    /\ WobjFactor \subseteq WaitFactor /\ WobjcbFactor \subseteq WobjFactor
    /\ TS_WAITING_SLP \in WaitFactor \ WobjFactor
    /\ TS_WAITING_DLY \in WaitFactor \ WobjFactor
    /\ TS_WAITING_SLP # TS_WAITING_DLY
BY DEF TS_RUNNABLE, TS_SUSPENDED, TS_WAITING_SLP, TS_WAITING_DLY,
   WaitFactor, WobjFactor, WobjcbFactor, OtherFactor

LEMMA States ==
    ASSUME NEW s \in TaskStates
    PROVE  /\ s \in TStat
           /\ s \ {TS_SUSPENDED} \in TaskStates
           /\ TS_RUNNABLE \notin s /\ ~TSTAT_DORMANT(s) => s \cup {TS_SUSPENDED} \in TaskStates
           /\ TS_RUNNABLE \in s => s = {TS_RUNNABLE}
           /\ \A f, g \in s \cap WaitFactor : f = g
           /\ TSTAT_WAIT_WOBJCB(s) => TSTAT_WAIT_WOBJ(s)
           /\ TSTAT_WAIT_WOBJ(s) => TSTAT_WAITING(s)
           /\ TSTAT_WAITING(s) => TS_RUNNABLE \notin s
<1>1. CASE s \in {{}, {TS_RUNNABLE}, {TS_SUSPENDED}}
  BY <1>1, Factors DEF TaskStates, TStat, TSTAT_WAIT_WOBJ, TSTAT_WAIT_WOBJCB, TSTAT_DORMANT,
     TSTAT_WAITING
<1>2. ASSUME NEW f \in WaitFactor, s = {f} \/ s = {f, TS_SUSPENDED}
      PROVE  /\ s \in TStat
             /\ s \ {TS_SUSPENDED} = {f} /\ s \cup {TS_SUSPENDED} = {f, TS_SUSPENDED}
             /\ TS_RUNNABLE \notin s /\ s \cap WaitFactor = {f}
  BY <1>2, Factors DEF TStat
<1>3. ASSUME NEW f \in WaitFactor, s = {f} \/ s = {f, TS_SUSPENDED}
      PROVE  /\ s \in TStat
             /\ s \ {TS_SUSPENDED} \in TaskStates
             /\ s \cup {TS_SUSPENDED} \in TaskStates
             /\ TS_RUNNABLE \notin s
             /\ \A g, h \in s \cap WaitFactor : g = h
             /\ TSTAT_WAIT_WOBJCB(s) => TSTAT_WAIT_WOBJ(s)
             /\ TSTAT_WAIT_WOBJ(s) => TSTAT_WAITING(s)
  BY <1>2, <1>3, Factors DEF TaskStates, TSTAT_WAIT_WOBJ, TSTAT_WAIT_WOBJCB, TSTAT_WAITING
<1> QED BY <1>1, <1>3 DEF TaskStates

(* What a task waits for, it waits for alone; a suspended task does not    *)
(* run.                                                                    *)
LEMMA OneFactor ==
    ASSUME NEW s \in TaskStates, NEW f \in WaitFactor \ WobjFactor, f \in s
    PROVE  ~TSTAT_WAIT_WOBJ(s)
<1>1. \A g \in s \cap WaitFactor : g = f BY States
<1> QED BY <1>1, Factors DEF TSTAT_WAIT_WOBJ

LEMMA SuspendedState ==
    ASSUME NEW s \in TaskStates, TSTAT_SUSPENDED(s)
    PROVE  TS_RUNNABLE \notin s
<1>1. TS_RUNNABLE \in s => s = {TS_RUNNABLE} BY States
<1> QED BY <1>1, Factors DEF TSTAT_SUSPENDED

(* A dormant, runnable or merely suspended task waits for nothing.         *)
LEMMA NotWaiting ==
    \A s \in {{}, {TS_RUNNABLE}, {TS_SUSPENDED}} :
        ~TSTAT_WAITING(s) /\ TS_WAITING_DLY \notin s /\ ~TSTAT_WAIT_WOBJ(s)
BY Factors DEF TSTAT_WAITING, TSTAT_WAIT_WOBJ

(* A runnable task has no other flag.                                      *)
LEMMA RunnableState ==
    ASSUME NEW j, Settled(j), NEW t \in Runnable(j)
    PROVE  /\ t \in Task /\ j.tstat[t] = {TS_RUNNABLE} /\ ~TSTAT_WAITING(j.tstat[t])
           /\ ~TSTAT_WAIT_WOBJ(j.tstat[t])
<1>1. t \in Task /\ j.tstat[t] \in TaskStates /\ TS_RUNNABLE \in j.tstat[t]
  BY DEF Settled, Plain, Runnable
<1>2. j.tstat[t] = {TS_RUNNABLE} BY <1>1, States
<1> QED BY <1>1, <1>2, NotWaiting

(* What the timeouts and the wait queues depend on.                        *)
LEMMA TimedFrame ==
    ASSUME NEW j, NEW n, NEW X, Timed(j, X), n.broken = j.broken,
           \A u \in Task \ X : /\ n.tstat[u] = j.tstat[u] /\ n.winfo[u] = j.winfo[u]
                              /\ n.tmevtb[u] = j.tmevtb[u]
    PROVE  Timed(n, X)
BY DEF Timed, TimedOK

LEMMA WaitsFrame ==
    ASSUME NEW j, NEW n, NEW X, Waits(j, X), n.wque = j.wque,
           \A u \in Task \ X : n.tstat[u] = j.tstat[u] /\ n.wobj[u] = j.wobj[u]
    PROVE  Waits(n, X)
BY DEF Waits

LEMMA FineFrame ==
    ASSUME NEW j, NEW n, NEW X, Fine(j, X), SameWait(j, n), n.tstat = j.tstat
    PROVE  Fine(n, X)
BY TimedFrame, WaitsFrame DEF Fine, SameWait

(* A task that waits in no queue is in none.                               *)
LEMMA WaitsNone ==
    ASSUME NEW j, NEW t \in Task, ~TSTAT_WAIT_WOBJ(j.tstat[t])
    PROVE  Waits(j, {t}) <=> Waits(j, {})
BY DEF Waits

LEMMA FineNone ==
    ASSUME NEW j, NEW t \in Task, ~TSTAT_WAIT_WOBJ(j.tstat[t]), Fine(j, {})
    PROVE  Fine(j, {t})
BY WaitsNone DEF Fine, Timed

(* A task that does not wait gives up its state for another in which it    *)
(* does not wait, or that it has not joined a queue in yet.                *)
LEMMA WaitsExcept ==
    ASSUME NEW j, NEW n, NEW t \in Task, Waits(j, {t}), n.wque = j.wque,
           \A u \in Task \ {t} : n.tstat[u] = j.tstat[u] /\ n.wobj[u] = j.wobj[u]
    PROVE  /\ Waits(n, {t})
           /\ ~TSTAT_WAIT_WOBJ(n.tstat[t]) => Waits(n, {})
BY WaitsFrame, WaitsNone

(* The rest of the state may change freely.                                *)
LEMMA SettledMode ==
    ASSUME NEW j, Settled(j), NEW n, n \in KernelState,
           n.readyq = j.readyq, n.primap = j.primap, n.schedtsk = j.schedtsk,
           \A u \in Runnable(j) : n.priority[u] = j.priority[u],
           n.tstat = j.tstat, SameMode(j, n)
    PROVE  Settled(n) /\ Runnable(n) = Runnable(j)
<1>1. Runnable(n) = Runnable(j) BY DEF Runnable
<1>2. Ready(n, Runnable(j)) BY ReadyFrame DEF Settled, SameMode
<1> QED BY <1>1, <1>2 DEF Settled, Plain, SameMode

LEMMA SettledFrame ==
    ASSUME NEW j, Settled(j), NEW n, n \in KernelState,
           n.readyq = j.readyq, n.primap = j.primap, n.schedtsk = j.schedtsk,
           n.priority = j.priority, n.tstat = j.tstat, SameSys(j, n)
    PROVE  Settled(n) /\ Runnable(n) = Runnable(j)
<1>1. SameMode(j, n) BY DEF SameSys, SameMode
<1> QED BY <1>1, SettledMode

LEMMA SameRestSys ==
    ASSUME NEW j, NEW n, SameRest(j, n)
    PROVE  SameSys(j, n) /\ SameMode(j, n)
BY DEF SameRest, SameSys, SameMode

(* Requests stay answered as long as the tasks they are for stay runnable. *)
LEMMA AskedFrame ==
    ASSUME NEW j, NEW n, NEW X, Asked(j, X), SameRest(j, n),
           \A t \in Task \ X : j.raster[t] /\ t \in Runnable(j) => t \in Runnable(n)
    PROVE  Asked(n, X)
BY DEF Asked, SameRest

(* A runnable task is given a state in which it is not.                    *)
LEMMA BlockTask ==
    ASSUME NEW j, Settled(j), NEW t \in Runnable(j), j.dspflg \/ t # j.runtsk,
           NEW s \in TaskStates, TS_RUNNABLE \notin s
    PROVE  LET n == make_non_runnable([j EXCEPT !.tstat[t] = s], t) IN
           /\ Settled(n) /\ SameRest(j, n) /\ SameWait(j, n)
           /\ n.tstat = [j.tstat EXCEPT ![t] = s] /\ OneMoved(j, n, t)
<1> DEFINE j1 == [j EXCEPT !.tstat[t] = s]
           n  == make_non_runnable(j1, t)
<1>1. /\ Ready(j, Runnable(j)) /\ j \in KernelState /\ t \in Task /\ Plain(j)
      /\ j.dspflg <=> j.enadsp /\ j.ipm = "TIPM_ENAALL"
  BY DEF Settled, Ready, Core, Runnable
<1>2. s \in TStat BY States
<1>3. j1 \in KernelState BY <1>1, <1>2 DEF KernelState
<1>4. /\ j1.readyq = j.readyq /\ j1.primap = j.primap /\ j1.schedtsk = j.schedtsk
      /\ j1.priority = j.priority /\ j1.dspflg = j.dspflg /\ j1.runtsk = j.runtsk
      /\ j1.tstat = [j.tstat EXCEPT ![t] = s] /\ SameRest(j, j1) /\ SameWait(j, j1)
  BY <1>1 DEF KernelState, SameRest, SameWait
<1> HIDE DEF j1, n
<1>5. Ready(j1, Runnable(j)) BY <1>1, <1>3, <1>4, ReadyFrame
<1>6. Ready(n, Runnable(j) \ {t}) /\ Same(j1, n) /\ OneMoved(j1, n, t)
  BY <1>4, <1>5, MakeNonRunnable DEF n
<1>7. n.tstat = [j.tstat EXCEPT ![t] = s] /\ SameRest(j, n) /\ SameWait(j, n)
  BY <1>4, <1>6 DEF Same, SameRest, SameWait
<1>8. Runnable(n) = Runnable(j) \ {t} BY <1>1, <1>7 DEF Runnable, KernelState
<1>9. Plain(n) BY <1>1, <1>7 DEF Plain, SameRest
<1>10. OneMoved(j, n, t) BY <1>4, <1>6 DEF OneMoved
<1> QED BY <1>1, <1>6, <1>7, <1>8, <1>9, <1>10 DEF Settled, SameRest, n, j1

(* A task that is not runnable becomes so.                                 *)
LEMMA Unblock ==
    ASSUME NEW j, Settled(j), NEW t \in Task, t \notin Runnable(j)
    PROVE  LET n == make_runnable([j EXCEPT !.tstat[t] = {TS_RUNNABLE}], t) IN
           /\ Settled(n) /\ SameRest(j, n) /\ Runnable(n) = Runnable(j) \cup {t}
           /\ n.tstat = [j.tstat EXCEPT ![t] = {TS_RUNNABLE}] /\ SameWait(j, n)
           /\ OneMoved(j, n, t)
<1> DEFINE j1 == [j EXCEPT !.tstat[t] = {TS_RUNNABLE}]
           n  == make_runnable(j1, t)
<1>1. /\ Ready(j, Runnable(j)) /\ j \in KernelState /\ Plain(j)
      /\ j.dspflg <=> j.enadsp /\ j.ipm = "TIPM_ENAALL"
  BY DEF Settled, Ready, Core
<1>2. {TS_RUNNABLE} \in TStat BY DEF TStat
<1>3. j1 \in KernelState BY <1>1, <1>2 DEF KernelState
<1>4. /\ j1.readyq = j.readyq /\ j1.primap = j.primap /\ j1.schedtsk = j.schedtsk
      /\ j1.priority = j.priority /\ j1.dspflg = j.dspflg /\ j1.runtsk = j.runtsk
      /\ j1.tstat = [j.tstat EXCEPT ![t] = {TS_RUNNABLE}] /\ SameRest(j, j1)
      /\ SameWait(j, j1)
  BY <1>1 DEF KernelState, SameRest, SameWait
<1> HIDE DEF j1, n
<1>5. Ready(j1, Runnable(j)) BY <1>1, <1>3, <1>4, ReadyFrame
<1>6. Ready(n, Runnable(j) \cup {t}) /\ Same(j1, n) /\ OneMoved(j1, n, t)
  BY <1>5, MakeRunnable DEF n
<1>7. n.tstat = [j.tstat EXCEPT ![t] = {TS_RUNNABLE}] /\ SameRest(j, n) /\ SameWait(j, n)
  BY <1>4, <1>6 DEF Same, SameRest, SameWait
<1>8. Runnable(n) = Runnable(j) \cup {t} BY <1>1, <1>7 DEF Runnable, KernelState
<1>9. Plain(n) BY <1>1, <1>7 DEF Plain, SameRest, TaskStates
<1>10. OneMoved(j, n, t) BY <1>4, <1>6 DEF OneMoved
<1> QED BY <1>1, <1>6, <1>7, <1>8, <1>9, <1>10 DEF Settled, SameRest, n, j1

(* The dispatcher gives the processor to the task that should have it.     *)
LEMMA Dispatcher ==
    ASSUME NEW j, Settled(j), Fine(j, {}), Asked(j, {}), j.dspflg
    PROVE  /\ Inv(dispatcher(j)) /\ dispatcher(j).dspflg /\ dispatcher(j).nest = j.nest
           /\ dispatcher(j).readyq = j.readyq /\ dispatcher(j).wque = j.wque
           /\ dispatcher(j).lastmtx = j.lastmtx
<1> DEFINE b  == Check(j, j.dspflg /\ j.enadsp /\ j.ipm = "TIPM_ENAALL", "dispatcher")
           wi == [x \in Task |-> IF x = j.schedtsk THEN NULL ELSE b.winfo[x]]
           wo == [x \in Task |-> IF x = j.schedtsk THEN NULL ELSE b.wobj[x]]
           n  == dispatcher(j)
<1>1. j \in KernelState /\ b = j BY DEF Settled, Ready, Core, Check
<1>2. n = [j EXCEPT !.runtsk = j.schedtsk, !.winfo = wi, !.wobj = wo]
  BY <1>1 DEF dispatcher
<1>3. wi \in [Task -> WInfo] /\ wo \in [Task -> Wobj \cup {NULL}]
  BY <1>1 DEF KernelState, WInfo, WaitErcd, E_OK
<1> HIDE DEF wi, wo, n, b
<1>4. n \in KernelState BY <1>1, <1>2, <1>3 DEF KernelState
<1>5. /\ n.readyq = j.readyq /\ n.primap = j.primap /\ n.schedtsk = j.schedtsk
      /\ n.priority = j.priority /\ n.tstat = j.tstat /\ n.lastmtx = j.lastmtx
      /\ n.wque = j.wque /\ n.runtsk = j.schedtsk /\ n.enadsp = j.enadsp
      /\ n.dspflg = j.dspflg /\ n.ipm = j.ipm /\ n.nest = j.nest /\ n.wobj = wo
      /\ n.winfo = wi /\ n.tmevtb = j.tmevtb /\ n.broken = j.broken
      /\ n.raster = j.raster /\ n.enater = j.enater
  BY <1>1, <1>2 DEF KernelState
<1>6. Runnable(n) = Runnable(j) BY <1>5 DEF Runnable
<1>7. Core(n, Runnable(j)) /\ \A x : Top(n, Runnable(j), x) <=> Top(j, Runnable(j), x)
  <2>1. Core(j, Runnable(j)) BY DEF Settled, Ready
  <2>2. \A p \in Pri, u \in Task \ Runnable(j) : ~Linked(n.readyq[p], u)
    BY <2>1, <1>5, NotLinked
  <2> QED BY <2>1, <2>2, <1>4, <1>5, CoreFrame
<1>8. Top(n, Runnable(n), n.schedtsk) /\ Core(n, Runnable(n))
  BY <1>5, <1>6, <1>7 DEF Settled, Ready
<1>9. Settled(n) BY <1>5, <1>8 DEF Settled, Ready, Plain
<1>10. n.runtsk # NULL => n.runtsk \in Runnable(n) BY <1>5, <1>8 DEF Top
<1>11. ASSUME NEW t \in Task PROVE TimedOK(n, t)
  <2>1. TimedOK(j, t) BY DEF Fine, Timed
  <2>2. CASE t = j.schedtsk
    <3>1. t \in Runnable(j) BY <2>2, <1>5, <1>8, <1>6, NullNotTask DEF Top
    <3>2. ~TSTAT_WAITING(j.tstat[t]) BY <3>1, RunnableState
    <3> QED BY <3>2, <2>1, <1>5 DEF TimedOK
  <2>3. CASE t # j.schedtsk
    <3>1. wi[t] = j.winfo[t] BY <2>3, <1>1 DEF wi
    <3> QED BY <3>1, <2>1, <1>5 DEF TimedOK
  <2> QED BY <2>2, <2>3
<1>12. Fine(n, {})
  <2>1. CASE j.schedtsk \in Task
    <3> DEFINE t == j.schedtsk
    <3>1. t \in Runnable(j) BY <2>1, <1>5, <1>8, <1>6, NullNotTask DEF Top
    <3>2. ~TSTAT_WAIT_WOBJ(j.tstat[t]) BY <3>1, RunnableState
    <3>3. Waits(j, {t}) BY <2>1, <3>2, WaitsNone DEF Fine
    <3>4. \A u \in Task \ {t} : n.wobj[u] = j.wobj[u] BY <1>1, <1>5 DEF wo
    <3> HIDE DEF t
    <3>5. Waits(n, {}) BY <2>1, <3>2, <3>3, <3>4, <1>5, WaitsExcept DEF t
    <3> QED BY <3>5, <1>5, <1>11 DEF Fine, Timed
  <2>2. CASE j.schedtsk \notin Task
    <3>1. \A u \in Task : n.wobj[u] = j.wobj[u] BY <2>2, <1>1, <1>5 DEF wo
    <3>2. Waits(n, {}) BY <3>1, <1>5, WaitsFrame DEF Fine
    <3> QED BY <3>2, <1>5, <1>11 DEF Fine, Timed
  <2> QED BY <2>1, <2>2
<1>13. Asked(n, {}) BY <1>5, <1>6 DEF Asked
<1> QED BY <1>5, <1>9, <1>10, <1>12, <1>13 DEF Inv, n

(* Leaving the kernel: the dispatcher is entered when it must be.          *)
LEMMA Dispatch ==
    ASSUME NEW j, Settled(j), Fine(j, {}), Asked(j, {}),
           j.nest # 0 /\ j.runtsk # NULL => j.runtsk \in Runnable(j)
    PROVE  /\ Follows(j, dispatch(j))
           /\ dispatch(j).readyq = j.readyq /\ dispatch(j).wque = j.wque
           /\ dispatch(j).lastmtx = j.lastmtx
           /\ dispatch(j).nest = j.nest /\ dispatch(j).dspflg = j.dspflg
<1>1. CASE j.nest = 0 /\ j.runtsk # j.schedtsk
  <2>1. j.dspflg BY <1>1 DEF Settled, Ready
  <2> QED BY <2>1, <1>1, Dispatcher DEF dispatch, Follows, Kept, NoneHeld
<1>2. CASE ~(j.nest = 0 /\ j.runtsk # j.schedtsk)
  <2>1. dispatch(j) = j BY <1>2 DEF dispatch
  <2>2. j.nest = 0 => j.runtsk = j.schedtsk BY <1>2
  <2>3. j.nest = 0 /\ j.runtsk # NULL => j.runtsk \in Runnable(j)
    BY <2>2 DEF Settled, Ready, Top
  <2> QED BY <2>1, <2>2, <2>3 DEF Inv, Follows, Kept, NoneHeld
<1> QED BY <1>1, <1>2

(* Taking a task out of the queue it waits in; one that is in none stays   *)
(* as it is.                                                               *)
LEMMA DequeueWobj ==
    ASSUME NEW j, j \in KernelState, NEW t \in Task, Waits(j, {})
    PROVE  LET n == wait_dequeue_wobj(j, t) IN
           /\ n \in KernelState
           /\ n.readyq = j.readyq /\ n.primap = j.primap /\ n.schedtsk = j.schedtsk
           /\ n.priority = j.priority /\ n.tstat = j.tstat /\ SameRest(j, n)
           /\ n.winfo = j.winfo /\ n.tmevtb = j.tmevtb /\ n.broken = j.broken
           /\ n.wobj = j.wobj /\ Waits(n, {t})
<1> DEFINE n == wait_dequeue_wobj(j, t)
           w == j.wobj[t]
           q == queue_delete(j.wque[w], t)
<1>1. CASE TSTAT_WAIT_WOBJ(j.tstat[t])
  <2>1. w \in Wobj /\ Linked(j.wque[w], t) /\ NoTwice(j.wque[w]) BY <1>1 DEF Waits
  <2>2. /\ q \in Seq(Task) /\ NoTwice(q)
        /\ \A u : Linked(q, u) <=> Linked(j.wque[w], u) /\ u # t
    <3>1. j.wque[w] \in Seq(Task) BY <2>1 DEF KernelState
    <3> QED BY <2>1, <3>1, Delete
  <2>3. n = [j EXCEPT !.wque[w] = q] BY <1>1 DEF wait_dequeue_wobj
  <2> HIDE DEF n, q, w
  <2>4. n \in KernelState BY <2>1, <2>2, <2>3 DEF KernelState
  <2>5. /\ n.readyq = j.readyq /\ n.primap = j.primap /\ n.schedtsk = j.schedtsk
        /\ n.priority = j.priority /\ n.tstat = j.tstat
        /\ n.lastmtx = j.lastmtx /\ n.runtsk = j.runtsk
        /\ n.enadsp = j.enadsp /\ n.dspflg = j.dspflg /\ n.ipm = j.ipm /\ n.nest = j.nest
        /\ n.raster = j.raster /\ n.enater = j.enater
        /\ n.winfo = j.winfo /\ n.tmevtb = j.tmevtb /\ n.broken = j.broken
        /\ n.wobj = j.wobj
    BY <2>3 DEF KernelState
  <2>6. n.wque[w] = q /\ \A v \in Wobj : v # w => n.wque[v] = j.wque[v]
    BY <2>1, <2>3 DEF KernelState
  <2>7. ASSUME NEW v \in Wobj, NEW u \in Task
        PROVE  Linked(n.wque[v], u) <=> Linked(j.wque[v], u) /\ u # t
    <3>1. CASE v = w BY <3>1, <2>2, <2>6
    <3>2. CASE v # w
      <4>1. ~Linked(j.wque[v], t) BY <3>2 DEF Waits, w
      <4> QED BY <4>1, <3>2, <2>6
    <3> QED BY <3>1, <3>2
  <2>8. \A v \in Wobj : NoTwice(n.wque[v]) BY <2>2, <2>6 DEF Waits
  <2>9. Waits(n, {t}) BY <2>5, <2>7, <2>8 DEF Waits
  <2>10. SameRest(j, n) BY <2>5, <2>7 DEF SameRest
  <2> QED BY <2>4, <2>5, <2>9, <2>10 DEF n
<1>2. CASE ~TSTAT_WAIT_WOBJ(j.tstat[t])
  <2>1. n = j BY <1>2 DEF wait_dequeue_wobj
  <2>2. Waits(j, {t}) BY <1>2, WaitsNone
  <2> QED BY <2>1, <2>2 DEF SameRest
<1> QED BY <1>1, <1>2

(* Taking the TMEVTB of a waiting task out of the heap.                    *)
LEMMA DequeueTmevtb ==
    ASSUME NEW j, j \in KernelState, NEW t \in Task,
           Timed(j, {}), Waits(j, {t}), TSTAT_WAITING(j.tstat[t])
    PROVE  LET n == wait_dequeue_tmevtb(j, t) IN
           /\ n \in KernelState
           /\ n.readyq = j.readyq /\ n.primap = j.primap /\ n.schedtsk = j.schedtsk
           /\ n.priority = j.priority /\ n.tstat = j.tstat /\ SameRest(j, n)
           /\ Fine(n, {t}) /\ n.tmevtb[t] = NULL
           /\ n.wque = j.wque /\ n.wobj = j.wobj
<1> DEFINE j1 == [j EXCEPT !.tmevtb[t] = NULL]
           n  == wait_dequeue_tmevtb(j, t)
<1>1. TimedOK(j, t) BY DEF Timed
<1>2. n = IF j.winfo[t] # NULL THEN j1 ELSE j
  BY <1>1 DEF wait_dequeue_tmevtb, tmevtb_dequeue, Check, TimedOK
<1>3. j1 \in KernelState BY DEF KernelState
<1>4. /\ j1.readyq = j.readyq /\ j1.primap = j.primap /\ j1.schedtsk = j.schedtsk
      /\ j1.priority = j.priority /\ j1.tstat = j.tstat /\ SameRest(j, j1)
      /\ j1.winfo = j.winfo /\ j1.tmevtb = [j.tmevtb EXCEPT ![t] = NULL]
      /\ j1.broken = j.broken /\ j1.wque = j.wque /\ j1.wobj = j.wobj
  BY DEF KernelState, SameRest
<1> HIDE DEF j1, n
<1>5. CASE j.winfo[t] # NULL
  <2>1. n = j1 BY <1>2, <1>5
  <2>2. j1.tmevtb[t] = NULL /\ \A u \in Task \ {t} : j1.tmevtb[u] = j.tmevtb[u]
    <3>1. DOMAIN j.tmevtb = Task BY DEF KernelState
    <3> QED BY <3>1, <1>4
  <2>3. Timed(j, {t}) BY DEF Timed
  <2>4. Timed(j1, {t})
    <3>1. \A u \in Task \ {t} : /\ j1.tstat[u] = j.tstat[u] /\ j1.winfo[u] = j.winfo[u]
                                 /\ j1.tmevtb[u] = j.tmevtb[u]
      BY <2>2, <1>4
    <3>2. j1.broken = j.broken BY <1>4
    <3> QED BY ONLY <3>1, <3>2, <2>3, TimedFrame
  <2>5. Waits(j1, {t}) BY <1>4, WaitsFrame
  <2> QED BY <2>1, <2>2, <2>4, <2>5, <1>3, <1>4 DEF n, Fine
<1>6. CASE j.winfo[t] = NULL
  <2>1. n = j BY <1>2, <1>6
  <2>2. j.tmevtb[t] = NULL BY <1>1, <1>6 DEF TimedOK
  <2> QED BY <2>1, <2>2 DEF SameRest, Fine, Timed, n
<1> QED BY <1>5, <1>6

(* Storing wercd disturbs only the WINFO of the task it is stored for.     *)
LEMMA SetWercd ==
    ASSUME NEW j, j \in KernelState, NEW t \in Task, NEW ercd \in WInfo, Fine(j, {t})
    PROVE  LET n == set_wercd(j, t, ercd) IN
           /\ n \in KernelState
           /\ n.readyq = j.readyq /\ n.primap = j.primap /\ n.schedtsk = j.schedtsk
           /\ n.priority = j.priority /\ n.tstat = j.tstat /\ SameRest(j, n)
           /\ Fine(n, {t}) /\ n.tmevtb = j.tmevtb
           /\ n.wque = j.wque /\ n.wobj = j.wobj
<1> DEFINE n == set_wercd(j, t, ercd)
<1>1. n \in KernelState BY DEF set_wercd, KernelState
<1>2. /\ n.readyq = j.readyq /\ n.primap = j.primap /\ n.schedtsk = j.schedtsk
      /\ n.priority = j.priority /\ n.tstat = j.tstat /\ SameRest(j, n)
      /\ n.tmevtb = j.tmevtb /\ n.winfo = [j.winfo EXCEPT ![t] = ercd]
      /\ n.broken = j.broken /\ n.wque = j.wque /\ n.wobj = j.wobj
  BY DEF set_wercd, KernelState, SameRest
<1> HIDE DEF n
<1>3. \A u \in Task \ {t} : n.winfo[u] = j.winfo[u] BY <1>2 DEF KernelState
<1>4. Fine(n, {t}) BY <1>2, <1>3, TimedFrame, WaitsFrame DEF Fine
<1> QED BY <1>1, <1>2, <1>4 DEF n

LEMMA StateOf ==
    ASSUME NEW j, Settled(j), NEW t \in Task
    PROVE  j.tstat[t] \in TaskStates
BY DEF Settled, Plain

(* The end of the wait of a task that has left its queue, up to the        *)
(* result: it still has to leave the waiting state.                        *)
LEMMA EndQueued ==
    ASSUME NEW j, Settled(j), Timed(j, {}), NEW t \in Task, TSTAT_WAITING(j.tstat[t]),
           Waits(j, {t}), NEW ercd \in WInfo
    PROVE  LET n == set_wercd(wait_dequeue_tmevtb(j, t), t, ercd) IN
           /\ Settled(n) /\ Runnable(n) = Runnable(j) /\ SameRest(j, n)
           /\ n.tstat = j.tstat /\ Fine(n, {t}) /\ n.tmevtb[t] = NULL
           /\ t \notin Runnable(n) /\ n.readyq = j.readyq
           /\ n.wque = j.wque /\ n.wobj = j.wobj
<1> DEFINE d == wait_dequeue_tmevtb(j, t)
           n == set_wercd(d, t, ercd)
<1>1. j \in KernelState BY DEF Settled, Ready, Core
<1>2. /\ d \in KernelState
      /\ d.readyq = j.readyq /\ d.primap = j.primap /\ d.schedtsk = j.schedtsk
      /\ d.priority = j.priority /\ d.tstat = j.tstat /\ SameRest(j, d)
      /\ Fine(d, {t}) /\ d.tmevtb[t] = NULL
      /\ d.wque = j.wque /\ d.wobj = j.wobj
  BY <1>1, DequeueTmevtb
<1> HIDE DEF d
<1>3. /\ n \in KernelState
      /\ n.readyq = d.readyq /\ n.primap = d.primap /\ n.schedtsk = d.schedtsk
      /\ n.priority = d.priority /\ n.tstat = d.tstat /\ SameRest(d, n)
      /\ Fine(n, {t}) /\ n.tmevtb = d.tmevtb
      /\ n.wque = d.wque /\ n.wobj = d.wobj
  BY <1>2, SetWercd
<1> HIDE DEF n
<1>4. /\ n.readyq = j.readyq /\ n.primap = j.primap /\ n.schedtsk = j.schedtsk
      /\ n.priority = j.priority /\ n.tstat = j.tstat /\ SameRest(j, n)
      /\ n.wque = j.wque /\ n.wobj = j.wobj
  BY <1>2, <1>3 DEF SameRest
<1>5. Settled(n) /\ Runnable(n) = Runnable(j) BY <1>3, <1>4, SettledFrame, SameRestSys
<1>6. t \notin Runnable(j) BY StateOf, States DEF Runnable
<1> QED BY <1>2, <1>3, <1>4, <1>5, <1>6 DEF n, d

(* The same for a task that may be in a queue.                             *)
LEMMA EndWait ==
    ASSUME NEW j, Settled(j), Fine(j, {}), NEW t \in Task, TSTAT_WAITING(j.tstat[t]),
           NEW ercd \in WInfo
    PROVE  LET d == wait_dequeue_tmevtb(wait_dequeue_wobj(j, t), t)
               n == set_wercd(d, t, ercd)
           IN  /\ Settled(n) /\ Runnable(n) = Runnable(j) /\ SameRest(j, n)
               /\ n.tstat = j.tstat /\ Fine(n, {t}) /\ n.tmevtb[t] = NULL
               /\ t \notin Runnable(n) /\ n.readyq = j.readyq
<1> DEFINE b == wait_dequeue_wobj(j, t)
           n == set_wercd(wait_dequeue_tmevtb(b, t), t, ercd)
<1>1. j \in KernelState BY DEF Settled, Ready, Core
<1>2. /\ b \in KernelState
      /\ b.readyq = j.readyq /\ b.primap = j.primap /\ b.schedtsk = j.schedtsk
      /\ b.priority = j.priority /\ b.tstat = j.tstat /\ SameRest(j, b)
      /\ b.winfo = j.winfo /\ b.tmevtb = j.tmevtb /\ b.broken = j.broken
      /\ b.wobj = j.wobj /\ Waits(b, {t})
  BY <1>1, DequeueWobj DEF Fine
<1> HIDE DEF b
<1>3. Settled(b) /\ Runnable(b) = Runnable(j) BY <1>2, SettledFrame, SameRestSys
<1>4. Timed(b, {}) BY <1>2, TimedFrame DEF Fine
<1>5. TSTAT_WAITING(b.tstat[t]) BY <1>2
<1>6. /\ Settled(n) /\ Runnable(n) = Runnable(b) /\ SameRest(b, n)
      /\ n.tstat = b.tstat /\ Fine(n, {t}) /\ n.tmevtb[t] = NULL
      /\ t \notin Runnable(n) /\ n.readyq = b.readyq
  BY <1>2, <1>3, <1>4, <1>5, EndQueued
<1> HIDE DEF n
<1> QED BY <1>2, <1>3, <1>6 DEF n, b, SameRest

(* make_non_wait takes it out of the waiting state.                        *)
LEMMA MakeNonWait ==
    ASSUME NEW j, Settled(j), NEW t \in Task, t \notin Runnable(j),
           TSTAT_WAITING(j.tstat[t]), Fine(j, {t}), j.tmevtb[t] = NULL
    PROVE  LET n == make_non_wait(j, t) IN
           /\ Settled(n) /\ SameRest(j, n) /\ Runnable(j) \subseteq Runnable(n)
           /\ Fine(n, {}) /\ OneMoved(j, n, t)
           /\ n.wque = j.wque /\ \A u \in Task \ {t} : n.tstat[u] = j.tstat[u]
<1> DEFINE n == make_non_wait(j, t)
<1>1. j \in KernelState /\ Plain(j) /\ Ready(j, Runnable(j)) BY DEF Settled, Ready, Core
<1>2. n = IF ~TSTAT_SUSPENDED(j.tstat[t])
          THEN make_runnable([j EXCEPT !.tstat[t] = {TS_RUNNABLE}], t)
          ELSE [j EXCEPT !.tstat[t] = {TS_SUSPENDED}]
  BY DEF make_non_wait, Check
<1> HIDE DEF n
<1>3. /\ Settled(n) /\ SameRest(j, n) /\ Runnable(j) \subseteq Runnable(n)
      /\ SameWait(j, n) /\ OneMoved(j, n, t)
      /\ \E s \in {{TS_RUNNABLE}, {TS_SUSPENDED}} : n.tstat = [j.tstat EXCEPT ![t] = s]
  <2>1. CASE ~TSTAT_SUSPENDED(j.tstat[t])
    <3>1. n = make_runnable([j EXCEPT !.tstat[t] = {TS_RUNNABLE}], t) BY <1>2, <2>1
    <3> QED BY <3>1, Unblock
  <2>2. CASE TSTAT_SUSPENDED(j.tstat[t])
    <3>1. n = [j EXCEPT !.tstat[t] = {TS_SUSPENDED}] BY <1>2, <2>2
    <3>2. n \in KernelState
      <4>1. {TS_SUSPENDED} \in TStat BY DEF TStat
      <4>2. ASSUME NEW s \in TStat PROVE [j EXCEPT !.tstat[t] = s] \in KernelState
        BY ONLY <1>1, t \in Task, s \in TStat DEF KernelState
      <4> QED BY <4>1, <4>2, <3>1
    <3>3. /\ n.readyq = j.readyq /\ n.primap = j.primap /\ n.schedtsk = j.schedtsk
          /\ n.priority = j.priority /\ SameRest(j, n) /\ SameWait(j, n)
          /\ n.tstat = [j.tstat EXCEPT ![t] = {TS_SUSPENDED}]
      BY <3>1, <1>1 DEF KernelState, SameRest, SameWait
    <3>4. Runnable(n) = Runnable(j)
      BY <1>1, <3>3 DEF Runnable, KernelState, TS_SUSPENDED, TS_RUNNABLE
    <3>5. n.dspflg = j.dspflg /\ n.runtsk = j.runtsk BY <3>3 DEF SameRest
    <3>6. Ready(n, Runnable(j)) BY <1>1, <3>2, <3>3, <3>5, ReadyFrame
    <3>7. Plain(n) BY <1>1, <3>3 DEF Plain, SameRest, TaskStates
    <3>8. OneMoved(j, n, t) BY <3>3, NoneMoved
    <3> QED BY <3>3, <3>4, <3>6, <3>7, <3>8 DEF Settled, SameRest
  <2> QED BY <2>1, <2>2
<1>4. PICK s \in {{TS_RUNNABLE}, {TS_SUSPENDED}} : n.tstat = [j.tstat EXCEPT ![t] = s]
  BY <1>3
<1>5. n.tstat[t] = s /\ \A u \in Task \ {t} : n.tstat[u] = j.tstat[u]
  BY <1>1, <1>4 DEF KernelState
<1>6. /\ ~TSTAT_WAITING(n.tstat[t]) /\ TS_WAITING_DLY \notin n.tstat[t]
      /\ ~TSTAT_WAIT_WOBJ(n.tstat[t])
  BY <1>5, NotWaiting
<1>7. NULL # "wait_tmout_ok" BY TaskAssumption DEF CallBack
<1>8. TimedOK(n, t) BY <1>3, <1>6, <1>7 DEF TimedOK, SameWait
<1>9. ASSUME NEW u \in Task \ {t} PROVE TimedOK(n, u)
  BY <1>3, <1>5 DEF Fine, Timed, TimedOK, SameWait
<1>10. Timed(n, {}) BY <1>3, <1>8, <1>9 DEF Fine, Timed, SameWait
<1>11. Waits(n, {}) BY <1>3, <1>5, <1>6, WaitsExcept DEF Fine, SameWait
<1> QED BY <1>3, <1>5, <1>10, <1>11 DEF n, Fine, SameWait

(* A wait that ends leaves the kernel in order: of a task that may be in a *)
(* queue ...                                                               *)
LEMMA Release ==
    ASSUME NEW j, Settled(j), Fine(j, {}), NEW t \in Task, TSTAT_WAITING(j.tstat[t]),
           NEW ercd \in WInfo
    PROVE  LET d == wait_dequeue_tmevtb(wait_dequeue_wobj(j, t), t)
               n == make_non_wait(set_wercd(d, t, ercd), t)
           IN  /\ Settled(n) /\ SameRest(j, n) /\ Runnable(j) \subseteq Runnable(n)
               /\ Fine(n, {}) /\ OneMoved(j, n, t)
<1> DEFINE e == set_wercd(wait_dequeue_tmevtb(wait_dequeue_wobj(j, t), t), t, ercd)
<1>1. /\ Settled(e) /\ Runnable(e) = Runnable(j) /\ SameRest(j, e)
      /\ e.tstat = j.tstat /\ Fine(e, {t}) /\ e.tmevtb[t] = NULL
      /\ t \notin Runnable(e) /\ e.readyq = j.readyq
  BY EndWait
<1> HIDE DEF e
<1> DEFINE n == make_non_wait(e, t)
<1>2. /\ Settled(n) /\ SameRest(e, n) /\ Runnable(e) \subseteq Runnable(n)
      /\ Fine(n, {}) /\ OneMoved(e, n, t)
  BY <1>1, MakeNonWait
<1> HIDE DEF n
<1>3. OneMoved(j, n, t) BY <1>1, <1>2 DEF OneMoved
<1> QED BY <1>1, <1>2, <1>3 DEF SameRest, n, e

(* ... or of one that is in none any more.                                 *)
LEMMA ReleaseQueued ==
    ASSUME NEW j, Settled(j), Timed(j, {}), NEW t \in Task, TSTAT_WAITING(j.tstat[t]),
           Waits(j, {t}), NEW ercd \in WInfo
    PROVE  LET n == make_non_wait(set_wercd(wait_dequeue_tmevtb(j, t), t, ercd), t) IN
           /\ Settled(n) /\ SameRest(j, n) /\ Runnable(j) \subseteq Runnable(n)
           /\ Fine(n, {}) /\ OneMoved(j, n, t)
           /\ n.wque = j.wque /\ \A u \in Task \ {t} : n.tstat[u] = j.tstat[u]
<1> DEFINE e == set_wercd(wait_dequeue_tmevtb(j, t), t, ercd)
<1>1. /\ Settled(e) /\ Runnable(e) = Runnable(j) /\ SameRest(j, e)
      /\ e.tstat = j.tstat /\ Fine(e, {t}) /\ e.tmevtb[t] = NULL
      /\ t \notin Runnable(e) /\ e.readyq = j.readyq
      /\ e.wque = j.wque /\ e.wobj = j.wobj
  BY EndQueued
<1> HIDE DEF e
<1> DEFINE n == make_non_wait(e, t)
<1>2. /\ Settled(n) /\ SameRest(e, n) /\ Runnable(e) \subseteq Runnable(n)
      /\ Fine(n, {}) /\ OneMoved(e, n, t)
      /\ n.wque = e.wque /\ \A u \in Task \ {t} : n.tstat[u] = e.tstat[u]
  BY <1>1, MakeNonWait
<1> HIDE DEF n
<1>3. OneMoved(j, n, t) BY <1>1, <1>2 DEF OneMoved
<1> QED BY <1>1, <1>2, <1>3 DEF SameRest, n, e

-----------------------------------------------------------------------------
(* Everything but the wait queues agrees.                                  *)
SameButQueues(j, n) ==
    /\ n.readyq = j.readyq /\ n.primap = j.primap /\ n.schedtsk = j.schedtsk
    /\ n.priority = j.priority /\ n.tstat = j.tstat /\ n.winfo = j.winfo
    /\ n.tmevtb = j.tmevtb /\ n.broken = j.broken /\ n.lastmtx = j.lastmtx
    /\ n.runtsk = j.runtsk /\ n.enadsp = j.enadsp /\ n.dspflg = j.dspflg
    /\ n.ipm = j.ipm /\ n.nest = j.nest /\ n.raster = j.raster /\ n.enater = j.enater

(* A wait queue is changed.                                                *)
LEMMA QueueChanged ==
    ASSUME NEW j, Settled(j), NEW w \in Wobj, NEW q \in Seq(Task)
    PROVE  LET n == [j EXCEPT !.wque[w] = q] IN
           /\ Settled(n) /\ Runnable(n) = Runnable(j)
           /\ SameButQueues(j, n) /\ n.wobj = j.wobj
           /\ n.wque = [j.wque EXCEPT ![w] = q]
           /\ n.wque[w] = q /\ \A v \in Wobj \ {w} : n.wque[v] = j.wque[v]
<1> DEFINE n == [j EXCEPT !.wque[w] = q]
<1>1. j \in KernelState /\ Ready(j, Runnable(j)) BY DEF Settled, Ready, Core
<1>2. n \in KernelState BY <1>1 DEF KernelState
<1>3. SameButQueues(j, n) /\ n.wobj = j.wobj /\ n.wque = [j.wque EXCEPT ![w] = q]
  BY <1>1 DEF KernelState, SameButQueues
<1>4. j.wque \in [Wobj -> Seq(Task)] BY <1>1 DEF KernelState
<1> HIDE DEF n
<1>5. Runnable(n) = Runnable(j) BY <1>3 DEF SameButQueues, Runnable
<1>6. Ready(n, Runnable(j))
  <2>1. \A u \in Runnable(j) : n.priority[u] = j.priority[u] BY <1>3 DEF SameButQueues
  <2> QED BY <2>1, <1>1, <1>2, <1>3, ReadyFrame DEF SameButQueues
<1>7. Settled(n) BY <1>3, <1>5, <1>6 DEF Settled, Plain, SameButQueues
<1> QED BY <1>3, <1>4, <1>5, <1>7 DEF n

(* Task t joins queue w, and the other queues stay as they are.            *)
Joins(j, n, w, t) ==
    /\ \A v \in Wobj \ {w} : n.wque[v] = j.wque[v]
    /\ \A u : Linked(n.wque[w], u) <=> Linked(j.wque[w], u) \/ u = t
    /\ w \notin TA_TPRI => n.wque[w] = Append(j.wque[w], t)

(* The running task, which has just been made to wait for an object, joins *)
(* its queue, in the order of arrival or of the priorities.                *)
LEMMA JoinQueue ==
    ASSUME NEW j, Settled(j), Timed(j, {}), j.runtsk \in Task, Waits(j, {j.runtsk}),
           NEW w \in Wobj, j.tstat[j.runtsk] = {wfactor[w]}
    PROVE  LET n == [wobj_queue_insert(j, w) EXCEPT !.wobj[j.runtsk] = w] IN
           /\ Settled(n) /\ Runnable(n) = Runnable(j) /\ Fine(n, {}) /\ SameButQueues(j, n)
           /\ Joins(j, n, w, j.runtsk)
<1> DEFINE t == j.runtsk
           q == IF w \in TA_TPRI THEN queue_insert_tpri(j.wque[w], t, j.priority)
                                 ELSE queue_insert_prev(j.wque[w], t)
           i == [j EXCEPT !.wque[w] = q]
           n == [wobj_queue_insert(j, w) EXCEPT !.wobj[t] = w]
<1>1. j \in KernelState BY DEF Settled, Ready, Core
<1>2. /\ j.wque[w] \in Seq(Task) /\ NoTwice(j.wque[w]) /\ ~Linked(j.wque[w], t)
  BY <1>1 DEF KernelState, Waits
<1>3. /\ q \in Seq(Task) /\ NoTwice(q)
      /\ \A u : Linked(q, u) <=> Linked(j.wque[w], u) \/ u = t
  <2> HIDE DEF t
  <2>1. t \in Task BY DEF t
  <2> QED BY <2>1, <1>2, InsertPrev, InsertTpri DEF t
<1>4. n = [i EXCEPT !.wobj[t] = w] BY <1>1 DEF wobj_queue_insert, KernelState
<1> HIDE DEF q, n
<1>5. /\ Settled(i) /\ Runnable(i) = Runnable(j)
      /\ SameButQueues(j, i) /\ i.wobj = j.wobj /\ i.wque = [j.wque EXCEPT ![w] = q]
      /\ i.wque[w] = q /\ \A v \in Wobj \ {w} : i.wque[v] = j.wque[v]
  BY <1>3, QueueChanged
<1> HIDE DEF i
<1>6. i \in KernelState BY <1>5 DEF Settled, Ready, Core
<1>7. n \in KernelState BY <1>4, <1>6 DEF KernelState
<1>8. /\ n.readyq = i.readyq /\ n.primap = i.primap /\ n.schedtsk = i.schedtsk
      /\ n.priority = i.priority /\ n.tstat = i.tstat /\ n.winfo = i.winfo
      /\ n.tmevtb = i.tmevtb /\ n.broken = i.broken /\ n.lastmtx = i.lastmtx
      /\ n.runtsk = i.runtsk /\ n.enadsp = i.enadsp /\ n.dspflg = i.dspflg
      /\ n.ipm = i.ipm /\ n.nest = i.nest /\ n.raster = i.raster /\ n.enater = i.enater
      /\ n.wque = i.wque /\ n.wobj = [i.wobj EXCEPT ![t] = w]
  BY <1>4, <1>6 DEF KernelState
<1>9. SameButQueues(j, n) BY <1>5, <1>8 DEF SameButQueues
<1>10. Settled(n) /\ Runnable(n) = Runnable(j)
  <2>1. SameSys(i, n) BY <1>8 DEF SameSys
  <2> QED BY <2>1, <1>5, <1>7, <1>8, SettledFrame
<1>11. n.wobj[t] = w /\ \A u \in Task \ {t} : n.wobj[u] = j.wobj[u]
  BY <1>1, <1>5, <1>8 DEF KernelState
<1>12. Fine(n, {})
  <2>1. Timed(n, {}) BY <1>9, TimedFrame DEF SameButQueues
  <2>2. wfactor[w] \in WobjFactor BY WobjAssumption
  <2>3. TSTAT_WAIT_WOBJ(n.tstat[t]) /\ wfactor[w] \in n.tstat[t]
    BY <2>2, <1>9 DEF SameButQueues, TSTAT_WAIT_WOBJ
  <2>4. \A v \in Wobj : NoTwice(n.wque[v]) BY <1>3, <1>5, <1>8 DEF Waits
  <2>5. ASSUME NEW v \in Wobj, NEW u \in Task
        PROVE  Linked(n.wque[v], u) <=> TSTAT_WAIT_WOBJ(n.tstat[u]) /\ n.wobj[u] = v
    <3>1. Linked(j.wque[v], u) <=> u # t /\ TSTAT_WAIT_WOBJ(j.tstat[u]) /\ j.wobj[u] = v
      BY DEF Waits
    <3>2. n.tstat = j.tstat BY <1>9 DEF SameButQueues
    <3>3. CASE u = t
      <4>1. CASE v = w BY <4>1, <3>3, <2>3, <1>3, <1>5, <1>8, <1>11
      <4>2. CASE v # w BY <4>2, <3>1, <3>3, <1>5, <1>8, <1>11
      <4> QED BY <4>1, <4>2
    <3>4. CASE u # t
      <4>1. Linked(n.wque[v], u) <=> Linked(j.wque[v], u) BY <3>4, <1>3, <1>5, <1>8
      <4> QED BY <4>1, <3>1, <3>2, <3>4, <1>11
    <3> QED BY <3>3, <3>4
  <2>6. ASSUME NEW u \in Task, TSTAT_WAIT_WOBJ(n.tstat[u])
        PROVE  n.wobj[u] \in Wobj /\ wfactor[n.wobj[u]] \in n.tstat[u]
    <3>1. CASE u = t BY <3>1, <2>3, <1>11
    <3>2. CASE u # t BY <3>2, <2>6, <1>9, <1>11 DEF Waits, SameButQueues
    <3> QED BY <3>1, <3>2
  <2>7. \A v \in Wobj, u \in Task :
          Linked(n.wque[v], u) <=> u \notin {} /\ TSTAT_WAIT_WOBJ(n.tstat[u]) /\ n.wobj[u] = v
    <3> HIDE DEF t
    <3> QED BY <2>5
  <2>8. \A u \in Task \ {} : TSTAT_WAIT_WOBJ(n.tstat[u]) =>
          n.wobj[u] \in Wobj /\ wfactor[n.wobj[u]] \in n.tstat[u]
    BY <2>6
  <2>9. Waits(n, {}) BY ONLY <2>4, <2>7, <2>8, Zenon DEF Waits
  <2> QED BY <2>1, <2>9 DEF Fine
<1>13. w \notin TA_TPRI => q = Append(j.wque[w], t) BY DEF q, queue_insert_prev
<1>14. Joins(j, n, w, t)
  <2>1. n.wque[w] = q /\ \A v \in Wobj \ {w} : n.wque[v] = j.wque[v]
    BY ONLY <1>5, <1>8
  <2> HIDE DEF t
  <2>2. \A u : Linked(q, u) <=> Linked(j.wque[w], u) \/ u = t BY ONLY <1>3
  <2>3. \A u : Linked(n.wque[w], u) <=> Linked(j.wque[w], u) \/ u = t
    BY ONLY <2>1, <2>2, Zenon
  <2>4. w \notin TA_TPRI => n.wque[w] = Append(j.wque[w], t) BY ONLY <2>1, <1>13
  <2> QED BY ONLY <2>1, <2>3, <2>4, Zenon DEF Joins
<1> QED BY <1>9, <1>10, <1>12, <1>14 DEF n

(* Queue w changes to q, which lacks just task t.                          *)
Unqueued(j, i, w, t, q) ==
    /\ Settled(i) /\ Runnable(i) = Runnable(j)
    /\ SameButQueues(j, i) /\ i.wobj = j.wobj
    /\ i.wque[w] = q /\ \A v \in Wobj \ {w} : i.wque[v] = j.wque[v]
    /\ SameRest(j, i) /\ Timed(i, {}) /\ Waits(i, {t})
    /\ TSTAT_WAITING(i.tstat[t]) /\ t \notin Runnable(i)

LEMMA Unqueue ==
    ASSUME NEW j, Settled(j), Fine(j, {}), NEW w \in Wobj,
           NEW t \in Task, Linked(j.wque[w], t),
           NEW q \in Seq(Task), NoTwice(q),
           \A u : Linked(q, u) <=> Linked(j.wque[w], u) /\ u # t
    PROVE  Unqueued(j, [j EXCEPT !.wque[w] = q], w, t, q)
<1> DEFINE i == [j EXCEPT !.wque[w] = q]
<1>1. TSTAT_WAIT_WOBJ(j.tstat[t]) /\ j.wobj[t] = w BY DEF Fine, Waits
<1>2. TSTAT_WAITING(j.tstat[t])
  <2>1. j.tstat[t] \in TaskStates BY StateOf
  <2> QED BY <2>1, <1>1, States
<1>3. /\ Settled(i) /\ Runnable(i) = Runnable(j)
      /\ SameButQueues(j, i) /\ i.wobj = j.wobj
      /\ i.wque[w] = q /\ \A v \in Wobj \ {w} : i.wque[v] = j.wque[v]
  BY QueueChanged
<1> HIDE DEF i
<1>4. SameRest(j, i)
  <2>1. \A v \in Wobj, u \in Task : Linked(i.wque[v], u) => Linked(j.wque[v], u)
    BY <1>3
  <2> QED BY <2>1, <1>3 DEF SameRest, SameButQueues
<1>5. Timed(i, {}) BY <1>3, TimedFrame DEF Fine, SameButQueues
<1>6. Waits(i, {t})
  <2>1. \A v \in Wobj : NoTwice(i.wque[v]) BY <1>3 DEF Fine, Waits
  <2>2. ASSUME NEW v \in Wobj, NEW u \in Task
        PROVE  Linked(i.wque[v], u) <=>
                   u \notin {t} /\ TSTAT_WAIT_WOBJ(i.tstat[u]) /\ i.wobj[u] = v
    <3>1. Linked(j.wque[v], u) <=> TSTAT_WAIT_WOBJ(j.tstat[u]) /\ j.wobj[u] = v
      BY DEF Fine, Waits
    <3>2. Linked(i.wque[v], u) <=> Linked(j.wque[v], u) /\ u # t
      <4>1. CASE v = w BY <4>1, <1>3
      <4>2. CASE v # w BY <4>2, <3>1, <1>1, <1>3
      <4> QED BY <4>1, <4>2
    <3> QED BY <3>1, <3>2, <1>3 DEF SameButQueues
  <2>3. \A u \in Task \ {t} : TSTAT_WAIT_WOBJ(i.tstat[u]) =>
            i.wobj[u] \in Wobj /\ wfactor[i.wobj[u]] \in i.tstat[u]
    BY <1>3 DEF Fine, Waits, SameButQueues
  <2> QED BY <2>1, <2>2, <2>3 DEF Waits
<1>7. TSTAT_WAITING(i.tstat[t]) BY <1>2, <1>3 DEF SameButQueues
<1>8. t \notin Runnable(i) BY <1>3, <1>7, StateOf, States DEF Runnable
<1> QED BY <1>3, <1>4, <1>5, <1>6, <1>7, <1>8 DEF i, Unqueued

(* Task t is taken out of queue w, whatever its place, and released.       *)
LEMMA ReleaseOne ==
    ASSUME NEW j, Settled(j), Fine(j, {}), NEW w \in Wobj,
           NEW t \in Task, Linked(j.wque[w], t),
           NEW q \in Seq(Task), NoTwice(q),
           \A u : Linked(q, u) <=> Linked(j.wque[w], u) /\ u # t,
           NEW ercd \in WInfo
    PROVE  LET d == wait_dequeue_tmevtb([j EXCEPT !.wque[w] = q], t)
               n == make_non_wait(set_wercd(d, t, ercd), t)
           IN  /\ Settled(n) /\ Fine(n, {}) /\ SameRest(j, n)
               /\ Runnable(j) \subseteq Runnable(n)
               /\ OneMoved(j, n, t)
               /\ n.wque[w] = q
               /\ \A v \in Wobj \ {w} : n.wque[v] = j.wque[v]
<1> DEFINE i == [j EXCEPT !.wque[w] = q]
           n == make_non_wait(set_wercd(wait_dequeue_tmevtb(i, t), t, ercd), t)
<1>3. /\ Settled(i) /\ Runnable(i) = Runnable(j)
      /\ SameButQueues(j, i) /\ i.wobj = j.wobj
      /\ i.wque[w] = q /\ \A v \in Wobj \ {w} : i.wque[v] = j.wque[v]
      /\ SameRest(j, i) /\ Timed(i, {}) /\ Waits(i, {t})
      /\ TSTAT_WAITING(i.tstat[t])
  <2>1. Unqueued(j, i, w, t, q) BY Unqueue
  <2> QED BY <2>1 DEF Unqueued
<1> HIDE DEF i
<1>8. /\ Settled(n) /\ SameRest(i, n) /\ Runnable(i) \subseteq Runnable(n)
       /\ Fine(n, {}) /\ OneMoved(i, n, t) /\ n.wque = i.wque
  BY <1>3, ReleaseQueued
<1> HIDE DEF n
<1>9. OneMoved(j, n, t)
  <2>1. OneMoved(i, n, t) /\ i.readyq = j.readyq BY <1>3, <1>8 DEF SameButQueues
  <2> QED BY <2>1 DEF OneMoved
<1>10. SameRest(j, n)
  <2>1. SameRest(j, i) /\ SameRest(i, n) BY <1>3, <1>8, Zenon
  <2> QED BY <2>1 DEF SameRest
<1> QED BY <1>3, <1>8, <1>9, <1>10 DEF n, i

(* The first task of a queue is released.                                  *)
LEMMA ReleaseNext ==
    ASSUME NEW j, Settled(j), Fine(j, {}), NEW w \in Wobj, j.wque[w] # << >>,
           NEW ercd \in WInfo
    PROVE  LET t == Head(j.wque[w])
               d == wait_dequeue_tmevtb([j EXCEPT !.wque[w] = Tail(@)], t)
               n == make_non_wait(set_wercd(d, t, ercd), t)
           IN  /\ Settled(n) /\ Fine(n, {}) /\ SameRest(j, n)
               /\ Runnable(j) \subseteq Runnable(n)
               /\ t \in Task /\ OneMoved(j, n, t)
               /\ n.wque[w] = Tail(j.wque[w])
               /\ \A v \in Wobj \ {w} : n.wque[v] = j.wque[v]
<1> DEFINE t == Head(j.wque[w])
           q == Tail(j.wque[w])
<1>1. j \in KernelState BY DEF Settled, Ready, Core
<1>2. j.wque[w] \in Seq(Task) /\ NoTwice(j.wque[w]) BY <1>1 DEF KernelState, Fine, Waits
<1>3. t \in Task /\ Linked(j.wque[w], t)
  <2>1. 1 \in 1 .. Len(j.wque[w]) /\ Head(j.wque[w]) = j.wque[w][1] BY <1>2
  <2> QED BY <2>1, <1>2 DEF Linked
<1>4. /\ q \in Seq(Task) /\ NoTwice(q)
      /\ \A u : Linked(q, u) <=> Linked(j.wque[w], u) /\ u # t
  BY <1>2, TailLinks
<1> HIDE DEF t, q
<1> DEFINE d == wait_dequeue_tmevtb([j EXCEPT !.wque[w] = q], t)
           n == make_non_wait(set_wercd(d, t, ercd), t)
<1>5. /\ Settled(n) /\ Fine(n, {}) /\ SameRest(j, n) /\ Runnable(j) \subseteq Runnable(n)
      /\ OneMoved(j, n, t) /\ n.wque[w] = q
      /\ \A v \in Wobj \ {w} : n.wque[v] = j.wque[v]
  BY <1>3, <1>4, ReleaseOne
<1> HIDE DEF n
<1> QED BY <1>3, <1>5 DEF n, t, q

(* Induction up to n, for a set P of numbers, and the iteration of f from  *)
(* x, which exists.                                                        *)
LEMMA Induct ==
    ASSUME NEW top \in Nat, NEW P, 0 \in P, \A n \in 0 .. top - 1 : n \in P => n + 1 \in P
    PROVE  \A n \in 0 .. top : n \in P
<1> DEFINE bad == {n \in 0 .. top : n \notin P}
<1>1. bad # {} => FALSE
  <2> SUFFICES ASSUME bad # {} PROVE FALSE OBVIOUS
  <2>1. bad \in SUBSET Nat OBVIOUS
  <2>2. PICK m \in bad : \A n \in bad : m <= n BY <2>1, LeastElement
  <2>3. m \in 1 .. top /\ m - 1 \in 0 .. top - 1 OBVIOUS
  <2>4. m - 1 \in P BY <2>2, <2>3
  <2>5. m - 1 + 1 \in P BY <2>3, <2>4
  <2> QED BY <2>2, <2>3, <2>5
<1> QED BY <1>1

Iterates(g, top, S, x, f) ==
    /\ g \in [0 .. top -> S] /\ g[0] = x
    /\ \A i \in 0 .. top - 1 : g[i + 1] = f[g[i]]

LEMMA Iterate ==
    ASSUME NEW top \in Nat, NEW S, NEW x \in S, NEW f \in [S -> S]
    PROVE  \E g : Iterates(g, top, S, x, f)
<1> DEFINE Good(n, g) == /\ g \in [0 .. n -> S] /\ g[0] = x
                         /\ \A i \in 0 .. n - 1 : g[i + 1] = f[g[i]]
           P == {n \in Nat : \E g : Good(n, g)}
<1>1. 0 \in P
  <2> DEFINE g == [i \in 0 .. 0 |-> x]
  <2>1. Good(0, g) OBVIOUS
  <2> QED BY <2>1
<1>2. ASSUME NEW n \in 0 .. top - 1, n \in P PROVE n + 1 \in P
  <2>1. PICK g : Good(n, g) BY <1>2
  <2> DEFINE h2 == [i \in 0 .. n + 1 |-> IF i = n + 1 THEN f[g[n]] ELSE g[i]]
  <2>2. h2 \in [0 .. n + 1 -> S] /\ h2[0] = x BY <2>1
  <2>3. ASSUME NEW i \in 0 .. (n + 1) - 1 PROVE h2[i + 1] = f[h2[i]]
    <3>1. i \in 0 .. n + 1 /\ i + 1 \in 0 .. n + 1 OBVIOUS
    <3>2. CASE i = n BY <3>1, <3>2
    <3>3. CASE i # n BY <3>1, <3>3, <2>1
    <3> QED BY <3>2, <3>3
  <2> HIDE DEF h2
  <2>4. Good(n + 1, h2) BY <2>2, <2>3
  <2>5. \E g2 : Good(n + 1, g2) BY <2>4
  <2> HIDE DEF Good
  <2> QED BY <2>5
<1> HIDE DEF P
<1>3. top \in P BY <1>1, <1>2, Induct
<1>4. PICK g : Good(top, g) BY <1>3 DEF P
<1> QED BY <1>4 DEF Iterates

(* One round of init_wait_queue, and the states it goes through.           *)
DeleteFirst(j, w) ==
    LET t == Head(j.wque[w])
        d == wait_dequeue_tmevtb([j EXCEPT !.wque[w] = Tail(@)], t)
    IN  make_non_wait(set_wercd(d, t, "E_DLT"), t)

Released(j, w) ==
    {n \in KernelState :
        /\ Settled(n) /\ Fine(n, {}) /\ SameRest(j, n)
        /\ Runnable(j) \subseteq Runnable(n)
        /\ \A v \in Wobj \ {w} : n.wque[v] = j.wque[v]}

LEMMA ReleaseFirst ==
    ASSUME NEW j, NEW w \in Wobj, NEW i \in Released(j, w), i.wque[w] # << >>
    PROVE  DeleteFirst(i, w) \in Released(j, w) /\ DeleteFirst(i, w).wque[w] = Tail(i.wque[w])
<1> DEFINE n == DeleteFirst(i, w)
<1>1. /\ Settled(i) /\ Fine(i, {}) /\ SameRest(j, i) /\ Runnable(j) \subseteq Runnable(i)
      /\ \A v \in Wobj \ {w} : i.wque[v] = j.wque[v]
  BY DEF Released
<1>2. "E_DLT" \in WInfo BY DEF WInfo, WaitErcd
<1>3. /\ Settled(n) /\ Fine(n, {}) /\ SameRest(i, n) /\ Runnable(i) \subseteq Runnable(n)
      /\ n.wque[w] = Tail(i.wque[w])
      /\ \A v \in Wobj \ {w} : n.wque[v] = i.wque[v]
  BY <1>1, <1>2, ReleaseNext DEF DeleteFirst
<1> HIDE DEF n
<1>4. n \in KernelState BY <1>3 DEF Settled, Ready, Core
<1>5. SameRest(j, n) BY <1>1, <1>3 DEF SameRest
<1>6. n \in Released(j, w) BY <1>1, <1>3, <1>4, <1>5 DEF Released
<1> QED BY <1>3, <1>6 DEF n

Rounds(g, j, w) ==
    LET top == Len(j.wque[w]) IN
    /\ g \in [0 .. top -> Released(j, w)] /\ g[0] = j
    /\ \A i \in 0 .. top : Len(g[i].wque[w]) = top - i
    /\ \A i \in 0 .. top - 1 : g[i + 1] = DeleteFirst(g[i], w)

LEMMA RoundsExist ==
    ASSUME NEW j, Settled(j), Fine(j, {}), NEW w \in Wobj
    PROVE  \E g : Rounds(g, j, w)
<1> DEFINE S == Released(j, w)
           f == [i \in S |-> IF i.wque[w] = << >> THEN i ELSE DeleteFirst(i, w)]
           top == Len(j.wque[w])
<1>1. j \in KernelState BY DEF Settled, Ready, Core
<1>2. j \in S BY <1>1 DEF Released, SameRest
<1>3. top \in Nat BY <1>1 DEF KernelState
<1>4. f \in [S -> S] BY ReleaseFirst
<1>5. ASSUME NEW i \in S, i.wque[w] # << >>
      PROVE  f[i] = DeleteFirst(i, w) /\ f[i].wque[w] = Tail(i.wque[w])
  BY <1>5, ReleaseFirst
<1>6. \A i \in S : i.wque[w] \in Seq(Task) BY DEF Released, KernelState
<1> HIDE DEF S, f, top
<1>7. PICK g : Iterates(g, top, S, j, f) BY <1>2, <1>3, <1>4, Iterate
<1>8. g \in [0 .. top -> S] /\ g[0] = j /\ \A i \in 0 .. top - 1 : g[i + 1] = f[g[i]]
  BY <1>7 DEF Iterates
<1>9. \A i \in 0 .. top : Len(g[i].wque[w]) = top - i
  <2> DEFINE P == {i \in 0 .. top : Len(g[i].wque[w]) = top - i}
  <2>1. 0 \in P BY <1>3, <1>8 DEF top
  <2>2. ASSUME NEW i \in 0 .. top - 1, i \in P PROVE i + 1 \in P
    <3>1. /\ i + 1 \in 0 .. top /\ i \in 0 .. top /\ g[i] \in S
          /\ Len(g[i].wque[w]) = top - i /\ top - i > 0
      BY <1>3, <1>8, <2>2
    <3>2. g[i].wque[w] \in Seq(Task) /\ g[i].wque[w] # << >> BY <3>1, <1>3, <1>6
    <3>3. g[i + 1].wque[w] = Tail(g[i].wque[w]) BY <3>1, <3>2, <1>5, <1>8
    <3>4. Len(g[i + 1].wque[w]) = top - (i + 1) BY <3>1, <3>2, <3>3, <1>3
    <3> QED BY <3>1, <3>4
  <2> HIDE DEF P
  <2>3. \A i \in 0 .. top : i \in P BY <1>3, <2>1, <2>2, Induct
  <2> QED BY <2>3 DEF P
<1>10. ASSUME NEW i \in 0 .. top - 1 PROVE g[i + 1] = DeleteFirst(g[i], w)
  <2>1. i \in 0 .. top /\ g[i] \in S /\ top - i > 0 BY <1>3, <1>8
  <2>2. g[i].wque[w] # << >> BY <2>1, <1>3, <1>9
  <2> QED BY <2>1, <2>2, <1>5, <1>8
<1>11. Rounds(g, j, w) BY <1>8, <1>9, <1>10 DEF Rounds, S, top
<1> QED BY <1>11

(* init_wait_queue leaves the queue empty, and the kernel as it should be. *)
LEMMA InitQueue ==
    ASSUME NEW j, Settled(j), Fine(j, {}), NEW w \in Wobj
    PROVE  /\ init_wait_queue(j, w) \in Released(j, w)
           /\ init_wait_queue(j, w).wque[w] = << >>
           /\ \E g : Rounds(g, j, w) /\ g[Len(j.wque[w])] = init_wait_queue(j, w)
<1> DEFINE top == Len(j.wque[w])
           after[n \in 0 .. Len(j.wque[w])] ==
             IF n = 0 THEN j
             ELSE LET i == after[n - 1]
                      t == Head(i.wque[w])
                      j1 == wait_dequeue_tmevtb([i EXCEPT !.wque[w] = Tail(@)], t)
                  IN  make_non_wait(set_wercd(j1, t, "E_DLT"), t)
           body(g) == [n \in 0 .. Len(j.wque[w]) |->
             IF n = 0 THEN j
             ELSE LET i == g[n - 1]
                      t == Head(i.wque[w])
                      j1 == wait_dequeue_tmevtb([i EXCEPT !.wque[w] = Tail(@)], t)
                  IN  make_non_wait(set_wercd(j1, t, "E_DLT"), t)]
           run(g) == [n \in 0 .. top |-> IF n = 0 THEN j ELSE DeleteFirst(g[n - 1], w)]
<1>1. after = CHOOSE g : g = body(g) BY Zenon
<1>2. init_wait_queue(j, w) = after[top] BY Zenon DEF init_wait_queue
<1> HIDE DEF after
<1>3. j \in KernelState BY DEF Settled, Ready, Core
<1>4. top \in Nat BY <1>3 DEF KernelState
<1>5. \A g : body(g) = run(g) BY Zenon DEF DeleteFirst
<1> HIDE DEF body, top
<1>6. PICK g : Rounds(g, j, w) BY RoundsExist
<1>7. /\ g \in [0 .. top -> Released(j, w)] /\ g[0] = j
      /\ Len(g[top].wque[w]) = 0
      /\ \A i \in 0 .. top - 1 : g[i + 1] = DeleteFirst(g[i], w)
  BY <1>4, <1>6 DEF Rounds, top
<1>8. g = run(g)
  <2>1. ASSUME NEW i \in 0 .. top PROVE g[i] = run(g)[i]
    <3>1. CASE i = 0 BY <3>1, <1>7, <1>4
    <3>2. CASE i # 0
      <4>1. i - 1 \in 0 .. top - 1 /\ (i - 1) + 1 = i BY <3>2, <1>4
      <4>2. g[i] = DeleteFirst(g[i - 1], w) BY <4>1, <1>7
      <4> QED BY <4>2, <3>2
    <3> QED BY <3>1, <3>2
  <2>2. run(g) = [i \in 0 .. top |-> run(g)[i]] OBVIOUS
  <2>3. g = [i \in 0 .. top |-> g[i]] BY <1>7
  <2> HIDE DEF run
  <2> QED BY <2>1, <2>2, <2>3
<1>9. after = run(after) BY <1>1, <1>5, <1>8
<1>10. \A i \in 0 .. top : after[i] = g[i]
  <2> DEFINE P == {i \in 0 .. top : after[i] = g[i]}
  <2>1. 0 \in P BY <1>4, <1>7, <1>9
  <2>2. ASSUME NEW i \in 0 .. top - 1, i \in P PROVE i + 1 \in P
    <3>1. i + 1 \in 0 .. top /\ i + 1 # 0 /\ (i + 1) - 1 = i BY <1>4
    <3>2. after[i + 1] = run(after)[i + 1] /\ after[i] = g[i] BY <1>9, <2>2
    <3>3. run(after)[i + 1] = DeleteFirst(after[i], w) BY <3>1
    <3> QED BY <3>1, <3>2, <3>3, <1>7
  <2> HIDE DEF P
  <2>3. \A i \in 0 .. top : i \in P BY <1>4, <2>1, <2>2, Induct
  <2> QED BY <2>3 DEF P
<1>11. after[top] = g[top] /\ g[top] \in Released(j, w) BY <1>4, <1>7, <1>10
<1>12. g[top].wque[w] \in Seq(Task) BY <1>11 DEF Released, KernelState
<1>13. Rounds(g, j, w) /\ g[Len(j.wque[w])] = init_wait_queue(j, w)
  BY <1>2, <1>6, <1>11 DEF top
<1>14. \E h : Rounds(h, j, w) /\ h[Len(j.wque[w])] = init_wait_queue(j, w) BY Zenon, <1>13
<1>15. /\ init_wait_queue(j, w) \in Released(j, w)
       /\ init_wait_queue(j, w).wque[w] = << >>
  BY <1>2, <1>7, <1>11, <1>12
<1> QED BY <1>14, <1>15

(* A mutex that is given back goes to the first task that waits for it,    *)
(* which is released; or it is free.                                       *)
LEMMA MutexRelease ==
    ASSUME NEW j, Settled(j), Fine(j, {}), NEW m \in Mutex
    PROVE  LET n == mutex_release(j, m) IN
           /\ Settled(n) /\ Fine(n, {}) /\ SameMode(j, n)
           /\ n.raster = j.raster /\ n.enater = j.enater
           /\ Runnable(j) \subseteq Runnable(n)
           /\ \A u \in Task : ~TSTAT_WAITING(j.tstat[u]) => n.tstat[u] = j.tstat[u]
<1> DEFINE n == mutex_release(j, m)
<1>1. j \in KernelState /\ m \in Wobj BY WobjAssumption DEF Settled, Ready, Core
<1>2. CASE j.wque[m] = << >>
  <2>1. n = [j EXCEPT !.loctsk[m] = NULL] BY <1>2 DEF mutex_release, queue_empty
  <2> HIDE DEF n
  <2>2. n \in KernelState BY <2>1, <1>1 DEF KernelState
  <2>3. /\ n.readyq = j.readyq /\ n.primap = j.primap /\ n.schedtsk = j.schedtsk
        /\ n.priority = j.priority /\ n.tstat = j.tstat /\ SameMode(j, n)
        /\ n.raster = j.raster /\ n.enater = j.enater /\ SameWait(j, n)
    BY <2>1, <1>1 DEF KernelState, SameMode, SameWait
  <2>4. Settled(n) /\ Runnable(n) = Runnable(j) BY <2>2, <2>3, SettledMode
  <2>5. Fine(n, {}) BY <2>3, FineFrame
  <2> QED BY <2>3, <2>4, <2>5 DEF n
<1>3. CASE j.wque[m] # << >>
  <2> DEFINE t == Head(j.wque[m])
             q == Tail(j.wque[m])
             i == [j EXCEPT !.wque[m] = q]
             e == set_wercd(wait_dequeue_tmevtb(i, t), t, E_OK)
             c == chain_push(e, t, m)
             d == IF MTX_CEILING(m) /\ ceilpri[m] < c.priority[t]
                  THEN [c EXCEPT !.priority[t] = ceilpri[m]] ELSE c
  <2>1. n = make_non_wait(d, t) BY <1>3, <1>1 DEF mutex_release, queue_empty
  <2> HIDE DEF n
  <2>2. j.wque[m] \in Seq(Task) /\ NoTwice(j.wque[m]) BY <1>1 DEF KernelState, Fine, Waits
  <2>3. t \in Task /\ Linked(j.wque[m], t)
    <3>1. 1 \in 1 .. Len(j.wque[m]) /\ t = j.wque[m][1] BY <2>2, <1>3
    <3> QED BY <3>1, <2>2 DEF Linked
  <2>4. /\ q \in Seq(Task) /\ NoTwice(q)
        /\ \A u : Linked(q, u) <=> Linked(j.wque[m], u) /\ u # t
    BY <2>2, <1>3, TailLinks
  <2> HIDE DEF t, q
  <2>5. /\ Settled(i) /\ Runnable(i) = Runnable(j) /\ SameButQueues(j, i)
        /\ SameRest(j, i) /\ Timed(i, {}) /\ Waits(i, {t}) /\ TSTAT_WAITING(i.tstat[t])
    <3>1. Unqueued(j, i, m, t, q) BY <1>1, <2>3, <2>4, Unqueue
    <3> QED BY <3>1 DEF Unqueued
  <2> HIDE DEF i
  <2>6. E_OK \in WInfo BY DEF WInfo, WaitErcd
  <2>7. /\ Settled(e) /\ Runnable(e) = Runnable(i) /\ SameRest(i, e)
        /\ e.tstat = i.tstat /\ Fine(e, {t}) /\ e.tmevtb[t] = NULL
        /\ t \notin Runnable(e)
    BY <2>3, <2>5, <2>6, EndQueued
  <2> HIDE DEF e
  <2>8. e \in KernelState BY <2>7 DEF Settled, Ready, Core
  <2>9. c \in KernelState BY <2>3, <2>8 DEF chain_push, KernelState
  <2>10. /\ c.readyq = e.readyq /\ c.primap = e.primap /\ c.schedtsk = e.schedtsk
         /\ c.priority = e.priority /\ c.tstat = e.tstat /\ SameMode(e, c)
         /\ c.raster = e.raster /\ c.enater = e.enater /\ SameWait(e, c)
    BY <2>8 DEF chain_push, KernelState, SameMode, SameWait
  <2> HIDE DEF c
  <2>11. MTX_CEILING(m) => ceilpri[m] \in Pri BY WobjAssumption DEF MTX_CEILING
  <2>12. d \in KernelState BY <2>3, <2>9, <2>11 DEF KernelState
  <2>13. /\ d.readyq = c.readyq /\ d.primap = c.primap /\ d.schedtsk = c.schedtsk
         /\ \A u \in Task \ {t} : d.priority[u] = c.priority[u]
         /\ d.tstat = c.tstat /\ SameMode(c, d)
         /\ d.raster = c.raster /\ d.enater = c.enater /\ SameWait(c, d)
    BY <2>9 DEF KernelState, SameMode, SameWait
  <2> HIDE DEF d
  <2>14. SameMode(e, d) /\ SameWait(e, d) BY <2>10, <2>13 DEF SameMode, SameWait
  <2>15. \A u \in Runnable(e) : d.priority[u] = e.priority[u]
    BY <2>7, <2>10, <2>13 DEF Runnable
  <2>16. Settled(d) /\ Runnable(d) = Runnable(e)
    BY <2>7, <2>10, <2>12, <2>13, <2>14, <2>15, SettledMode
  <2>17. Fine(d, {t}) /\ d.tmevtb[t] = NULL
    BY <2>7, <2>10, <2>13, <2>14, FineFrame DEF SameWait
  <2>18. TSTAT_WAITING(d.tstat[t]) BY <2>5, <2>7, <2>10, <2>13
  <2>19. /\ Settled(n) /\ SameRest(d, n) /\ Runnable(d) \subseteq Runnable(n)
         /\ Fine(n, {}) /\ \A u \in Task \ {t} : n.tstat[u] = d.tstat[u]
    BY <2>1, <2>3, <2>7, <2>16, <2>17, <2>18, MakeNonWait
  <2>20. SameMode(j, n) /\ n.raster = j.raster /\ n.enater = j.enater
    <3>1. SameMode(j, e) /\ e.raster = j.raster /\ e.enater = j.enater
      BY <2>5, <2>7 DEF SameRest, SameMode
    <3> QED BY <3>1, <2>10, <2>13, <2>14, <2>19 DEF SameRest, SameMode
  <2>21. \A u \in Task : ~TSTAT_WAITING(j.tstat[u]) => n.tstat[u] = j.tstat[u]
    BY <2>5, <2>7, <2>10, <2>13, <2>19 DEF SameButQueues
  <2>22. Runnable(j) \subseteq Runnable(n) BY <2>5, <2>7, <2>16, <2>19
  <2> QED BY <2>19, <2>20, <2>21, <2>22 DEF n
<1> QED BY <1>2, <1>3

(* The mutex locked last is given back.                                    *)
ReleaseLast(j, t) ==
    LET m == j.lastmtx[t]
    IN  IF m = NULL THEN j
        ELSE mutex_release([j EXCEPT !.lastmtx[t] = j.prevmtx[m]], m)

LEMMA ReleaseLastSettled ==
    ASSUME NEW j, Settled(j), Fine(j, {}), NEW t \in Task
    PROVE  LET n == ReleaseLast(j, t) IN
           /\ Settled(n) /\ Fine(n, {}) /\ SameMode(j, n)
           /\ n.raster = j.raster /\ n.enater = j.enater
           /\ Runnable(j) \subseteq Runnable(n)
           /\ \A u \in Task : ~TSTAT_WAITING(j.tstat[u]) => n.tstat[u] = j.tstat[u]
<1> DEFINE m == j.lastmtx[t]
           i == [j EXCEPT !.lastmtx[t] = j.prevmtx[m]]
           n == ReleaseLast(j, t)
<1>1. j \in KernelState BY DEF Settled, Ready, Core
<1>2. CASE m = NULL
  <2>1. n = j BY <1>2 DEF ReleaseLast
  <2> QED BY <2>1 DEF SameMode
<1>3. CASE m # NULL
  <2>1. m \in Mutex BY <1>1, <1>3 DEF KernelState
  <2>2. n = mutex_release(i, m) BY <1>3 DEF ReleaseLast
  <2> HIDE DEF n
  <2>3. i \in KernelState BY <1>1, <2>1 DEF KernelState
  <2>4. /\ i.readyq = j.readyq /\ i.primap = j.primap /\ i.schedtsk = j.schedtsk
        /\ i.priority = j.priority /\ i.tstat = j.tstat /\ SameMode(j, i)
        /\ i.raster = j.raster /\ i.enater = j.enater /\ SameWait(j, i)
    BY <1>1 DEF KernelState, SameMode, SameWait
  <2> HIDE DEF i, m
  <2>5. Settled(i) /\ Runnable(i) = Runnable(j) BY <2>3, <2>4, SettledMode
  <2>6. Fine(i, {}) BY <2>4, FineFrame
  <2>7. /\ Settled(n) /\ Fine(n, {}) /\ SameMode(i, n)
        /\ n.raster = i.raster /\ n.enater = i.enater
        /\ Runnable(i) \subseteq Runnable(n)
        /\ \A u \in Task : ~TSTAT_WAITING(i.tstat[u]) => n.tstat[u] = i.tstat[u]
    BY <2>1, <2>2, <2>5, <2>6, MutexRelease
  <2> QED BY <2>4, <2>5, <2>7 DEF SameMode, n
<1> QED BY <1>2, <1>3

(* mutex_release_all does this as many times as there are mutexes.         *)
RoundsAll(g, j, t) ==
    /\ g[0] = j /\ g[Cardinality(Mutex)] = mutex_release_all(j, t)
    /\ \A i \in 0 .. Cardinality(Mutex) - 1 : g[i + 1] = ReleaseLast(g[i], t)

LEMMA RoundsAllExist ==
    ASSUME NEW j, NEW t
    PROVE  \E g : RoundsAll(g, j, t)
<1> DEFINE top == Cardinality(Mutex)
           run(g) == [n \in 0 .. top |-> IF n = 0 THEN j ELSE ReleaseLast(g[n - 1], t)]
           after[n \in 0 .. Cardinality(Mutex)] ==
             IF n = 0 THEN j
             ELSE LET i == after[n - 1]
                      m == i.lastmtx[t]
                  IN  IF m = NULL THEN i
                      ELSE mutex_release([i EXCEPT !.lastmtx[t] = i.prevmtx[m]], m)
           body(g) == [n \in 0 .. Cardinality(Mutex) |->
             IF n = 0 THEN j
             ELSE LET i == g[n - 1]
                      m == i.lastmtx[t]
                  IN  IF m = NULL THEN i
                      ELSE mutex_release([i EXCEPT !.lastmtx[t] = i.prevmtx[m]], m)]
<1>1. after = CHOOSE g : g = body(g) BY Zenon
<1>2. mutex_release_all(j, t) = after[Cardinality(Mutex)] BY Zenon DEF mutex_release_all
<1> HIDE DEF after
<1>3. \A g : body(g) = run(g) BY Zenon DEF ReleaseLast
<1> HIDE DEF body
<1>4. top \in Nat BY WobjAssumption, FS_CardinalityType
<1>5. mutex_release_all(j, t) = after[top] BY <1>2
<1> HIDE DEF top
<1> DEFINE Good(n, g) == /\ DOMAIN g = 0 .. n /\ g = [i \in 0 .. n |-> g[i]] /\ g[0] = j
                         /\ \A i \in 0 .. n - 1 : g[i + 1] = ReleaseLast(g[i], t)
           P == {n \in Nat : \E g : Good(n, g)}
<1>6. 0 \in P
  <2> DEFINE g == [i \in 0 .. 0 |-> j]
  <2>1. Good(0, g) OBVIOUS
  <2> QED BY <2>1
<1>7. ASSUME NEW n \in 0 .. top - 1, n \in P PROVE n + 1 \in P
  <2>1. PICK g : Good(n, g) BY <1>7
  <2> DEFINE h2 == [i \in 0 .. n + 1 |-> IF i = n + 1 THEN ReleaseLast(g[n], t) ELSE g[i]]
  <2>2. DOMAIN h2 = 0 .. n + 1 /\ h2 = [i \in 0 .. n + 1 |-> h2[i]] /\ h2[0] = j
    BY <2>1
  <2>3. ASSUME NEW i \in 0 .. (n + 1) - 1 PROVE h2[i + 1] = ReleaseLast(h2[i], t)
    <3>1. i \in 0 .. n + 1 /\ i + 1 \in 0 .. n + 1 OBVIOUS
    <3>2. CASE i = n BY <3>1, <3>2
    <3>3. CASE i # n
      <4>1. i \in 0 .. n - 1 /\ i # n + 1 /\ i + 1 # n + 1 BY <3>3
      <4>2. g[i + 1] = ReleaseLast(g[i], t) BY <2>1, <4>1
      <4>3. h2[i] = g[i] /\ h2[i + 1] = g[i + 1] BY <3>1, <4>1
      <4> QED BY <4>2, <4>3
    <3> QED BY <3>2, <3>3
  <2> HIDE DEF h2
  <2>4. Good(n + 1, h2) BY <2>2, <2>3
  <2>5. \E g2 : Good(n + 1, g2) BY <2>4
  <2>6. n + 1 \in Nat OBVIOUS
  <2> HIDE DEF Good
  <2> QED BY <2>5, <2>6
<1> HIDE DEF P
<1>8. top \in P BY <1>4, <1>6, <1>7, Induct
<1>9. PICK g : Good(top, g) BY <1>8 DEF P
<1>10. g = run(g)
  <2>1. ASSUME NEW i \in 0 .. top PROVE g[i] = run(g)[i]
    <3>1. CASE i = 0 BY <3>1, <1>9, <1>4
    <3>2. CASE i # 0
      <4>1. i - 1 \in 0 .. top - 1 /\ (i - 1) + 1 = i BY <3>2, <1>4
      <4>2. g[i] = ReleaseLast(g[i - 1], t) BY <4>1, <1>9
      <4> QED BY <4>2, <3>2
    <3> QED BY <3>1, <3>2
  <2>2. run(g) = [i \in 0 .. top |-> run(g)[i]] OBVIOUS
  <2>3. g = [i \in 0 .. top |-> g[i]] BY <1>9
  <2> HIDE DEF run
  <2> QED BY <2>1, <2>2, <2>3
<1>11. after = run(after) BY <1>1, <1>3, <1>10
<1>12. after[0] = j BY <1>4, <1>11
<1>13. ASSUME NEW i \in 0 .. top - 1 PROVE after[i + 1] = ReleaseLast(after[i], t)
  <2>1. i + 1 \in 0 .. top /\ i + 1 # 0 /\ (i + 1) - 1 = i BY <1>4
  <2>2. run(after)[i + 1] = ReleaseLast(after[i], t) BY <2>1
  <2> HIDE DEF run
  <2> QED BY <2>2, <1>11
<1> QED BY <1>5, <1>12, <1>13 DEF RoundsAll, top

-----------------------------------------------------------------------------
(* A task that does not run is started.                                    *)
LEMMA Activate ==
    ASSUME NEW j, Settled(j), NEW t \in Task, j.tstat[t] = {}, Fine(j, {t}),
           j.tmevtb[t] = NULL
    PROVE  LET n == make_active(j, t) IN
           /\ Settled(n) /\ SameRest(j, n) /\ Runnable(j) \subseteq Runnable(n)
           /\ Fine(n, {}) /\ OneMoved(j, n, t)
<1> DEFINE n == make_active(j, t)
<1>1. j \in KernelState /\ Plain(j) BY DEF Settled, Ready, Core
<1>2. t \notin Runnable(j) BY DEF Runnable
<1>3. /\ Ready(n, Runnable(j) \cup {t}) /\ SameRest(j, n)
      /\ n.tstat = [j.tstat EXCEPT ![t] = {TS_RUNNABLE}]
      /\ n.tmevtb = j.tmevtb /\ n.winfo = [j.winfo EXCEPT ![t] = NULL]
      /\ n.broken = j.broken /\ n.wque = j.wque
      /\ n.wobj = [j.wobj EXCEPT ![t] = NULL] /\ OneMoved(j, n, t)
  BY <1>2, MakeActive DEF Settled
<1> HIDE DEF n
<1>4. Runnable(n) = Runnable(j) \cup {t} BY <1>1, <1>3 DEF Runnable, KernelState
<1>5. Plain(n) BY <1>1, <1>3 DEF Plain, SameRest, TaskStates
<1>6. Settled(n) BY <1>3, <1>4, <1>5 DEF Settled, SameRest
<1>7. n.tstat[t] = {TS_RUNNABLE} BY <1>1, <1>3 DEF KernelState
<1>8. \A u \in Task \ {t} : /\ n.tstat[u] = j.tstat[u] /\ n.winfo[u] = j.winfo[u]
                           /\ n.wobj[u] = j.wobj[u]
  BY <1>1, <1>3 DEF KernelState
<1>9. /\ ~TSTAT_WAITING(n.tstat[t]) /\ TS_WAITING_DLY \notin n.tstat[t]
      /\ ~TSTAT_WAIT_WOBJ(n.tstat[t])
  BY <1>7, NotWaiting
<1>10. NULL # "wait_tmout_ok" BY TaskAssumption DEF CallBack
<1>11. TimedOK(n, t) BY <1>3, <1>9, <1>10 DEF TimedOK
<1>12. ASSUME NEW u \in Task \ {t} PROVE TimedOK(n, u)
  BY <1>3, <1>8 DEF Fine, Timed, TimedOK
<1>13. Timed(n, {}) BY <1>3, <1>11, <1>12 DEF Fine, Timed
<1>14. Waits(n, {}) BY <1>3, <1>8, <1>9, WaitsExcept DEF Fine
<1> QED BY <1>3, <1>4, <1>6, <1>13, <1>14 DEF n, Fine

(* The first half of task_terminate takes the task out of the queues. Its  *)
(* state is set later: what follows looks at the kernel in which it is     *)
(* dormant already.                                                        *)
Detached(j, t) ==
    LET s == j.tstat[t]
    IN  IF TSTAT_RUNNABLE(s) THEN make_non_runnable(j, t)
        ELSE IF TSTAT_WAITING(s) THEN wait_dequeue_tmevtb(wait_dequeue_wobj(j, t), t)
        ELSE j

Dormant(j, t) == [j EXCEPT !.tstat[t] = {}]

LEMMA Detach ==
    ASSUME NEW j, Settled(j), Fine(j, {}), NEW t \in Task, j.dspflg \/ t # j.runtsk
    PROVE  LET k1 == Detached(j, t)
               g == Dormant(k1, t)
           IN  /\ k1 \in KernelState /\ k1.tstat = j.tstat /\ SameRest(j, k1)
               /\ Settled(g) /\ Fine(g, {}) /\ SameRest(j, g)
               /\ Runnable(g) = Runnable(j) \ {t} /\ OneMoved(j, g, t)
               /\ g.tstat[t] = {} /\ g.tmevtb[t] = NULL
<1> DEFINE s  == j.tstat[t]
           k1 == Detached(j, t)
           g  == Dormant(k1, t)
           R  == Runnable(j) \ {t}
<1>1. /\ j \in KernelState /\ Ready(j, Runnable(j)) /\ Plain(j)
      /\ j.dspflg <=> j.enadsp /\ j.ipm = "TIPM_ENAALL"
  BY DEF Settled, Ready, Core
<1>2. /\ Ready(k1, R) /\ SameRest(j, k1) /\ k1.tstat = j.tstat
      /\ Fine(k1, {t}) /\ k1.tmevtb[t] = NULL /\ OneMoved(j, k1, t)
  <2>1. CASE TSTAT_RUNNABLE(s)
    <3>1. t \in Runnable(j) BY <2>1 DEF Runnable, TSTAT_RUNNABLE
    <3>2. /\ Ready(make_non_runnable(j, t), R) /\ Same(j, make_non_runnable(j, t))
          /\ OneMoved(j, make_non_runnable(j, t), t)
      BY <3>1, <1>1, MakeNonRunnable
    <3>3. k1 = make_non_runnable(j, t) BY <2>1 DEF Detached
    <3>4. ~TSTAT_WAITING(s) /\ ~TSTAT_WAIT_WOBJ(s) BY <3>1, RunnableState
    <3>5. j.tmevtb[t] = NULL BY <3>4 DEF Fine, Timed, TimedOK
    <3> HIDE DEF k1
    <3>6. k1.tstat = j.tstat /\ SameWait(j, k1) /\ SameRest(j, k1)
      BY <3>2, <3>3 DEF Same, SameWait, SameRest
    <3>7. Fine(k1, {t}) BY <3>4, <3>6, FineFrame, FineNone
    <3> QED BY <3>2, <3>3, <3>5, <3>6, <3>7 DEF SameWait
  <2>2. CASE ~TSTAT_RUNNABLE(s) /\ TSTAT_WAITING(s)
    <3> DEFINE b == wait_dequeue_wobj(j, t)
    <3>1. R = Runnable(j) BY <2>2 DEF Runnable, TSTAT_RUNNABLE
    <3>2. /\ b \in KernelState
          /\ b.readyq = j.readyq /\ b.primap = j.primap /\ b.schedtsk = j.schedtsk
          /\ b.priority = j.priority /\ b.tstat = j.tstat /\ SameRest(j, b)
          /\ b.winfo = j.winfo /\ b.tmevtb = j.tmevtb /\ b.broken = j.broken
          /\ b.wobj = j.wobj /\ Waits(b, {t})
      BY <1>1, DequeueWobj DEF Fine
    <3>3. k1 = wait_dequeue_tmevtb(b, t) BY <2>2 DEF Detached
    <3> HIDE DEF k1, b
    <3>4. Timed(b, {}) BY <3>2, TimedFrame DEF Fine
    <3>5. TSTAT_WAITING(b.tstat[t]) BY <2>2, <3>2
    <3>6. /\ k1 \in KernelState
          /\ k1.readyq = b.readyq /\ k1.primap = b.primap /\ k1.schedtsk = b.schedtsk
          /\ k1.priority = b.priority /\ k1.tstat = b.tstat /\ SameRest(b, k1)
          /\ Fine(k1, {t}) /\ k1.tmevtb[t] = NULL
      BY <3>2, <3>3, <3>4, <3>5, DequeueTmevtb
    <3>7. /\ k1.readyq = j.readyq /\ k1.primap = j.primap /\ k1.schedtsk = j.schedtsk
          /\ k1.priority = j.priority /\ k1.tstat = j.tstat /\ SameRest(j, k1)
          /\ k1.dspflg = j.dspflg /\ k1.runtsk = j.runtsk
      BY <3>2, <3>6 DEF SameRest
    <3>8. Ready(k1, R) BY <3>1, <3>6, <3>7, <1>1, ReadyFrame
    <3>9. OneMoved(j, k1, t) BY <3>7, NoneMoved
    <3> QED BY <3>6, <3>7, <3>8, <3>9
  <2>3. CASE ~TSTAT_RUNNABLE(s) /\ ~TSTAT_WAITING(s)
    <3>1. R = Runnable(j) BY <2>3 DEF Runnable, TSTAT_RUNNABLE
    <3>2. k1 = j BY <2>3 DEF Detached
    <3>3. j.tmevtb[t] = NULL BY <2>3 DEF Fine, Timed, TimedOK
    <3>4. Fine(j, {t}) BY <2>3, StateOf, States, FineNone
    <3>5. OneMoved(j, k1, t) BY <3>2, NoneMoved
    <3> QED BY <3>1, <3>2, <3>3, <3>4, <3>5, <1>1 DEF SameRest
  <2> QED BY <2>1, <2>2, <2>3
<1> HIDE DEF k1
<1>3. k1 \in KernelState BY <1>2 DEF Ready, Core
<1>4. g \in KernelState
  <2>1. {} \in TStat BY DEF TStat
  <2> QED BY <2>1, <1>3 DEF Dormant, KernelState
<1>5. /\ g.readyq = k1.readyq /\ g.primap = k1.primap /\ g.schedtsk = k1.schedtsk
      /\ g.priority = k1.priority /\ g.dspflg = k1.dspflg /\ g.runtsk = k1.runtsk
      /\ g.tstat = [k1.tstat EXCEPT ![t] = {}] /\ SameRest(k1, g) /\ SameWait(k1, g)
  BY <1>3 DEF Dormant, KernelState, SameRest, SameWait
<1> HIDE DEF g
<1>6. SameRest(j, g) BY <1>2, <1>5 DEF SameRest
<1>7. g.tstat[t] = {} /\ \A u \in Task \ {t} : g.tstat[u] = k1.tstat[u]
  BY <1>3, <1>5 DEF KernelState
<1>8. Runnable(g) = R BY <1>2, <1>7 DEF Runnable
<1>9. Settled(g)
  <2>1. Ready(g, R) BY <1>2, <1>4, <1>5, ReadyFrame
  <2>2. Plain(g) BY <1>1, <1>2, <1>5 DEF Plain, TaskStates
  <2> QED BY <2>1, <2>2, <1>1, <1>6, <1>8 DEF Settled, SameRest
<1>10. g.tmevtb[t] = NULL BY <1>2, <1>5 DEF SameWait
<1>11. Fine(g, {})
  <2>1. /\ ~TSTAT_WAITING(g.tstat[t]) /\ TS_WAITING_DLY \notin g.tstat[t]
        /\ ~TSTAT_WAIT_WOBJ(g.tstat[t])
    BY <1>7, NotWaiting
  <2>2. NULL # "wait_tmout_ok" BY TaskAssumption DEF CallBack
  <2>3. TimedOK(g, t) BY <2>1, <2>2, <1>10 DEF TimedOK
  <2>4. \A u \in Task \ {t} : TimedOK(g, u)
    BY <1>2, <1>5, <1>7 DEF Fine, Timed, TimedOK, SameWait
  <2>5. Timed(g, {}) BY <2>3, <2>4, <1>2, <1>5 DEF Fine, Timed, SameWait
  <2>6. Waits(g, {}) BY <2>1, <1>2, <1>5, <1>7, WaitsExcept DEF Fine, SameWait
  <2> QED BY <2>5, <2>6 DEF Fine
<1>12. OneMoved(j, g, t) BY <1>2, <1>5 DEF OneMoved
<1> QED BY <1>2, <1>3, <1>6, <1>7, <1>8, <1>9, <1>10, <1>11, <1>12 DEF k1, g

(* What mutex_release does to the others it does whether t is dormant      *)
(* already or not: t waits for nothing any more.                           *)
LEMMA DormantFields ==
    ASSUME NEW x, x \in KernelState, NEW t \in Task
    PROVE  LET g == Dormant(x, t) IN
           /\ g \in KernelState /\ g.priority = x.priority /\ g.winfo = x.winfo
           /\ g.tmevtb = x.tmevtb /\ g.lastmtx = x.lastmtx /\ g.prevmtx = x.prevmtx
           /\ g.wque = x.wque /\ g.loctsk = x.loctsk /\ g.dspflg = x.dspflg
           /\ g.readyq = x.readyq /\ g.primap = x.primap /\ g.schedtsk = x.schedtsk
           /\ g.broken = x.broken
           /\ g.tstat[t] = {} /\ \A u \in Task \ {t} : g.tstat[u] = x.tstat[u]
<1>1. {} \in TStat BY DEF TStat
<1> QED BY <1>1 DEF Dormant, KernelState

LEMMA DormantRunnable ==
    ASSUME NEW x, x \in KernelState, NEW t \in Task, NEW u \in Task \ {t}
    PROVE  make_runnable(Dormant(x, t), u) = Dormant(make_runnable(x, u), t)
<1> DEFINE g == Dormant(x, t)
<1>1. /\ g.priority = x.priority /\ g.dspflg = x.dspflg /\ g.schedtsk = x.schedtsk
      /\ g.readyq = x.readyq /\ g.primap = x.primap
  BY DormantFields
<1> QED BY <1>1 DEF make_runnable, Dormant, KernelState

LEMMA NonWaitType ==
    ASSUME NEW x, x \in KernelState, NEW u \in Task
    PROVE  make_non_wait(x, u) \in KernelState
<1> DEFINE c == Check(x, TSTAT_WAITING(x.tstat[u]), "make_non_wait")
<1>1. c \in KernelState BY DEF Check, KernelState, Asserting
<1> HIDE DEF c
<1>2. {TS_RUNNABLE} \in TStat /\ {TS_SUSPENDED} \in TStat BY DEF TStat
<1>3. ASSUME NEW s \in TStat PROVE [c EXCEPT !.tstat[u] = s] \in KernelState
  BY <1>1 DEF KernelState
<1>4. ASSUME NEW y \in KernelState PROVE make_runnable(y, u) \in KernelState
  <2>1. y.priority[u] \in Pri BY DEF KernelState
  <2>2. Append(y.readyq[y.priority[u]], u) \in Seq(Task) BY <2>1 DEF KernelState
  <2> QED BY <2>1, <2>2 DEF make_runnable, queue_insert_prev, KernelState
<1> QED BY <1>2, <1>3, <1>4 DEF make_non_wait, c

LEMMA DormantNonWait ==
    ASSUME NEW x, x \in KernelState, NEW t \in Task, NEW u \in Task \ {t}
    PROVE  make_non_wait(Dormant(x, t), u) = Dormant(make_non_wait(x, u), t)
<1> DEFINE g == Dormant(x, t)
           c(y) == Check(y, TSTAT_WAITING(y.tstat[u]), "make_non_wait")
           d(y, s) == [c(y) EXCEPT !.tstat[u] = s]
<1>1. g.tstat[u] = x.tstat[u] /\ g.broken = x.broken BY DormantFields
<1>2. c(g) = Dormant(c(x), t) BY <1>1 DEF Check, Dormant, KernelState
<1>3. c(x) \in KernelState BY DEF Check, KernelState, Asserting
<1> HIDE DEF c, g
<1>4. ASSUME NEW s \in TStat
      PROVE  d(g, s) = Dormant(d(x, s), t) /\ d(x, s) \in KernelState
  <2> DEFINE y == c(x)
  <2>1. d(x, s) = [y EXCEPT !.tstat[u] = s] OBVIOUS
  <2>2. d(g, s) = [Dormant(y, t) EXCEPT !.tstat[u] = s] BY <1>2
  <2>3. y \in KernelState BY <1>3
  <2> HIDE DEF y, d
  <2>4. d(x, s) \in KernelState
    <3>1. u \in Task OBVIOUS
    <3>2. [y EXCEPT !.tstat[u] = s] \in KernelState
      BY ONLY <2>3, <3>1, s \in TStat DEF KernelState
    <3> QED BY <3>2, <2>1
  <2>5. [Dormant(y, t) EXCEPT !.tstat[u] = s] = Dormant([y EXCEPT !.tstat[u] = s], t)
    <3>1. y.tstat \in [Task -> TStat] /\ "tstat" \in DOMAIN y BY <2>3 DEF KernelState
    <3> DEFINE f == [[y.tstat EXCEPT ![t] = {}] EXCEPT ![u] = s]
    <3>2. f = [[y.tstat EXCEPT ![u] = s] EXCEPT ![t] = {}] BY <3>1
    <3>3. [Dormant(y, t) EXCEPT !.tstat[u] = s] = [y EXCEPT !.tstat = f] BY <3>1 DEF Dormant
    <3>4. Dormant([y EXCEPT !.tstat[u] = s], t)
            = [y EXCEPT !.tstat = [[y.tstat EXCEPT ![u] = s] EXCEPT ![t] = {}]]
      BY <3>1 DEF Dormant
    <3> QED BY <3>2, <3>3, <3>4
  <2> QED BY <2>1, <2>2, <2>4, <2>5
<1>5. {TS_RUNNABLE} \in TStat /\ {TS_SUSPENDED} \in TStat BY DEF TStat
<1>6. \A y : make_non_wait(y, u) = IF ~TSTAT_SUSPENDED(y.tstat[u])
                                   THEN make_runnable(d(y, {TS_RUNNABLE}), u)
                                   ELSE d(y, {TS_SUSPENDED})
  BY DEF make_non_wait, c
<1> HIDE DEF d
<1>7. make_runnable(d(g, {TS_RUNNABLE}), u) = Dormant(make_runnable(d(x, {TS_RUNNABLE}), u), t)
  BY <1>4, <1>5, DormantRunnable
<1> QED BY <1>1, <1>4, <1>5, <1>6, <1>7 DEF g

LEMMA DormantRelease ==
    ASSUME NEW j, j \in KernelState, NEW t \in Task, NEW m \in Mutex,
           j.wque[m] # << >> => Head(j.wque[m]) \in Task \ {t} /\ Tail(j.wque[m]) \in Seq(Task)
    PROVE  /\ mutex_release(Dormant(j, t), m) = Dormant(mutex_release(j, m), t)
           /\ mutex_release(j, m) \in KernelState
<1> DEFINE g == Dormant(j, t)
<1>1. m \in Wobj /\ NULL \in Task \cup {NULL} BY WobjAssumption
<1>2. g.wque = j.wque BY DormantFields
<1>3. CASE j.wque[m] = << >>
  <2>1. \A y : y.wque = j.wque => mutex_release(y, m) = [y EXCEPT !.loctsk[m] = NULL]
    BY <1>3 DEF mutex_release, queue_empty
  <2>2. mutex_release(g, m) = [g EXCEPT !.loctsk[m] = NULL] BY <2>1, <1>2
  <2>3. mutex_release(j, m) = [j EXCEPT !.loctsk[m] = NULL] BY <2>1
  <2>4. mutex_release(j, m) \in KernelState
    <3>1. [j EXCEPT !.loctsk[m] = NULL] \in KernelState
      BY ONLY j \in KernelState, m \in Mutex DEF KernelState
    <3> QED BY <3>1, <2>3
  <2> QED BY <2>2, <2>3, <2>4 DEF Dormant, KernelState
<1>4. CASE j.wque[m] # << >>
  <2> DEFINE u == Head(j.wque[m])
             q == Tail(j.wque[m])
             a(x) == [x EXCEPT !.wque[m] = q]
             b(x) == wait_dequeue_tmevtb(a(x), u)
             c(x) == set_wercd(b(x), u, E_OK)
             d(x) == chain_push(c(x), u, m)
             e(x) == IF MTX_CEILING(m) /\ ceilpri[m] < d(x).priority[u]
                     THEN [d(x) EXCEPT !.priority[u] = ceilpri[m]] ELSE d(x)
  <2>1. \A y : y.wque = j.wque => mutex_release(y, m) = make_non_wait(e(y), u)
    BY <1>4 DEF mutex_release, queue_empty
  <2>2. u \in Task \ {t} /\ q \in Seq(Task) BY <1>4
  <2> HIDE DEF u, q
  <2>3. a(g) = Dormant(a(j), t) /\ a(j) \in KernelState
    BY <1>1, <2>2 DEF Dormant, KernelState
  <2> HIDE DEF a
  <2>4. b(g) = Dormant(b(j), t) /\ b(j) \in KernelState
    <3>1. /\ a(g).winfo = a(j).winfo /\ a(g).tmevtb = a(j).tmevtb
          /\ a(g).broken = a(j).broken
      BY <2>3, DormantFields
    <3>2. NULL \in CallBack \cup {NULL} OBVIOUS
    <3>3. b(j) \in KernelState
      BY <2>2, <2>3, <3>2 DEF wait_dequeue_tmevtb, tmevtb_dequeue, Check, KernelState, Asserting
    <3>4. b(g) = Dormant(b(j), t)
      BY <2>2, <2>3, <3>1, ZenonT(60) DEF wait_dequeue_tmevtb, tmevtb_dequeue, Check, Dormant, KernelState
    <3> QED BY <3>3, <3>4
  <2> HIDE DEF b
  <2>5. c(g) = Dormant(c(j), t) /\ c(j) \in KernelState
    <3>1. E_OK \in WInfo BY DEF WInfo, WaitErcd
    <3> QED BY <2>2, <2>4, <3>1 DEF set_wercd, Dormant, KernelState
  <2> HIDE DEF c
  <2>6. d(g) = Dormant(d(j), t) /\ d(j) \in KernelState
    <3>1. c(g).lastmtx = c(j).lastmtx BY <2>5, DormantFields
    <3>2. d(j) \in KernelState BY <2>2, <2>5 DEF chain_push, KernelState
    <3>3. d(g) = Dormant(d(j), t) BY <2>2, <2>5, <3>1 DEF chain_push, Dormant, KernelState
    <3> QED BY <3>2, <3>3
  <2> HIDE DEF d
  <2>7. e(g) = Dormant(e(j), t) /\ e(j) \in KernelState
    <3>1. MTX_CEILING(m) => ceilpri[m] \in Pri BY WobjAssumption DEF MTX_CEILING
    <3>2. d(g).priority = d(j).priority BY <2>6, DormantFields
    <3>3. e(j) \in KernelState BY <2>2, <2>6, <3>1 DEF KernelState
    <3>4. e(g) = Dormant(e(j), t) BY <2>2, <2>6, <3>2 DEF Dormant, KernelState
    <3> QED BY <3>3, <3>4
  <2> HIDE DEF e
  <2>8. mutex_release(g, m) = make_non_wait(e(g), u) BY <2>1, <1>2
  <2>9. mutex_release(j, m) = make_non_wait(e(j), u) BY <2>1
  <2>10. make_non_wait(e(g), u) = Dormant(make_non_wait(e(j), u), t)
    BY <2>2, <2>7, DormantNonWait
  <2>11. make_non_wait(e(j), u) \in KernelState BY <2>2, <2>7, NonWaitType
  <2> QED BY <2>8, <2>9, <2>10, <2>11
<1> QED BY <1>3, <1>4

(* ... so giving back all its mutexes leaves the kernel in order.          *)
LEMMA ReleaseAllSettled ==
    ASSUME NEW j, j \in KernelState, NEW t \in Task,
           Settled(Dormant(j, t)), Fine(Dormant(j, t), {}), j.tmevtb[t] = NULL
    PROVE  LET g == Dormant(j, t)
               n == Dormant(mutex_release_all(j, t), t)
           IN  /\ mutex_release_all(j, t) \in KernelState
               /\ Settled(n) /\ Fine(n, {}) /\ SameMode(g, n)
               /\ n.raster = g.raster /\ n.enater = g.enater
               /\ Runnable(g) \subseteq Runnable(n) /\ n.tstat[t] = {}
<1> DEFINE g == Dormant(j, t)
           Good(i) == /\ i \in KernelState
                      /\ Settled(Dormant(i, t)) /\ Fine(Dormant(i, t), {})
                      /\ SameMode(g, Dormant(i, t))
                      /\ Dormant(i, t).raster = g.raster /\ Dormant(i, t).enater = g.enater
                      /\ Runnable(g) \subseteq Runnable(Dormant(i, t))
           top == Cardinality(Mutex)
<1>1. top \in Nat BY WobjAssumption, FS_CardinalityType
<1>2. PICK r : RoundsAll(r, j, t) BY RoundsAllExist
<1>3. Good(j) BY DEF SameMode
<1>4. ASSUME NEW i, Good(i) PROVE Good(ReleaseLast(i, t))
  <2> DEFINE h == Dormant(i, t)
             n == ReleaseLast(i, t)
             m == i.lastmtx[t]
             b == [i EXCEPT !.lastmtx[t] = i.prevmtx[m]]
  <2>1. i \in KernelState /\ Settled(h) /\ Fine(h, {}) BY <1>4
  <2>2. /\ h \in KernelState /\ h.wque = i.wque /\ h.lastmtx = i.lastmtx
        /\ h.prevmtx = i.prevmtx /\ h.tstat[t] = {}
    BY <2>1, DormantFields
  <2>3. CASE m = NULL
    <3>1. n = i BY <2>3 DEF ReleaseLast
    <3> QED BY <3>1, <1>4
  <2>4. CASE m # NULL
    <3>1. m \in Mutex /\ m \in Wobj BY <2>1, <2>4, WobjAssumption DEF KernelState
    <3>2. n = mutex_release(b, m) /\ ReleaseLast(h, t)
            = mutex_release([h EXCEPT !.lastmtx[t] = h.prevmtx[m]], m)
      BY <2>2, <2>4 DEF ReleaseLast
    <3>3. b \in KernelState
      <4>1. i.prevmtx[m] \in Mutex \cup {NULL} BY <2>1, <3>1 DEF KernelState
      <4> DEFINE v == i.prevmtx[m]
      <4> HIDE DEF v
      <4>2. [i EXCEPT !.lastmtx[t] = v] \in KernelState
        BY ONLY <4>1, <2>1, t \in Task DEF KernelState, v
      <4> QED BY <4>2 DEF v
    <3>4. [h EXCEPT !.lastmtx[t] = h.prevmtx[m]] = Dormant(b, t) /\ b.wque = i.wque
      BY <2>1, <2>2 DEF Dormant, KernelState
    <3>5. i.wque[m] # << >> => Head(i.wque[m]) \in Task \ {t} /\ Tail(i.wque[m]) \in Seq(Task)
      <4> SUFFICES ASSUME i.wque[m] # << >>
                   PROVE  Head(i.wque[m]) \in Task \ {t} /\ Tail(i.wque[m]) \in Seq(Task)
        OBVIOUS
      <4>1. i.wque[m] \in Seq(Task) BY <2>1, <3>1 DEF KernelState
      <4>2. /\ 1 \in 1 .. Len(i.wque[m]) /\ Head(i.wque[m]) = i.wque[m][1]
            /\ i.wque[m][1] \in Task /\ Tail(i.wque[m]) \in Seq(Task)
        BY <4>1
      <4>3. Linked(h.wque[m], Head(i.wque[m])) BY <4>2, <2>2 DEF Linked
      <4>4. ~TSTAT_WAIT_WOBJ(h.tstat[t]) BY <2>2, NotWaiting
      <4>5. ~Linked(h.wque[m], t) BY <4>4, <2>1, <3>1 DEF Fine, Waits
      <4> QED BY <4>2, <4>3, <4>5
    <3> HIDE DEF b, h, m, n
    <3>6. ReleaseLast(h, t) = Dormant(n, t)
      BY <3>1, <3>2, <3>3, <3>4, <3>5, DormantRelease
    <3>7. /\ Settled(ReleaseLast(h, t)) /\ Fine(ReleaseLast(h, t), {})
          /\ SameMode(h, ReleaseLast(h, t))
          /\ ReleaseLast(h, t).raster = h.raster /\ ReleaseLast(h, t).enater = h.enater
          /\ Runnable(h) \subseteq Runnable(ReleaseLast(h, t))
      BY <2>1, ReleaseLastSettled
    <3>8. n \in KernelState BY <3>1, <3>2, <3>3, <3>4, <3>5, DormantRelease
    <3> QED BY <1>4, <3>6, <3>7, <3>8 DEF SameMode, n, h
  <2> QED BY <2>3, <2>4
<1> DEFINE P == {i \in Nat : Good(r[i])}
<1> HIDE DEF Good
<1>5. 0 \in P BY <1>2, <1>3 DEF RoundsAll
<1>6. ASSUME NEW i \in 0 .. top - 1, i \in P PROVE i + 1 \in P
  <2>1. r[i + 1] = ReleaseLast(r[i], t) BY <1>2 DEF RoundsAll
  <2>2. Good(r[i]) /\ i + 1 \in Nat BY <1>6
  <2> QED BY <2>1, <2>2, <1>4
<1>7. top \in P
  <2> HIDE DEF P
  <2>1. \A i \in 0 .. top : i \in P BY <1>1, <1>5, <1>6, Induct
  <2>2. top \in 0 .. top BY <1>1
  <2> QED BY <2>1, <2>2
<1>8. Good(mutex_release_all(j, t)) BY <1>7, <1>2 DEF RoundsAll
<1> QED BY <1>8, DormantFields DEF Good

(* task_terminate ends a task, and may start it again.                     *)
LEMMA Terminate ==
    ASSUME NEW j, Settled(j), Fine(j, {}), NEW t \in Task, j.dspflg \/ t # j.runtsk
    PROVE  LET n == task_terminate(j, t) IN
           /\ Settled(n) /\ SameMode(j, n) /\ Fine(n, {})
           /\ n.raster = [j.raster EXCEPT ![t] = FALSE]
           /\ Runnable(j) \ {t} \subseteq Runnable(n)
           /\ \A u \in Task \ {t} : n.enater[u] = j.enater[u]
           /\ j.lastmtx[t] = NULL => OneMoved(j, n, t) /\ n.lastmtx = j.lastmtx
<1> DEFINE k1 == Detached(j, t)
           k2 == IF k1.lastmtx[t] # NULL THEN mutex_release_all(k1, t) ELSE k1
           g1 == Dormant(k1, t)
           g2 == Dormant(k2, t)
           k3 == activate_context(make_dormant(k2, t), t)
           k4 == [k3 EXCEPT !.actque[t] = FALSE]
           R  == Runnable(g2)
<1>1. /\ k1 \in KernelState /\ k1.tstat = j.tstat /\ SameRest(j, k1)
      /\ Settled(g1) /\ Fine(g1, {}) /\ SameRest(j, g1)
      /\ Runnable(g1) = Runnable(j) \ {t} /\ OneMoved(j, g1, t)
      /\ g1.tstat[t] = {} /\ g1.tmevtb[t] = NULL
  BY Detach
<1>a. task_terminate(j, t) = IF k3.actque[t] THEN make_active(k4, t) ELSE k3
  BY DEF task_terminate, Detached
<1> HIDE DEF k1
<1>b. k1.lastmtx = j.lastmtx BY <1>1 DEF SameRest
<1>2. /\ Settled(g2) /\ Fine(g2, {}) /\ SameMode(j, g2) /\ g2.tstat[t] = {}
      /\ g2.raster = j.raster /\ g2.enater = j.enater
      /\ Runnable(j) \ {t} \subseteq Runnable(g2)
      /\ j.lastmtx[t] = NULL => OneMoved(j, g2, t) /\ g2.lastmtx = j.lastmtx
  <2>1. CASE k1.lastmtx[t] = NULL
    <3>1. g2 = g1 BY <2>1
    <3> HIDE DEF g1, g2, k2
    <3> QED BY <3>1, <1>1 DEF SameRest, SameMode
  <2>2. CASE k1.lastmtx[t] # NULL
    <3>1. k2 = mutex_release_all(k1, t) BY <2>2
    <3>2. k1.tmevtb[t] = NULL BY <1>1, DormantFields
    <3> HIDE DEF k2
    <3>3. /\ Settled(g2) /\ Fine(g2, {}) /\ SameMode(g1, g2)
          /\ g2.raster = g1.raster /\ g2.enater = g1.enater
          /\ Runnable(g1) \subseteq Runnable(g2) /\ g2.tstat[t] = {}
      BY <3>1, <3>2, <1>1, ReleaseAllSettled
    <3> HIDE DEF g1, g2
    <3> QED BY <2>2, <3>3, <1>1, <1>b DEF SameRest, SameMode
  <2> QED BY <2>1, <2>2
<1>3. g2 \in KernelState /\ Ready(g2, R) /\ g2.tmevtb[t] = NULL
  <2>1. ~TSTAT_WAITING(g2.tstat[t]) BY <1>2, NotWaiting
  <2>2. g2.tmevtb[t] = NULL BY <1>2, <2>1 DEF Fine, Timed, TimedOK
  <2> HIDE DEF g2
  <2> QED BY <1>2, <2>2 DEF Settled, Ready, Core
<1>4. k3 = [k2 EXCEPT !.tstat[t] = {}, !.bpriority[t] = ipriority[t],
                      !.priority[t] = ipriority[t], !.wupque[t] = FALSE,
                      !.raster[t] = FALSE, !.enater[t] = TRUE,
                      !.winfo[t] = NULL, !.wobj[t] = NULL]
  BY DEF activate_context, make_dormant
<1>c. k2 \in KernelState BY <1>1, ReleaseAllSettled, DormantFields
<1> HIDE DEF k2, k3, g1
<1>5. /\ task_terminate(j, t) = IF k3.actque[t] THEN make_active(k4, t) ELSE k3
  BY <1>a
<1>6. k3 \in KernelState
  <2>1. ipriority[t] \in Pri /\ {} \in TStat /\ NULL \in WInfo
    BY TaskAssumption DEF TStat, WInfo, WaitErcd, E_OK
  <2> DEFINE c == [k2 EXCEPT !.tstat[t] = {}, !.bpriority[t] = ipriority[t]]
             d == [c EXCEPT !.priority[t] = ipriority[t], !.wupque[t] = FALSE]
             e == [d EXCEPT !.raster[t] = FALSE, !.enater[t] = TRUE]
  <2>2. c \in KernelState BY <2>1, <1>c, ZenonT(60) DEF KernelState
  <2> HIDE DEF c
  <2>3. d \in KernelState BY <2>1, <2>2, ZenonT(60) DEF KernelState
  <2> HIDE DEF d
  <2>4. e \in KernelState BY <2>3 DEF KernelState
  <2> HIDE DEF e
  <2>5. k3 = [e EXCEPT !.winfo[t] = NULL, !.wobj[t] = NULL] BY <1>4 DEF c, d, e
  <2> QED BY <2>1, <2>4, <2>5 DEF KernelState
<1>7. /\ k3.readyq = g2.readyq /\ k3.primap = g2.primap /\ k3.schedtsk = g2.schedtsk
      /\ k3.dspflg = g2.dspflg /\ k3.runtsk = g2.runtsk
      /\ k3.priority = [g2.priority EXCEPT ![t] = ipriority[t]]
      /\ k3.tstat = g2.tstat /\ SameSys(g2, k3)
      /\ k3.tmevtb = g2.tmevtb /\ k3.winfo = [g2.winfo EXCEPT ![t] = NULL]
      /\ k3.broken = g2.broken /\ k3.wque = g2.wque
      /\ k3.wobj = [g2.wobj EXCEPT ![t] = NULL]
      /\ k3.raster = [g2.raster EXCEPT ![t] = FALSE]
      /\ k3.enater = [g2.enater EXCEPT ![t] = TRUE]
  <2>1. /\ k2.readyq = g2.readyq /\ k2.primap = g2.primap /\ k2.schedtsk = g2.schedtsk
        /\ k2.dspflg = g2.dspflg /\ k2.runtsk = g2.runtsk /\ k2.priority = g2.priority
        /\ [k2.tstat EXCEPT ![t] = {}] = g2.tstat /\ SameSys(k2, g2)
        /\ k2.tmevtb = g2.tmevtb /\ k2.winfo = g2.winfo /\ k2.broken = g2.broken
        /\ k2.wque = g2.wque /\ k2.wobj = g2.wobj /\ k2.raster = g2.raster
        /\ k2.enater = g2.enater
    BY <1>c DEF Dormant, KernelState, SameSys
  <2>2. /\ k3.readyq = k2.readyq /\ k3.primap = k2.primap /\ k3.schedtsk = k2.schedtsk
        /\ k3.dspflg = k2.dspflg /\ k3.runtsk = k2.runtsk
        /\ k3.priority = [k2.priority EXCEPT ![t] = ipriority[t]]
        /\ k3.tstat = [k2.tstat EXCEPT ![t] = {}] /\ SameSys(k2, k3)
        /\ k3.tmevtb = k2.tmevtb /\ k3.winfo = [k2.winfo EXCEPT ![t] = NULL]
        /\ k3.broken = k2.broken /\ k3.wque = k2.wque
        /\ k3.wobj = [k2.wobj EXCEPT ![t] = NULL]
        /\ k3.raster = [k2.raster EXCEPT ![t] = FALSE]
        /\ k3.enater = [k2.enater EXCEPT ![t] = TRUE]
    BY <1>4, <1>c DEF KernelState, SameSys
  <2> HIDE DEF g2
  <2>3. SameSys(g2, k3) BY <2>1, <2>2 DEF SameSys
  <2> QED BY <2>1, <2>2, <2>3
<1> HIDE DEF g2
<1>8. Ready(k3, R)
  <2>1. \A u \in R : u # t /\ u \in Task BY <1>2 DEF Runnable
  <2>2. \A u \in R : k3.priority[u] = g2.priority[u]
    BY <2>1, <1>3, <1>7 DEF KernelState
  <2> QED BY <2>2, <1>3, <1>6, <1>7, ReadyFrame
<1>9. Runnable(k3) = R BY <1>2, <1>3, <1>7 DEF Runnable, KernelState
<1>10. /\ SameMode(j, k3) /\ k3.raster = [j.raster EXCEPT ![t] = FALSE]
       /\ \A u \in Task \ {t} : k3.enater[u] = j.enater[u]
  <2>1. SameMode(j, k3) BY <1>2, <1>7 DEF SameMode, SameSys
  <2>2. \A u \in Task \ {t} : k3.enater[u] = g2.enater[u] BY <1>3, <1>7 DEF KernelState
  <2> QED BY <2>1, <2>2, <1>2, <1>7
<1>11. Plain(k3) BY <1>2, <1>7 DEF Settled, Plain, TaskStates
<1>12. Settled(k3)
  <2>1. k3.dspflg <=> k3.enadsp /\ k3.ipm = "TIPM_ENAALL"
    BY <1>2, <1>7 DEF Settled, SameSys
  <2> QED BY <2>1, <1>8, <1>9, <1>11 DEF Settled
<1>13. Fine(k3, {t}) /\ k3.tmevtb[t] = NULL /\ k3.tstat[t] = {}
  <2>1. \A u \in Task \ {t} : /\ k3.tstat[u] = g2.tstat[u] /\ k3.winfo[u] = g2.winfo[u]
                             /\ k3.wobj[u] = g2.wobj[u]
    BY <1>3, <1>7 DEF KernelState
  <2>2. k3.tstat[t] = {} BY <1>2, <1>7
  <2>3. Timed(k3, {t})
    <3>1. Timed(g2, {t}) BY <1>2 DEF Fine, Timed
    <3>2. \A u \in Task \ {t} : /\ k3.tstat[u] = g2.tstat[u] /\ k3.winfo[u] = g2.winfo[u]
                               /\ k3.tmevtb[u] = g2.tmevtb[u]
      BY <2>1, <1>7
    <3> QED BY <3>1, <3>2, <1>7, TimedFrame
  <2>4. Waits(k3, {t})
    <3>1. Waits(g2, {t})
      <4>1. ~TSTAT_WAIT_WOBJ(g2.tstat[t]) BY <1>2, NotWaiting
      <4> QED BY <4>1, <1>2, WaitsNone DEF Fine
    <3>2. \A u \in Task \ {t} : k3.tstat[u] = g2.tstat[u] /\ k3.wobj[u] = g2.wobj[u]
      BY <2>1
    <3>3. k3.wque = g2.wque BY <1>7
    <3> QED BY <3>1, <3>2, <3>3, WaitsFrame, Zenon
  <2> QED BY <2>2, <2>3, <2>4, <1>3, <1>7 DEF Fine
<1>14. j.lastmtx[t] = NULL => OneMoved(j, k3, t) /\ k3.lastmtx = j.lastmtx
  BY <1>2, <1>7 DEF OneMoved, SameSys
<1>15. CASE k3.actque[t]
  <2>1. k4 \in KernelState BY <1>6 DEF KernelState
  <2>2. /\ k4.readyq = k3.readyq /\ k4.primap = k3.primap /\ k4.schedtsk = k3.schedtsk
        /\ k4.priority = k3.priority /\ k4.tstat = k3.tstat /\ SameRest(k3, k4)
        /\ SameWait(k3, k4)
    BY <1>6 DEF KernelState, SameRest, SameWait
  <2> HIDE DEF k4
  <2>3. Settled(k4) /\ Runnable(k4) = Runnable(k3)
    BY <2>1, <2>2, <1>12, SettledFrame, SameRestSys
  <2>4. Fine(k4, {t}) /\ k4.tmevtb[t] = NULL /\ k4.tstat[t] = {}
    BY <2>2, <1>13, FineFrame DEF SameWait
  <2> DEFINE n == make_active(k4, t)
  <2>5. /\ Settled(n) /\ SameRest(k4, n) /\ Fine(n, {})
        /\ Runnable(k4) \subseteq Runnable(n) /\ OneMoved(k4, n, t)
    BY <2>3, <2>4, Activate
  <2> HIDE DEF n
  <2>6. /\ SameMode(j, n) /\ n.raster = [j.raster EXCEPT ![t] = FALSE]
        /\ \A u \in Task \ {t} : n.enater[u] = j.enater[u]
    BY <2>2, <2>5, <1>10 DEF SameRest, SameMode
  <2>7. j.lastmtx[t] = NULL => OneMoved(j, n, t) /\ n.lastmtx = j.lastmtx
    <3>1. OneMoved(k3, k4, t) BY <2>2, NoneMoved
    <3>2. n.lastmtx = k3.lastmtx BY <2>2, <2>5 DEF SameRest
    <3> QED BY <3>1, <3>2, <2>5, <1>14, OneMovedAgain
  <2> QED BY <2>3, <2>5, <2>6, <2>7, <1>2, <1>5, <1>9, <1>15 DEF n
<1>16. CASE ~k3.actque[t]
  <2>1. /\ ~TSTAT_WAITING(k3.tstat[t]) /\ TS_WAITING_DLY \notin k3.tstat[t]
        /\ ~TSTAT_WAIT_WOBJ(k3.tstat[t])
    BY <1>13, NotWaiting
  <2>2. NULL # "wait_tmout_ok" BY TaskAssumption DEF CallBack
  <2>3. Fine(k3, {}) BY <2>1, <2>2, <1>13, WaitsNone DEF Fine, Timed, TimedOK
  <2> QED BY <2>3, <1>2, <1>5, <1>9, <1>10, <1>12, <1>14, <1>16
<1> QED BY <1>15, <1>16

(* The requests after task_terminate: t's own is gone.                     *)
LEMMA TerminateAsked ==
    ASSUME NEW j, NEW t \in Task, NEW n, j \in KernelState, Asked(j, {t}), SameMode(j, n),
           n.raster = [j.raster EXCEPT ![t] = FALSE],
           Runnable(j) \ {t} \subseteq Runnable(n),
           \A u \in Task \ {t} : n.enater[u] = j.enater[u]
    PROVE  Asked(n, {})
<1>1. ~n.raster[t] /\ \A u \in Task \ {t} : n.raster[u] = j.raster[u] BY DEF KernelState
<1>2. n.runtsk = j.runtsk /\ n.dspflg = j.dspflg BY DEF SameMode
<1> QED BY <1>1, <1>2 DEF Asked

(* make_wait and make_wait_tmout block the running task; a delay is what   *)
(* wait_tmout_ok ends. If it waits for an object, it has to join a queue   *)
(* yet.                                                                    *)
LEMMA MakeWait ==
    ASSUME NEW j, Settled(j), Fine(j, {}), j.dspflg, j.runtsk \in Runnable(j),
           NEW factor \in WaitFactor, NEW callback \in CallBack,
           callback = "wait_tmout_ok" <=> factor = TS_WAITING_DLY
    PROVE  LET w == [j EXCEPT !.tstat[j.runtsk] = {factor}]
               m == make_wait(w)
               o == make_wait_tmout(w, callback)
           IN  /\ factor # TS_WAITING_DLY => Timed(m, {})
               /\ Settled(m) /\ SameRest(j, m) /\ Waits(m, {j.runtsk})
               /\ Settled(o) /\ SameRest(j, o) /\ Timed(o, {}) /\ Waits(o, {j.runtsk})
               /\ m.tstat = w.tstat /\ o.tstat = w.tstat
               /\ m.wobj = j.wobj /\ o.wobj = j.wobj
               /\ m.wque = j.wque /\ o.wque = j.wque
               /\ OneMoved(j, m, j.runtsk) /\ OneMoved(j, o, j.runtsk)
<1> DEFINE t == j.runtsk
           w == [j EXCEPT !.tstat[t] = {factor}]
           b == make_non_runnable(w, t)
           m == make_wait(w)
           c == [b EXCEPT !.winfo[t] = PTMEVTB]
           o == make_wait_tmout(w, callback)
<1>1. {factor} \in TaskStates /\ TS_RUNNABLE \notin {factor} BY Factors DEF TaskStates
<1>2. /\ Settled(b) /\ SameRest(j, b) /\ SameWait(j, b)
      /\ b.tstat = [j.tstat EXCEPT ![t] = {factor}] /\ OneMoved(j, b, t)
  BY <1>1, BlockTask, ZenonT(60)
<1>3. b \in KernelState /\ t \in Task /\ j \in KernelState
  BY <1>2 DEF Settled, Ready, Core, Runnable
<1>4. w.runtsk = t BY <1>3 DEF KernelState
<1>5. m = [b EXCEPT !.winfo[t] = NULL] BY <1>4 DEF make_wait
<1>6. o = tmevtb_enqueue(c, t, callback) BY <1>4 DEF make_wait_tmout
<1> HIDE DEF b, m, c, o, w
<1>7. j.tmevtb[t] = NULL /\ Waits(j, {t})
  <2>1. ~TSTAT_WAITING(j.tstat[t]) /\ ~TSTAT_WAIT_WOBJ(j.tstat[t]) BY RunnableState
  <2> HIDE DEF t
  <2> QED BY <2>1, <1>3, WaitsNone DEF Fine, Timed, TimedOK
<1> HIDE DEF t
<1>8. /\ b.tstat[t] = {factor}
      /\ \A u \in Task \ {t} : b.tstat[u] = j.tstat[u]
  <2>1. j.tstat \in [Task -> TStat] BY <1>3 DEF KernelState
  <2> QED BY <2>1, <1>2, <1>3
<1>9. /\ TSTAT_WAITING({factor})
      /\ TS_WAITING_DLY \in {factor} <=> factor = TS_WAITING_DLY
  BY DEF TSTAT_WAITING
<1>10. /\ NULL # "wait_tmout_ok" /\ NULL # PTMEVTB /\ callback # NULL
       /\ PTMEVTB # "wait_tmout_ok"
  BY TaskAssumption DEF CallBack, PTMEVTB
<1>11. /\ Settled(m) /\ SameRest(j, m) /\ Waits(m, {t}) /\ m.wque = j.wque /\ m.wobj = j.wobj
       /\ factor # TS_WAITING_DLY => Timed(m, {})
  <2>1. m \in KernelState BY <1>3, <1>5 DEF KernelState, WInfo, WaitErcd, E_OK
  <2>2. /\ m.readyq = b.readyq /\ m.primap = b.primap /\ m.schedtsk = b.schedtsk
        /\ m.priority = b.priority /\ m.tstat = b.tstat /\ SameRest(b, m)
        /\ m.winfo = [b.winfo EXCEPT ![t] = NULL] /\ m.tmevtb = b.tmevtb
        /\ m.broken = b.broken /\ m.wque = b.wque /\ m.wobj = b.wobj
    BY <1>3, <1>5 DEF KernelState, SameRest
  <2>3. Settled(m) /\ SameRest(j, m)
    <3>1. Settled(m) BY <2>1, <2>2, <1>2, SettledFrame, SameRestSys
    <3> QED BY <3>1, <2>2, <1>2 DEF SameRest
  <2>4. m.winfo[t] = NULL /\ \A u \in Task \ {t} : m.winfo[u] = b.winfo[u]
    BY <2>2, <1>3 DEF KernelState
  <2>5. m.wque = j.wque /\ m.wobj = j.wobj BY <2>2, <1>2 DEF SameWait
  <2>6. Waits(m, {t}) BY <2>2, <2>5, <1>7, <1>8, WaitsFrame
  <2>7. ASSUME factor # TS_WAITING_DLY PROVE TimedOK(m, t)
    BY <2>2, <2>4, <2>7, <1>2, <1>7, <1>8, <1>9, <1>10 DEF TimedOK, SameWait
  <2>8. ASSUME NEW u \in Task \ {t} PROVE TimedOK(m, u)
    BY <2>2, <2>4, <1>2, <1>8 DEF Fine, Timed, TimedOK, SameWait
  <2>9. m.broken = {} BY <2>2, <1>2 DEF Fine, Timed, SameWait
  <2>10. factor # TS_WAITING_DLY => Timed(m, {}) BY <2>7, <2>8, <2>9 DEF Timed
  <2> QED BY <2>3, <2>5, <2>6, <2>10
<1>12. c \in KernelState BY <1>3 DEF c, KernelState, WInfo
<1>13. /\ c.readyq = b.readyq /\ c.primap = b.primap /\ c.schedtsk = b.schedtsk
       /\ c.priority = b.priority /\ c.tstat = b.tstat /\ SameRest(b, c)
       /\ c.winfo = [b.winfo EXCEPT ![t] = PTMEVTB] /\ c.tmevtb = b.tmevtb
       /\ c.broken = b.broken /\ c.wque = b.wque /\ c.wobj = b.wobj
  BY <1>3 DEF c, KernelState, SameRest
<1>14. o = [c EXCEPT !.tmevtb[t] = callback]
  BY <1>2, <1>6, <1>7, <1>13 DEF tmevtb_enqueue, Check, SameWait
<1>15. /\ Settled(o) /\ SameRest(j, o) /\ Timed(o, {}) /\ Waits(o, {t})
       /\ o.wque = j.wque /\ o.wobj = j.wobj
  <2>1. o \in KernelState BY <1>3, <1>12, <1>14 DEF KernelState
  <2>2. /\ o.readyq = c.readyq /\ o.primap = c.primap /\ o.schedtsk = c.schedtsk
        /\ o.priority = c.priority /\ o.tstat = c.tstat /\ SameRest(c, o)
        /\ o.winfo = c.winfo /\ o.tmevtb = [c.tmevtb EXCEPT ![t] = callback]
        /\ o.broken = c.broken /\ o.wque = c.wque /\ o.wobj = c.wobj
    BY <1>12, <1>14 DEF KernelState, SameRest
  <2>3. /\ o.readyq = b.readyq /\ o.primap = b.primap /\ o.schedtsk = b.schedtsk
        /\ o.priority = b.priority /\ o.tstat = b.tstat /\ SameRest(b, o)
    BY <2>2, <1>13 DEF SameRest
  <2>4. Settled(o) BY <2>1, <2>3, <1>2, SettledFrame, SameRestSys
  <2>5. SameRest(j, o) BY <2>3, <1>2 DEF SameRest
  <2>6. /\ o.winfo[t] = PTMEVTB /\ o.tmevtb[t] = callback
        /\ \A u \in Task \ {t} : o.winfo[u] = b.winfo[u] /\ o.tmevtb[u] = b.tmevtb[u]
    <3>1. o.winfo = [b.winfo EXCEPT ![t] = PTMEVTB] /\ o.tmevtb = [b.tmevtb EXCEPT ![t] = callback]
      BY <2>2, <1>13
    <3> QED BY <3>1, <1>3 DEF KernelState
  <2>7. TimedOK(o, t) BY <2>3, <2>6, <1>8, <1>9, <1>10 DEF TimedOK
  <2>8. ASSUME NEW u \in Task \ {t} PROVE TimedOK(o, u)
    BY <2>3, <2>6, <1>2, <1>8 DEF Fine, Timed, TimedOK, SameWait
  <2>9. o.broken = {} BY <2>2, <1>2, <1>13 DEF Fine, Timed, SameWait
  <2>10. o.wque = j.wque /\ o.wobj = j.wobj BY <2>2, <1>2, <1>13 DEF SameWait
  <2>11. Waits(o, {t}) BY <2>3, <2>10, <1>7, <1>8, WaitsFrame
  <2> QED BY <2>4, <2>5, <2>7, <2>8, <2>9, <2>10, <2>11 DEF Timed
<1>16. w.tstat = b.tstat BY <1>2, <1>3 DEF w, t, KernelState
<1>17. m.tstat = b.tstat /\ m.readyq = b.readyq BY <1>3, <1>5 DEF KernelState
<1>18. o.tstat = b.tstat /\ o.readyq = b.readyq
  BY <1>3, <1>13, <1>14, <1>12 DEF KernelState
<1>19. OneMoved(j, m, t) /\ OneMoved(j, o, t) BY <1>2, <1>17, <1>18 DEF OneMoved
<1> QED BY <1>11, <1>15, <1>16, <1>17, <1>18, <1>19 DEF m, o, w, t

(* Dispatching becomes possible again: p_schedtsk is looked up anew.       *)
LEMMA Enable ==
    ASSUME NEW j, Core(j, Runnable(j)), Runnable(j) # {}, Plain(j), Fine(j, {}),
           j.enadsp, j.ipm = "TIPM_ENAALL"
    PROVE  LET n == [j EXCEPT !.dspflg = TRUE, !.schedtsk = search_schedtsk(j)] IN
           /\ Settled(n) /\ Fine(n, {}) /\ n.dspflg
           /\ n.runtsk = j.runtsk /\ n.nest = j.nest /\ Runnable(n) = Runnable(j)
           /\ n.raster = j.raster /\ n.enater = j.enater /\ n.readyq = j.readyq
           /\ n.wque = j.wque /\ n.lastmtx = j.lastmtx
<1> DEFINE s == search_schedtsk(j)
           n == [j EXCEPT !.dspflg = TRUE, !.schedtsk = s]
<1>1. Top(j, Runnable(j), s) BY Search
<1>2. s \in Task /\ j \in KernelState BY <1>1 DEF Top, Core
<1> HIDE DEF s, n
<1>3. n \in KernelState BY <1>2 DEF KernelState, n
<1>4. /\ n.readyq = j.readyq /\ n.primap = j.primap /\ n.schedtsk = s
      /\ n.priority = j.priority /\ n.tstat = j.tstat /\ n.lastmtx = j.lastmtx
      /\ n.wque = j.wque /\ n.runtsk = j.runtsk /\ n.enadsp = j.enadsp
      /\ n.dspflg = TRUE /\ n.ipm = j.ipm /\ n.nest = j.nest
      /\ n.winfo = j.winfo /\ n.tmevtb = j.tmevtb /\ n.broken = j.broken
      /\ n.raster = j.raster /\ n.enater = j.enater /\ n.wobj = j.wobj
  BY <1>2 DEF KernelState, n
<1>5. Runnable(n) = Runnable(j) BY <1>4 DEF Runnable
<1>6. Core(n, Runnable(j)) /\ \A x : Top(n, Runnable(j), x) <=> Top(j, Runnable(j), x)
  <2>1. \A p \in Pri, u \in Task \ Runnable(j) : ~Linked(n.readyq[p], u)
    BY <1>4, NotLinked
  <2> QED BY <2>1, <1>3, <1>4, CoreFrame
<1>7. Settled(n) BY <1>1, <1>4, <1>5, <1>6 DEF Settled, Ready, Plain
<1>8. Fine(n, {}) BY <1>4, FineFrame DEF SameWait
<1> QED BY <1>4, <1>5, <1>7, <1>8 DEF n, s

(* A step that touches none of this, but perhaps the requests.             *)
LEMMA InvAsked ==
    ASSUME NEW j, Inv(j), NEW n, n \in KernelState,
           n.readyq = j.readyq, n.primap = j.primap, n.schedtsk = j.schedtsk,
           n.priority = j.priority, n.tstat = j.tstat, SameSys(j, n), SameWait(j, n),
           Asked(n, {})
    PROVE  Follows(j, n)
<1>1. Settled(n) /\ Runnable(n) = Runnable(j) BY SettledFrame DEF Inv
<1>2. Fine(n, {}) BY FineFrame DEF Inv
<1> QED BY <1>1, <1>2 DEF Inv, SameSys, Follows, Kept, NoneHeld

LEMMA InvFrame ==
    ASSUME NEW j, Inv(j), NEW n, n \in KernelState,
           n.readyq = j.readyq, n.primap = j.primap, n.schedtsk = j.schedtsk,
           n.priority = j.priority, n.tstat = j.tstat, SameRest(j, n), SameWait(j, n)
    PROVE  Follows(j, n)
<1>1. Runnable(n) = Runnable(j) BY DEF Runnable
<1>2. Asked(n, {}) BY <1>1, AskedFrame DEF Inv
<1> QED BY <1>2, InvAsked, SameRestSys

-----------------------------------------------------------------------------
(* Initially the ready queues link the TA_ACT tasks.                       *)
LEMMA Permutation ==
    ASSUME NEW S \in SUBSET Task, NEW q \in SetToSeqs(S)
    PROVE  /\ q \in Seq(Task) /\ NoTwice(q)
           /\ \A t : Linked(q, t) <=> t \in S
<1> DEFINE D == 1 .. Cardinality(S)
<1>1. IsFiniteSet(S) BY TaskAssumption, FS_Subset
<1>2. Cardinality(S) \in Nat BY <1>1, FS_CardinalityType
<1>3. q \in [D -> S] /\ \A i, h \in D : i # h => q[i] # q[h] BY DEF SetToSeqs
<1>4. q \in Seq(Task) /\ Len(q) = Cardinality(S)
  BY <1>2, <1>3
<1>5. q \in Injection(D, S) BY <1>3 DEF Injection, IsInjective
<1>6. IsFiniteSet(D) /\ Cardinality(D) = Cardinality(S)
  <2>1. 1 \in Int /\ Cardinality(S) \in Int BY <1>2
  <2>2. IsFiniteSet(D) /\ Cardinality(D) = IF 1 > Cardinality(S) THEN 0 ELSE Cardinality(S) - 1 + 1
    BY <2>1, FS_Interval
  <2> QED BY <2>2, <1>2
<1>7. q \in Surjection(D, S) BY <1>1, <1>5, <1>6, FS_Injection
<1>8. ASSUME NEW t \in S PROVE Linked(q, t) BY <1>4, <1>7 DEF Surjection, Linked
<1> QED BY <1>3, <1>4, <1>8 DEF NoTwice, Linked

(* The state that start_dispatch leaves satisfies the invariant.           *)
LEMMA InvInit == TaskInit => Inv(k) /\ NoneHeld(k)
<1> SUFFICES ASSUME NEW q, q \in [Pri -> UNION {SetToSeqs(Started(p)) : p \in Pri}],
                    \A p \in Pri : q[p] \in SetToSeqs(Started(p)),
                    k = initialize_task(q)
             PROVE  Inv(k) /\ NoneHeld(k)
  BY DEF TaskInit
<1>1. ASSUME NEW p \in Pri
      PROVE  /\ q[p] \in Seq(Task) /\ NoTwice(q[p])
             /\ \A t : Linked(q[p], t) <=> t \in TA_ACT /\ ipriority[t] = p
  <2>1. Started(p) \in SUBSET Task BY TaskAssumption DEF Started
  <2>2. q[p] \in SetToSeqs(Started(p)) OBVIOUS
  <2>3. /\ q[p] \in Seq(Task) /\ NoTwice(q[p])
        /\ \A t : Linked(q[p], t) <=> t \in Started(p)
    BY ONLY <2>1, <2>2, Permutation
  <2> QED BY ONLY <2>3 DEF Started
<1>2. q \in [Pri -> Seq(Task)] BY <1>1
<1> DEFINE x == FirstTask(q)
           T == [t \in Task |-> IF t \in TA_ACT THEN {TS_RUNNABLE} ELSE {}]
<1>3. IF TA_ACT = {} THEN x = NULL
      ELSE /\ x \in TA_ACT
           /\ \A u \in TA_ACT : ipriority[x] <= ipriority[u]
           /\ x = Head(q[ipriority[x]])
  <2>1. CASE \A p \in Pri : q[p] = << >>
    <3>1. x = NULL BY <2>1 DEF FirstTask, queue_empty
    <3>2. ASSUME NEW t \in TA_ACT PROVE FALSE
      <4>1. ipriority[t] \in Pri BY TaskAssumption
      <4>2. Linked(q[ipriority[t]], t) BY <4>1, <1>1
      <4> QED BY <4>1, <4>2, <2>1 DEF Linked
    <3> QED BY <3>1, <3>2
  <2>2. CASE ~ \A p \in Pri : q[p] = << >>
    <3> DEFINE full == {p \in Pri : q[p] # << >>}
               first(p) == p \in Pri /\ q[p] # << >> /\ \A o \in 0 .. p - 1 : q[o] = << >>
    <3>1. PICK m \in full : \A o \in full : m <= o
      <4>1. full \in SUBSET Nat /\ full # {} BY <2>2, PriNat
      <4> QED BY <4>1, LeastElement
    <3>2. \A o \in 0 .. m - 1 : o \in Pri BY <3>1, TaskAssumption DEF Pri
    <3>3. m \in Int /\ \A o \in 0 .. m - 1 : ~(m <= o) BY <3>1, PriNat
    <3>4. \A o \in 0 .. m - 1 : q[o] = << >> BY <3>1, <3>2, <3>3
    <3> DEFINE c == CHOOSE p \in Pri : q[p] # << >> /\ \A o \in 0 .. p - 1 : q[o] = << >>
    <3>5. c \in Pri /\ q[c] # << >> /\ \A o \in 0 .. c - 1 : q[o] = << >>
      BY <3>1, <3>4
    <3>6. x = Head(q[c])
      BY <2>2 DEF FirstTask, queue_empty
    <3> HIDE DEF c, x
    <3>7. q[c] \in Seq(Task) /\ x = q[c][1] /\ 1 \in 1 .. Len(q[c]) BY <3>5, <3>6, <1>2
    <3>8. Linked(q[c], x) BY <3>7 DEF Linked
    <3>9. x \in TA_ACT /\ ipriority[x] = c BY <3>5, <3>8, <1>1
    <3>10. ASSUME NEW u \in TA_ACT PROVE c <= ipriority[u]
      <4>1. ipriority[u] \in Pri /\ ipriority[u] \in Nat /\ c \in Nat BY <3>5, TaskAssumption, PriNat
      <4>2. Linked(q[ipriority[u]], u) BY <4>1, <1>1
      <4>3. q[ipriority[u]] # << >> BY <4>2 DEF Linked
      <4>4. ipriority[u] \notin 0 .. c - 1 BY <4>3, <3>5
      <4> QED BY <4>1, <4>4
    <3> QED BY <3>6, <3>9, <3>10
  <2> QED BY <2>1, <2>2
<1>4. x \in Task \cup {NULL} BY <1>3, TaskAssumption
<1> HIDE DEF x
<1>5. T \in [Task -> TStat] BY DEF TStat
<1>6. /\ k.tstat = T /\ k.priority = ipriority /\ k.readyq = q
      /\ k.primap = {p \in Pri : q[p] # << >>} /\ k.runtsk = x /\ k.schedtsk = x
      /\ k.dspflg /\ k.enadsp /\ k.ipm = "TIPM_ENAALL" /\ k.nest = 0 /\ k.broken = {}
      /\ k.lastmtx = [t \in Task |-> NULL] /\ k.wque = [w \in Wobj |-> << >>]
      /\ k.winfo = [t \in Task |-> NULL] /\ k.tmevtb = [t \in Task |-> NULL]
      /\ k.raster = [t \in Task |-> FALSE] /\ k.wobj = [t \in Task |-> NULL]
  BY DEF initialize_task, queue_empty, x
<1>7. k \in KernelState
  <2>1. ipriority \in [Task -> Pri] BY TaskAssumption
  <2>2. /\ [t \in Task |-> FALSE] \in [Task -> BOOLEAN]
        /\ [t \in Task |-> TRUE] \in [Task -> BOOLEAN]
        /\ [t \in Task |-> NULL] \in [Task -> Wobj \cup {NULL}]
        /\ [t \in Task |-> NULL] \in [Task -> CallBack \cup {NULL}]
        /\ [t \in Task |-> NULL] \in [Task -> Mutex \cup {NULL}]
        /\ [m \in Mutex |-> NULL] \in [Mutex -> Mutex \cup {NULL}]
        /\ [m \in Mutex |-> NULL] \in [Mutex -> Task \cup {NULL}]
        /\ [w \in Wobj |-> << >>] \in [Wobj -> Seq(Task)]
    OBVIOUS
  <2>3. [t \in Task |-> NULL] \in [Task -> WInfo] BY DEF WInfo, WaitErcd, E_OK
  <2>4. "TIPM_ENAALL" \in Ipm BY DEF Ipm
  <2>5. 0 \in 0 .. MaxNest BY TaskAssumption
  <2>6. {p \in Pri : ~queue_empty(q[p])} \in SUBSET Pri OBVIOUS
  <2> QED BY <1>2, <1>4, <1>5, <2>1, <2>2, <2>3, <2>4, <2>5, <2>6
          DEF initialize_task, KernelState, x
<1>8. Runnable(k) = TA_ACT BY <1>6, TaskAssumption DEF Runnable
<1>9. Core(k, TA_ACT) BY <1>1, <1>6, <1>7, TaskAssumption DEF Core
<1>10. Top(k, TA_ACT, x) BY <1>3, <1>6 DEF Top
<1>11. Plain(k) BY <1>6 DEF Plain, TaskStates
<1>12. Settled(k) BY <1>6, <1>8, <1>9, <1>10, <1>11 DEF Settled, Ready
<1>13. Fine(k, {})
  <2>1. NULL # "wait_tmout_ok" BY TaskAssumption DEF CallBack
  <2>2. ASSUME NEW t \in Task
        PROVE  ~TSTAT_WAITING(T[t]) /\ TS_WAITING_DLY \notin T[t] /\ ~TSTAT_WAIT_WOBJ(T[t])
    BY NotWaiting
  <2>3. Waits(k, {})
    <3>1. \A w \in Wobj : NoTwice(k.wque[w]) /\ \A t \in Task : ~Linked(k.wque[w], t)
      BY <1>6 DEF NoTwice, Linked
    <3> QED BY <3>1, <2>2, <1>6 DEF Waits
  <2>4. Timed(k, {}) BY <2>1, <2>2, <1>6 DEF Timed, TimedOK
  <2> QED BY <2>3, <2>4 DEF Fine
<1>14. Asked(k, {}) BY <1>6 DEF Asked
<1>15. NoneHeld(k) BY <1>6 DEF NoneHeld
<1> QED BY <1>3, <1>6, <1>8, <1>12, <1>13, <1>14, <1>15 DEF Inv

-----------------------------------------------------------------------------
(* Every step keeps the invariant. A call leaves the kernel, ...           *)
LEMMA Leave ==
    ASSUME NEW j, Inv(j), NEW n, Settled(n), Fine(n, {}), SameRest(j, n),
           Runnable(j) \subseteq Runnable(n), Kept(j, n)
    PROVE  Follows(j, dispatch(n))
<1>1. Asked(n, {}) BY AskedFrame DEF Inv
<1>2. n.runtsk = j.runtsk /\ n.nest = j.nest BY DEF SameRest
<1>3. n.runtsk # NULL => n.runtsk \in Runnable(n) BY <1>2 DEF Inv
<1> QED BY <1>1, <1>2, <1>3, Dispatch DEF Follows, Kept, OneMoved, SameRest, NoneHeld

(* ... after it has blocked a task that is not asked to terminate.         *)
LEMMA LeaveBlocked ==
    ASSUME NEW j, Inv(j), NEW n, Settled(n), Fine(n, {}), SameRest(j, n), j.nest = 0,
           NEW t, ~j.raster[t], Runnable(j) \ {t} \subseteq Runnable(n), Kept(j, n)
    PROVE  Follows(j, dispatch(n))
<1>1. Asked(n, {}) BY AskedFrame DEF Inv
<1>2. n.runtsk = j.runtsk /\ n.nest = 0 BY DEF SameRest
<1> QED BY <1>1, <1>2, Dispatch DEF Follows, Kept, OneMoved, SameRest, NoneHeld

(* The invariant, taken apart for the steps below.                         *)
LEMMA Known ==
    ASSUME NEW j, Inv(j)
    PROVE  /\ j \in KernelState /\ Settled(j) /\ Fine(j, {}) /\ Core(j, Runnable(j))
           /\ Plain(j) /\ Ready(j, Runnable(j))
           /\ j.runtsk # NULL => j.runtsk \in Runnable(j) /\ j.runtsk \in Task
           /\ j.nest = 0 => j.runtsk = j.schedtsk
           /\ j.dspflg <=> j.enadsp /\ j.ipm = "TIPM_ENAALL"
           /\ Asked(j, {}) /\ Asked(j, {j.runtsk})
BY DEF Inv, Settled, Ready, Core, Runnable, Asked

(* chg_pri moves a waiting task in the queue of an object in the order of  *)
(* priorities.                                                             *)
LEMMA ChangeWaiting ==
    ASSUME NEW j, Settled(j), Fine(j, {}), NEW t \in Task, t \notin Runnable(j),
           TSTAT_WAIT_WOBJCB(j.tstat[t]), NEW newpri \in Pri, NEW mtxmode
    PROVE  LET n == change_priority(j, t, newpri, mtxmode) IN
           /\ Settled(n) /\ Fine(n, {}) /\ SameRest(j, n) /\ n.tstat = j.tstat
           /\ Runnable(n) = Runnable(j) /\ n.readyq = j.readyq
<1> DEFINE k1 == [j EXCEPT !.priority[t] = newpri]
           n  == change_priority(j, t, newpri, mtxmode)
           w  == j.wobj[t]
           d  == queue_delete(j.wque[w], t)
           q  == queue_insert_tpri(d, t, k1.priority)
<1>1. /\ j \in KernelState /\ Ready(j, Runnable(j)) /\ Plain(j)
      /\ j.tstat[t] \in TaskStates
  BY DEF Settled, Ready, Core, Plain
<1>2. TSTAT_WAIT_WOBJ(j.tstat[t]) /\ ~TSTAT_RUNNABLE(j.tstat[t])
  BY <1>1, States DEF TSTAT_RUNNABLE
<1>3. w \in Wobj /\ Linked(j.wque[w], t) /\ NoTwice(j.wque[w]) /\ j.wque[w] \in Seq(Task)
  <2>1. w \in Wobj BY <1>2 DEF Fine, Waits
  <2> QED BY <2>1, <1>1, <1>2 DEF Fine, Waits, KernelState
<1>4. /\ q \in Seq(Task) /\ NoTwice(q)
      /\ \A u : Linked(q, u) <=> Linked(j.wque[w], u)
  <2>1. d \in Seq(Task) /\ NoTwice(d) /\ \A u : Linked(d, u) <=> Linked(j.wque[w], u) /\ u # t
    BY <1>3, Delete
  <2> HIDE DEF d, k1
  <2>2. ~Linked(d, t) BY <2>1
  <2>3. q \in Seq(Task) /\ NoTwice(q) /\ \A u : Linked(q, u) <=> Linked(d, u) \/ u = t
    BY <2>1, <2>2, InsertTpri
  <2> QED BY <2>1, <2>3, <1>3
<1>5. /\ k1 \in KernelState /\ k1.readyq = j.readyq /\ k1.primap = j.primap
      /\ k1.schedtsk = j.schedtsk /\ k1.tstat = j.tstat /\ k1.wque = j.wque
      /\ \A u \in Runnable(j) : k1.priority[u] = j.priority[u]
      /\ SameRest(j, k1) /\ SameWait(j, k1)
  BY <1>1 DEF KernelState, SameRest, SameWait, Runnable
<1>6. n = IF w \in TA_TPRI THEN [k1 EXCEPT !.wque[w] = q] ELSE k1
  BY <1>2, <1>5 DEF change_priority, wobj_change_priority
<1> HIDE DEF k1, n, q, d
<1>7. Settled(k1) /\ Fine(k1, {}) /\ Runnable(k1) = Runnable(j)
  <2>1. Runnable(k1) = Runnable(j) BY <1>5 DEF Runnable
  <2>2. k1.dspflg = j.dspflg /\ k1.runtsk = j.runtsk BY <1>5 DEF SameRest
  <2>3. Ready(k1, Runnable(j)) BY <2>2, <1>1, <1>5, ReadyFrame
  <2>4. Settled(k1) BY <2>1, <2>3, <1>1, <1>5 DEF Settled, Plain, SameRest
  <2>5. Fine(k1, {}) BY <1>5, FineFrame
  <2> QED BY <2>1, <2>4, <2>5
<1>8. CASE w \in TA_TPRI
  <2>1. n = [k1 EXCEPT !.wque[w] = q] BY <1>6, <1>8
  <2>2. n \in KernelState BY <2>1, <1>3, <1>4, <1>5 DEF KernelState
  <2>3. /\ n.readyq = k1.readyq /\ n.primap = k1.primap /\ n.schedtsk = k1.schedtsk
        /\ n.priority = k1.priority /\ n.tstat = k1.tstat
        /\ n.lastmtx = k1.lastmtx /\ n.runtsk = k1.runtsk
        /\ n.enadsp = k1.enadsp /\ n.dspflg = k1.dspflg /\ n.ipm = k1.ipm /\ n.nest = k1.nest
        /\ n.raster = k1.raster /\ n.enater = k1.enater
        /\ n.winfo = k1.winfo /\ n.tmevtb = k1.tmevtb /\ n.broken = k1.broken
        /\ n.wobj = k1.wobj
    BY <2>1, <1>5 DEF KernelState
  <2>4. n.wque[w] = q /\ \A v \in Wobj : v # w => n.wque[v] = k1.wque[v]
    BY <2>1, <1>3, <1>5 DEF KernelState
  <2>5. ASSUME NEW v \in Wobj
        PROVE  NoTwice(n.wque[v]) /\ \A u \in Task : Linked(n.wque[v], u) <=> Linked(k1.wque[v], u)
    BY <2>4, <1>4, <1>5, <1>7 DEF Fine, Waits
  <2>6. Waits(n, {}) BY <2>3, <2>5, <1>7 DEF Fine, Waits
  <2>7. Timed(n, {}) BY <2>3, <1>7, TimedFrame DEF Fine
  <2>8. SameRest(k1, n) BY <2>3, <2>5 DEF SameRest
  <2>9. Settled(n) /\ Runnable(n) = Runnable(k1)
    BY <2>2, <2>3, <2>8, <1>7, SettledFrame, SameRestSys
  <2> QED BY <2>3, <2>6, <2>7, <2>8, <2>9, <1>5, <1>7 DEF Fine, SameRest, n
<1>9. CASE w \notin TA_TPRI BY <1>5, <1>6, <1>7, <1>9 DEF n
<1> QED BY <1>8, <1>9

(* The calls of task_manage.c preserve the invariant.                      *)
LEMMA ManageSteps ==
    ASSUME Inv(k), NEW t \in Task,
           act_tsk(t) \/ can_act(t) \/ (\E pri \in Pri : chg_pri(t, pri))
    PROVE  Follows(k, k')
<1>1. k \in KernelState /\ Settled(k) /\ Fine(k, {}) /\ Plain(k) BY Known
<1>2. CASE act_tsk(t)
  <2>1. CASE TSTAT_DORMANT(k.tstat[t]) /\ k' = dispatch(make_active(k, t))
    <3>1. k.tstat[t] = {} BY <2>1 DEF TSTAT_DORMANT
    <3>2. Fine(k, {t}) /\ k.tmevtb[t] = NULL
      <4>1. ~TSTAT_WAIT_WOBJ(k.tstat[t]) /\ ~TSTAT_WAITING(k.tstat[t]) BY <3>1, NotWaiting
      <4> QED BY <4>1, <1>1, FineNone DEF Fine, Timed, TimedOK
    <3>3. /\ Settled(make_active(k, t)) /\ SameRest(k, make_active(k, t))
          /\ Runnable(k) \subseteq Runnable(make_active(k, t)) /\ Fine(make_active(k, t), {})
          /\ OneMoved(k, make_active(k, t), t)
      BY <1>1, <3>1, <3>2, Activate
    <3> QED BY <3>3, <2>1, Leave DEF Kept
  <2>2. CASE k' = [k EXCEPT !.actque[t] = TRUE]
    <3>1. k' \in KernelState BY <2>2, <1>1 DEF KernelState
    <3>2. /\ k'.readyq = k.readyq /\ k'.primap = k.primap /\ k'.schedtsk = k.schedtsk
          /\ k'.priority = k.priority /\ k'.tstat = k.tstat
          /\ SameRest(k, k') /\ SameWait(k, k')
      BY <3>1, <2>2, <1>1 DEF KernelState, SameRest, SameWait
    <3> QED BY <3>1, <2>2, <1>1, <3>2, InvFrame
  <2> QED BY <1>2, <2>1, <2>2 DEF act_tsk
<1>3. CASE can_act(t)
  <2>1. k' = [k EXCEPT !.actque[t] = FALSE] BY <1>3 DEF can_act
  <2>2. k' \in KernelState BY <2>1, <1>1 DEF KernelState
  <2>3. /\ k'.readyq = k.readyq /\ k'.primap = k.primap /\ k'.schedtsk = k.schedtsk
        /\ k'.priority = k.priority /\ k'.tstat = k.tstat
        /\ SameRest(k, k') /\ SameWait(k, k')
    BY <2>1, <2>2, <1>1 DEF KernelState, SameRest, SameWait
  <2> QED BY <2>1, <2>2, <1>1, <2>3, InvFrame
<1>4. ASSUME NEW pri \in Pri, chg_pri(t, pri) PROVE Follows(k, k')
  <2> DEFINE k1 == [k EXCEPT !.bpriority[t] = pri]
             n  == change_priority(k1, t, pri, FALSE)
  <2>2. k' = k1 \/ k' = dispatch(n) BY <1>4 DEF chg_pri
  <2>3. k1 \in KernelState BY <1>1 DEF KernelState
  <2>4. /\ k1.readyq = k.readyq /\ k1.primap = k.primap /\ k1.schedtsk = k.schedtsk
        /\ k1.priority = k.priority /\ k1.tstat = k.tstat /\ SameRest(k, k1) /\ SameWait(k, k1)
    BY <1>1 DEF KernelState, SameRest, SameWait
  <2> HIDE DEF k1
  <2>5. Inv(k1) BY <2>3, <2>4, InvFrame DEF Follows
  <2>6. Settled(k1) /\ Fine(k1, {}) /\ Ready(k1, Runnable(k1)) /\ Plain(k1) BY <2>5, Known
  <2>7. TSTAT_RUNNABLE(k1.tstat[t]) <=> t \in Runnable(k1) BY DEF TSTAT_RUNNABLE, Runnable
  <2>8. /\ Settled(n) /\ Fine(n, {}) /\ SameRest(k1, n) /\ Runnable(n) = Runnable(k1)
        /\ Kept(k1, n)
    <3>1. CASE ~TSTAT_WAIT_WOBJCB(k1.tstat[t])
      <4>1. Ready(n, Runnable(k1)) /\ Same(k1, n) /\ OneMoved(k1, n, t)
        BY <3>1, <2>6, <2>7, FALSE \in BOOLEAN, ChangePriority
      <4> HIDE DEF n
      <4>2. Runnable(n) = Runnable(k1) /\ SameRest(k1, n) /\ SameWait(k1, n) /\ n.tstat = k1.tstat
        BY <4>1 DEF Runnable, Same, SameRest, SameWait
      <4>3. Settled(n) BY <2>6, <4>1, <4>2 DEF Settled, Plain, Same
      <4>4. Fine(n, {}) BY <2>6, <4>2, FineFrame
      <4>5. Kept(k1, n) BY <4>1 DEF Kept
      <4> QED BY <4>2, <4>3, <4>4, <4>5
    <3>2. CASE TSTAT_WAIT_WOBJCB(k1.tstat[t])
      <4>0. Settled(k1) /\ Fine(k1, {}) BY <2>6
      <4>1. k1.tstat[t] \in TaskStates BY <2>6 DEF Plain
      <4>2. t \notin Runnable(k1) BY <3>2, <4>1, States DEF Runnable
      <4>3. /\ Settled(n) /\ Fine(n, {}) /\ SameRest(k1, n)
            /\ Runnable(n) = Runnable(k1) /\ n.readyq = k1.readyq
        BY <4>0, <3>2, <4>2, ChangeWaiting, ZenonT(60)
      <4> QED BY <4>3 DEF Kept
    <3> QED BY <3>1, <3>2
  <2> HIDE DEF n
  <2>9. k1.runtsk = k.runtsk BY <2>4 DEF SameRest
  <2>10. Follows(k1, dispatch(n)) BY <2>5, <2>8, Leave
  <2>11. Follows(k, k1) BY <2>3, <2>4, <1>1, InvFrame
  <2>12. NoneHeld(k) => Kept(k, dispatch(n)) /\ dispatch(n).lastmtx = k.lastmtx
    BY <2>4, <2>10 DEF Kept, OneMoved, Follows, SameRest, NoneHeld
  <2>13. k1.wque = k.wque BY <2>4 DEF SameWait
  <2> QED BY <2>2, <2>9, <2>10, <2>11, <2>12, <2>13 DEF Follows, NoneHeld
<1> QED BY <1>2, <1>3, <1>4

(* The calls of task_term.c preserve the invariant.                        *)
LEMMA TermSteps ==
    ASSUME Inv(k),
           \/ ext_tsk \/ dis_ter \/ ena_ter
           \/ \E t \in Task : ras_ter(t) \/ ter_tsk(t)
    PROVE  Follows(k, k')
<1>1. /\ k \in KernelState /\ Settled(k) /\ Fine(k, {}) /\ Core(k, Runnable(k)) /\ Plain(k)
      /\ k.runtsk # NULL => k.runtsk \in Runnable(k) /\ k.runtsk \in Task
      /\ k.dspflg <=> k.enadsp /\ k.ipm = "TIPM_ENAALL"
      /\ Asked(k, {}) /\ Asked(k, {k.runtsk})
  BY Known
<1>2. CASE ext_tsk
  <2> DEFINE k1 == [k EXCEPT !.enadsp = TRUE, !.ipm = "TIPM_ENAALL", !.lock = FALSE]
             k2 == IF ~k.enadsp \/ k.ipm # "TIPM_ENAALL"
                   THEN [k1 EXCEPT !.dspflg = TRUE, !.schedtsk = search_schedtsk(k1)]
                   ELSE k1
  <2>1. k.runtsk \in Runnable(k) /\ k.runtsk \in Task /\ k.nest = 0
    BY <1>1, <1>2 DEF ext_tsk, CHECK_TSKCTX
  <2>2. k' = dispatcher(task_terminate(k2, k.runtsk)) BY <1>2 DEF ext_tsk
  <2>3. k1 \in KernelState BY <1>1 DEF KernelState, Ipm
  <2>4. /\ k1.readyq = k.readyq /\ k1.primap = k.primap /\ k1.schedtsk = k.schedtsk
        /\ k1.priority = k.priority /\ k1.tstat = k.tstat /\ k1.lastmtx = k.lastmtx
        /\ k1.wque = k.wque /\ k1.runtsk = k.runtsk /\ k1.nest = k.nest
        /\ k1.dspflg = k.dspflg /\ SameWait(k, k1)
        /\ k1.enadsp /\ k1.ipm = "TIPM_ENAALL"
        /\ k1.raster = k.raster /\ k1.enater = k.enater
    BY <1>1 DEF KernelState, SameWait
  <2> HIDE DEF k1
  <2>5. Runnable(k1) = Runnable(k) BY <2>4 DEF Runnable
  <2>6. Fine(k1, {}) BY <2>4, <1>1, FineFrame
  <2>7. Plain(k1) BY <2>4, <1>1 DEF Plain
  <2>8. /\ Settled(k2) /\ Fine(k2, {}) /\ k2.dspflg /\ k2.runtsk = k.runtsk
        /\ k2.nest = k.nest
        /\ Runnable(k2) = Runnable(k) /\ k2.raster = k.raster /\ k2.enater = k.enater
        /\ k2.readyq = k.readyq /\ k2.wque = k.wque /\ k2.lastmtx = k.lastmtx
    <3>1. CASE ~k.enadsp \/ k.ipm # "TIPM_ENAALL"
      <4>1. Core(k1, Runnable(k1))
        <5>1. \A p \in Pri, u \in Task \ Runnable(k) : ~Linked(k1.readyq[p], u)
          BY <1>1, <2>4, NotLinked
        <5> QED BY <5>1, <1>1, <2>3, <2>4, <2>5, CoreFrame
      <4>2. Runnable(k1) # {} BY <2>1, <2>5
      <4>3. k2 = [k1 EXCEPT !.dspflg = TRUE, !.schedtsk = search_schedtsk(k1)] BY <3>1
      <4> HIDE DEF k2
      <4> QED BY <4>1, <4>2, <4>3, <2>4, <2>5, <2>6, <2>7, Enable
    <3>2. CASE ~(~k.enadsp \/ k.ipm # "TIPM_ENAALL")
      <4>1. k2 = k1 BY <3>2
      <4>2. SameSys(k, k1) /\ k1.dspflg
        <5>1. k.enadsp \in BOOLEAN /\ k1.enadsp \in BOOLEAN BY <1>1, <2>3 DEF KernelState
        <5> QED BY <5>1, <3>2, <2>4, <1>1 DEF SameSys
      <4>3. Settled(k1) BY <4>2, <2>3, <2>4, <1>1, SettledFrame
      <4> QED BY <4>1, <4>2, <4>3, <2>4, <2>5, <2>6
    <3> QED BY <3>1, <3>2
  <2> HIDE DEF k2
  <2> DEFINE n == task_terminate(k2, k.runtsk)
  <2>9. /\ Settled(n) /\ SameMode(k2, n) /\ Fine(n, {})
        /\ n.raster = [k2.raster EXCEPT ![k.runtsk] = FALSE]
        /\ Runnable(k2) \ {k.runtsk} \subseteq Runnable(n)
        /\ \A u \in Task \ {k.runtsk} : n.enater[u] = k2.enater[u]
        /\ k2.lastmtx[k.runtsk] = NULL => OneMoved(k2, n, k.runtsk) /\ n.lastmtx = k2.lastmtx
    BY <2>1, <2>8, Terminate
  <2> HIDE DEF n
  <2>10. k2 \in KernelState BY <2>8 DEF Settled, Ready, Core
  <2>11. \A u \in Task \ {k.runtsk} : k.raster[u] => u \in Runnable(k) /\ ~k.enater[u]
    BY <1>1 DEF Asked
  <2>12. Asked(k2, {k.runtsk}) BY <2>8, <2>11 DEF Asked
  <2>13. Asked(n, {}) BY <2>1, <2>9, <2>10, <2>12, TerminateAsked
  <2>14. n.dspflg BY <2>8, <2>9 DEF SameMode
  <2>15. NoneHeld(k) => OneMoved(k, n, k.runtsk) /\ n.lastmtx = k.lastmtx
    BY <2>1, <2>8, <2>9 DEF OneMoved, NoneHeld
  <2>16. /\ Inv(k') /\ k'.dspflg /\ k'.readyq = n.readyq /\ k'.wque = n.wque
         /\ k'.lastmtx = n.lastmtx /\ k'.nest = n.nest
    BY <2>2, <2>9, <2>13, <2>14, Dispatcher DEF n
  <2>17. NoneHeld(k) => Kept(k, k') /\ k'.lastmtx = k.lastmtx
    BY <2>1, <2>15, <2>16 DEF Kept, OneMoved
  <2>18. k'.nest = 0 BY <2>1, <2>8, <2>9, <2>16 DEF SameMode
  <2> QED BY <2>8, <2>9, <2>16, <2>17, <2>18 DEF Follows, SameMode, NoneHeld
<1>3. CASE dis_ter
  <2>1. k' = [k EXCEPT !.enater[k.runtsk] = FALSE] BY <1>3 DEF dis_ter
  <2>2. k' \in KernelState BY <2>1, <1>1 DEF KernelState
  <2>3. /\ k'.readyq = k.readyq /\ k'.primap = k.primap /\ k'.schedtsk = k.schedtsk
        /\ k'.priority = k.priority /\ k'.tstat = k.tstat /\ SameSys(k, k') /\ SameWait(k, k')
        /\ k'.raster = k.raster /\ \A u \in Task : k'.enater[u] => k.enater[u]
    BY <2>1, <1>1 DEF KernelState, SameSys, SameWait
  <2>4. Runnable(k') = Runnable(k) BY <2>3 DEF Runnable
  <2>5. Asked(k', {}) BY <2>3, <2>4, <1>1 DEF Asked, SameSys
  <2> QED BY <2>2, <2>3, <2>5, InvAsked
<1>4. CASE ena_ter
  <2>1. k.runtsk \in Task /\ k.nest = 0
    BY <1>1, <1>4 DEF ena_ter, CHECK_TSKCTX_UNL, CHECK_TSKCTX
  <2>2. CASE k.raster[k.runtsk] /\ k.dspflg
    <3> DEFINE n == task_terminate(k, k.runtsk)
    <3>1. k' = dispatcher(n) BY <1>4, <2>2 DEF ena_ter
    <3>2. /\ Settled(n) /\ SameMode(k, n) /\ Fine(n, {})
          /\ n.raster = [k.raster EXCEPT ![k.runtsk] = FALSE]
          /\ Runnable(k) \ {k.runtsk} \subseteq Runnable(n)
          /\ \A u \in Task \ {k.runtsk} : n.enater[u] = k.enater[u]
          /\ k.lastmtx[k.runtsk] = NULL => OneMoved(k, n, k.runtsk) /\ n.lastmtx = k.lastmtx
      BY <1>1, <2>1, <2>2, Terminate
    <3> HIDE DEF n
    <3>3. Asked(n, {}) BY <3>2, <2>1, <1>1, TerminateAsked
    <3>4. n.dspflg BY <3>2, <2>2 DEF SameMode
    <3>5. /\ Inv(k') /\ k'.dspflg /\ k'.readyq = n.readyq /\ k'.wque = n.wque
          /\ k'.lastmtx = n.lastmtx /\ k'.nest = n.nest
      BY <3>1, <3>2, <3>3, <3>4, Dispatcher
    <3>6. NoneHeld(k) => Kept(k, k') /\ k'.lastmtx = k.lastmtx
      BY <2>1, <3>2, <3>5 DEF Kept, OneMoved, NoneHeld
    <3>7. k'.nest = 0 BY <2>1, <3>2, <3>5 DEF SameMode
    <3> QED BY <3>2, <3>5, <3>6, <3>7 DEF Follows, SameMode, NoneHeld
  <2>3. CASE ~(k.raster[k.runtsk] /\ k.dspflg)
    <3>1. k' = [k EXCEPT !.enater[k.runtsk] = TRUE] BY <1>4, <2>3 DEF ena_ter
    <3>2. k' \in KernelState BY <3>1, <1>1 DEF KernelState
    <3>3. /\ k'.readyq = k.readyq /\ k'.primap = k.primap /\ k'.schedtsk = k.schedtsk
          /\ k'.priority = k.priority /\ k'.tstat = k.tstat /\ SameSys(k, k') /\ SameWait(k, k')
          /\ k'.raster = k.raster /\ \A u \in Task \ {k.runtsk} : k'.enater[u] = k.enater[u]
      BY <3>1, <1>1 DEF KernelState, SameSys, SameWait
    <3>4. Runnable(k') = Runnable(k) BY <3>3 DEF Runnable
    <3>5. k'.runtsk = k.runtsk /\ k'.dspflg = k.dspflg BY <3>3 DEF SameSys
    <3>6. ASSUME NEW u \in Task, k'.raster[u]
          PROVE  u \in Runnable(k') /\ (k'.enater[u] => u = k'.runtsk /\ ~k'.dspflg)
      BY <3>3, <3>4, <3>5, <3>6, <2>3, <1>1 DEF Asked
    <3>7. Asked(k', {}) BY <3>6 DEF Asked
    <3> QED BY <3>2, <3>3, <3>7, InvAsked
  <2> QED BY <2>2, <2>3
<1>5. ASSUME NEW t \in Task, ter_tsk(t) \/ (ras_ter(t) /\ k.enater[t]) PROVE Follows(k, k')
  <2> DEFINE n == task_terminate(k, t)
  <2>1. k' = dispatch(n) /\ t # k.runtsk /\ k.nest = 0
    BY <1>5 DEF ter_tsk, ras_ter, CHECK_TSKCTX_UNL, CHECK_TSKCTX
  <2>2. /\ Settled(n) /\ SameMode(k, n) /\ Fine(n, {})
        /\ n.raster = [k.raster EXCEPT ![t] = FALSE]
        /\ Runnable(k) \ {t} \subseteq Runnable(n)
        /\ \A u \in Task \ {t} : n.enater[u] = k.enater[u]
        /\ k.lastmtx[t] = NULL => OneMoved(k, n, t) /\ n.lastmtx = k.lastmtx
    BY <1>1, <2>1, Terminate
  <2> HIDE DEF n
  <2>3. Asked(k, {t}) BY <1>1 DEF Asked
  <2>4. Asked(n, {}) BY <2>2, <2>3, <1>1, TerminateAsked
  <2>5. n.nest = 0 /\ n.runtsk = k.runtsk BY <2>1, <2>2 DEF SameMode
  <2>6. /\ Follows(n, k') /\ k'.readyq = n.readyq /\ k'.wque = n.wque
        /\ k'.lastmtx = n.lastmtx
    BY <2>1, <2>2, <2>4, <2>5, Dispatch
  <2>7. NoneHeld(k) => Kept(k, k') /\ k'.lastmtx = k.lastmtx
    BY <2>2, <2>6 DEF Kept, OneMoved, NoneHeld
  <2> QED BY <2>2, <2>5, <2>6, <2>7 DEF Follows, SameMode, NoneHeld
<1>6. ASSUME NEW t \in Task, ras_ter(t), ~k.enater[t] PROVE Follows(k, k')
  <2> DEFINE k1 == [k EXCEPT !.raster[t] = TRUE]
             d  == wait_dequeue_tmevtb(wait_dequeue_wobj(k1, t), t)
             k2 == IF TSTAT_WAITING(k.tstat[t]) THEN set_wercd(d, t, "E_RASTER") ELSE k1
             n  == make_runnable([k2 EXCEPT !.tstat[t] = {TS_RUNNABLE}], t)
  <2>1. k' = (IF TSTAT_RUNNABLE(k.tstat[t]) THEN k1 ELSE dispatch(n)) /\ k.nest = 0
    BY <1>6 DEF ras_ter, CHECK_TSKCTX_UNL, CHECK_TSKCTX
  <2>2. k1 \in KernelState BY <1>1 DEF KernelState
  <2>3. /\ k1.readyq = k.readyq /\ k1.primap = k.primap /\ k1.schedtsk = k.schedtsk
        /\ k1.priority = k.priority /\ k1.tstat = k.tstat /\ SameSys(k, k1) /\ SameWait(k, k1)
        /\ k1.enater = k.enater /\ \A u \in Task \ {t} : k1.raster[u] = k.raster[u]
    BY <1>1 DEF KernelState, SameSys, SameWait
  <2> HIDE DEF k1
  <2>4. Runnable(k1) = Runnable(k) /\ k1.runtsk = k.runtsk /\ k1.dspflg = k.dspflg
    BY <2>3 DEF Runnable, SameSys
  <2>5. Settled(k1) /\ Fine(k1, {}) /\ k1.nest = 0 /\ Asked(k1, {t}) /\ ~k1.enater[t]
    <3>1. Settled(k1) BY <2>2, <2>3, <1>1, SettledFrame
    <3>2. Fine(k1, {}) BY <2>3, <1>1, FineFrame
    <3>3. Asked(k1, {t}) BY <2>3, <2>4, <1>1 DEF Asked
    <3> QED BY <3>1, <3>2, <3>3, <2>1, <2>3, <1>6 DEF SameSys
  <2>6. CASE TSTAT_RUNNABLE(k.tstat[t])
    <3>1. t \in Runnable(k1) BY <2>4, <2>6 DEF Runnable, TSTAT_RUNNABLE
    <3>2. Asked(k1, {}) BY <3>1, <2>5 DEF Asked
    <3> QED BY <3>2, <2>1, <2>2, <2>3, <2>6, InvAsked
  <2>7. CASE ~TSTAT_RUNNABLE(k.tstat[t])
    <3>1. k' = dispatch(n) BY <2>1, <2>7
    <3>2. /\ Settled(k2) /\ SameRest(k1, k2) /\ Fine(k2, {t}) /\ k2.tmevtb[t] = NULL
          /\ t \notin Runnable(k2) /\ Runnable(k2) = Runnable(k1)
          /\ k2.readyq = k1.readyq
      <4>1. CASE TSTAT_WAITING(k.tstat[t])
        <5>1. k2 = set_wercd(d, t, "E_RASTER") BY <4>1
        <5>2. TSTAT_WAITING(k1.tstat[t]) BY <4>1, <2>3
        <5>3. "E_RASTER" \in WInfo BY DEF WInfo, WaitErcd
        <5> HIDE DEF k2
        <5> QED BY <5>1, <5>2, <5>3, <2>5, EndWait
      <4>2. CASE ~TSTAT_WAITING(k.tstat[t])
        <5>1. k2 = k1 BY <4>2
        <5>2. t \notin Runnable(k1) BY <2>3, <2>7 DEF Runnable, TSTAT_RUNNABLE
        <5>3. k1.tmevtb[t] = NULL BY <4>2, <2>3, <2>5 DEF Fine, Timed, TimedOK
        <5>4. ~TSTAT_WAIT_WOBJ(k1.tstat[t]) BY <4>2, <2>3, <2>5, StateOf, States
        <5>5. Fine(k1, {t}) BY <5>4, <2>5, FineNone
        <5> QED BY <5>1, <5>2, <5>3, <5>5, <2>5 DEF SameRest
      <4> QED BY <4>1, <4>2
    <3> HIDE DEF k2
    <3>3. /\ Settled(n) /\ SameRest(k2, n) /\ SameWait(k2, n)
          /\ n.tstat = [k2.tstat EXCEPT ![t] = {TS_RUNNABLE}] /\ OneMoved(k2, n, t)
      BY <3>2, Unblock
    <3> HIDE DEF n
    <3>4. k2 \in KernelState BY <3>2 DEF Settled, Ready, Core
    <3>5. n.tstat[t] = {TS_RUNNABLE} /\ \A u \in Task \ {t} : n.tstat[u] = k2.tstat[u]
      BY <3>3, <3>4 DEF KernelState
    <3>6. /\ ~TSTAT_WAITING(n.tstat[t]) /\ TS_WAITING_DLY \notin n.tstat[t]
          /\ ~TSTAT_WAIT_WOBJ(n.tstat[t])
      BY <3>5, NotWaiting
    <3>7. NULL # "wait_tmout_ok" BY TaskAssumption DEF CallBack
    <3>8. TimedOK(n, t) BY <3>2, <3>3, <3>6, <3>7 DEF TimedOK, SameWait
    <3>9. ASSUME NEW u \in Task \ {t} PROVE TimedOK(n, u)
      BY <3>2, <3>3, <3>5 DEF Fine, Timed, TimedOK, SameWait
    <3>10. Fine(n, {})
      <4>1. Timed(n, {}) BY <3>2, <3>3, <3>8, <3>9 DEF Fine, Timed, SameWait
      <4>2. Waits(n, {}) BY <3>2, <3>3, <3>5, <3>6, WaitsExcept DEF Fine, SameWait
      <4> QED BY <4>1, <4>2 DEF Fine
    <3>11. SameRest(k1, n) BY <3>2, <3>3 DEF SameRest
    <3>12. t \in Runnable(n) /\ Runnable(k1) \subseteq Runnable(n)
      BY <3>2, <3>5 DEF Runnable
    <3>13. Asked(n, {t}) BY <3>11, <3>12, <2>5, AskedFrame
    <3>14. Asked(n, {}) BY <3>11, <3>12, <3>13, <2>5 DEF Asked, SameRest
    <3>15. n.nest = 0 /\ n.runtsk = k.runtsk BY <3>11, <2>4, <2>5 DEF SameRest
    <3>16. OneMoved(k, n, t) BY <3>2, <3>3, <2>3 DEF OneMoved
    <3>17. /\ Follows(n, k') /\ k'.readyq = n.readyq /\ k'.wque = n.wque
           /\ k'.lastmtx = n.lastmtx
      BY <3>1, <3>3, <3>10, <3>14, <3>15, Dispatch
    <3>18. Kept(k, k') BY <3>16, <3>17 DEF Kept, OneMoved
    <3>19. k1.wque = k.wque /\ n.lastmtx = k.lastmtx BY <2>3, <3>11 DEF SameWait, SameSys, SameRest
    <3> QED BY <3>11, <3>15, <3>17, <3>18, <3>19 DEF Follows, SameRest, NoneHeld
  <2> QED BY <2>6, <2>7
<1> QED BY <1>2, <1>3, <1>4, <1>5, <1>6

(* The calls of task_sync.c that block preserve the invariant.             *)
LEMMA WaitSteps ==
    ASSUME Inv(k), slp_tsk \/ tslp_tsk \/ dly_tsk
    PROVE  Follows(k, k')
<1>1. /\ k \in KernelState /\ Settled(k) /\ Fine(k, {})
      /\ k.dspflg /\ k.nest = 0 /\ k.runtsk \in Runnable(k) /\ ~k.raster[k.runtsk]
  BY Known DEF slp_tsk, tslp_tsk, dly_tsk, CHECK_DISPATCH, CHECK_TSKCTX_UNL, CHECK_TSKCTX
\* sleeping or delayed, the task is in no queue
<1>0. ASSUME NEW m, NEW f \in {TS_WAITING_SLP, TS_WAITING_DLY}, Timed(m, {}),
             Waits(m, {k.runtsk}), m.tstat = [k EXCEPT !.tstat[k.runtsk] = {f}].tstat
      PROVE  Fine(m, {})
  <2>1. m.tstat[k.runtsk] = {f} /\ k.runtsk \in Task BY <1>0, <1>1 DEF KernelState, Runnable
  <2>2. ~TSTAT_WAIT_WOBJ(m.tstat[k.runtsk]) BY <2>1, Factors DEF TSTAT_WAIT_WOBJ
  <2> QED BY <2>1, <2>2, <1>0, WaitsNone DEF Fine
<1>2. CASE k' = take_wupque
  <2>1. k' = [k EXCEPT !.wupque[k.runtsk] = FALSE] BY <1>2 DEF take_wupque
  <2>2. k.runtsk \in Task BY <1>1 DEF Runnable
  <2>3. k' \in KernelState BY <2>1, <2>2, <1>1, ZenonT(60) DEF KernelState
  <2>4. /\ k'.readyq = k.readyq /\ k'.primap = k.primap /\ k'.schedtsk = k.schedtsk
        /\ k'.priority = k.priority /\ k'.tstat = k.tstat
        /\ SameRest(k, k') /\ SameWait(k, k')
    BY <2>1, <2>3, <1>1 DEF KernelState, SameRest, SameWait
  <2> QED BY <2>1, <2>3, <1>1, <2>4, InvFrame
<1>3. CASE k' = dispatch(make_wait(waiting_for(TS_WAITING_SLP)))
  <2> DEFINE w == waiting_for(TS_WAITING_SLP)
  <2>1. "wait_tmout" \in CallBack /\ ("wait_tmout" = "wait_tmout_ok" <=> TS_WAITING_SLP = TS_WAITING_DLY)
    BY DEF CallBack, TS_WAITING_SLP, TS_WAITING_DLY
  <2>2. w = [k EXCEPT !.tstat[k.runtsk] = {TS_WAITING_SLP}] BY DEF waiting_for
  <2> HIDE DEF w
  <2> DEFINE m == make_wait(w)
  <2>3. /\ Settled(m) /\ SameRest(k, m) /\ Timed(m, {}) /\ Waits(m, {k.runtsk})
        /\ m.tstat = w.tstat /\ OneMoved(k, m, k.runtsk)
    BY <2>1, <2>2, <1>1, Factors, MakeWait
  <2> HIDE DEF m
  <2>6. Fine(m, {}) BY <2>2, <2>3, <1>1, <1>0
  <2>4. Runnable(k) \ {k.runtsk} \subseteq Runnable(m) BY <2>2, <2>3, <1>1 DEF Runnable, KernelState
  <2>5. Kept(k, m) BY <2>3, <1>1 DEF Kept, Runnable
  <2> QED BY <2>3, <2>4, <2>5, <2>6, <1>1, <1>3, LeaveBlocked DEF w, m
<1>4. ASSUME NEW f \in {TS_WAITING_SLP, TS_WAITING_DLY}, NEW c \in CallBack,
             c = "wait_tmout_ok" <=> f = TS_WAITING_DLY,
             k' = dispatch(make_wait_tmout(waiting_for(f), c))
      PROVE  Follows(k, k')
  <2> DEFINE w == waiting_for(f)
  <2>1. w = [k EXCEPT !.tstat[k.runtsk] = {f}] BY DEF waiting_for
  <2> HIDE DEF w
  <2> DEFINE m == make_wait_tmout(w, c)
  <2>2. /\ Settled(m) /\ SameRest(k, m) /\ Timed(m, {}) /\ Waits(m, {k.runtsk})
        /\ m.tstat = w.tstat /\ OneMoved(k, m, k.runtsk)
    BY <2>1, <1>1, <1>4, Factors, MakeWait
  <2> HIDE DEF m
  <2>5. Fine(m, {}) BY <2>1, <2>2, <1>1, <1>0
  <2>3. Runnable(k) \ {k.runtsk} \subseteq Runnable(m) BY <2>1, <2>2, <1>1 DEF Runnable, KernelState
  <2>4. Kept(k, m) BY <2>2, <1>1 DEF Kept, Runnable
  <2> QED BY <2>2, <2>3, <2>4, <2>5, <1>1, <1>4, LeaveBlocked DEF w, m
<1>5. /\ k' \in { take_wupque, dispatch(make_wait(waiting_for(TS_WAITING_SLP))),
                  dispatch(make_wait_tmout(waiting_for(TS_WAITING_SLP), "wait_tmout")),
                  dispatch(make_wait_tmout(waiting_for(TS_WAITING_DLY), "wait_tmout_ok")) }
  BY DEF slp_tsk, tslp_tsk, dly_tsk
<1>6. /\ "wait_tmout" \in CallBack /\ "wait_tmout_ok" \in CallBack
      /\ "wait_tmout" # "wait_tmout_ok" /\ TS_WAITING_SLP # TS_WAITING_DLY
  BY DEF CallBack, TS_WAITING_SLP, TS_WAITING_DLY
<1>7. CASE k' = dispatch(make_wait_tmout(waiting_for(TS_WAITING_SLP), "wait_tmout"))
  BY <1>4, <1>6, <1>7
<1>8. CASE k' = dispatch(make_wait_tmout(waiting_for(TS_WAITING_DLY), "wait_tmout_ok"))
  BY <1>4, <1>6, <1>8
<1> QED BY <1>2, <1>3, <1>5, <1>7, <1>8

(* The calls of task_sync.c that end a wait, and its timeout, preserve the *)
(* invariant.                                                              *)
LEMMA WakeSteps ==
    ASSUME Inv(k), NEW t \in Task,
           wup_tsk(t) \/ can_wup(t) \/ rel_wai(t) \/ signal_time(t)
    PROVE  Follows(k, k')
<1>1. k \in KernelState /\ Settled(k) /\ Fine(k, {}) BY Known
<1> DEFINE release(e) ==
             make_non_wait(set_wercd(wait_dequeue_tmevtb(wait_dequeue_wobj(k, t), t), t, e), t)
<1>2. ASSUME NEW e \in WInfo, TSTAT_WAITING(k.tstat[t]), k' = dispatch(release(e))
      PROVE  Follows(k, k')
  <2> DEFINE n == release(e)
  <2>1. /\ Settled(n) /\ SameRest(k, n) /\ Runnable(k) \subseteq Runnable(n) /\ Fine(n, {})
        /\ OneMoved(k, n, t)
    BY <1>1, <1>2, Release
  <2> HIDE DEF n
  <2>2. Kept(k, n) BY <2>1 DEF Kept
  <2> QED BY <2>1, <2>2, <1>2, Leave DEF n
<1>3. ~TSTAT_WAIT_WOBJ(k.tstat[t]) => wait_dequeue_wobj(k, t) = k
  BY DEF wait_dequeue_wobj
<1>4. /\ E_OK \in WInfo /\ "E_RLWAI" \in WInfo /\ "E_TMOUT" \in WInfo
  BY DEF WInfo, WaitErcd
<1>5. CASE wup_tsk(t)
  <2>1. CASE TSTAT_WAIT_SLP(k.tstat[t])
    <3>1. TSTAT_WAITING(k.tstat[t]) BY <2>1, Factors DEF TSTAT_WAIT_SLP, TSTAT_WAITING
    <3>2. ~TSTAT_WAIT_WOBJ(k.tstat[t])
      <4>1. k.tstat[t] \in TaskStates /\ TS_WAITING_SLP \in k.tstat[t]
        BY <2>1, <1>1, StateOf DEF TSTAT_WAIT_SLP
      <4> QED BY <4>1, Factors, OneFactor
    <3>3. k' = dispatch(release(E_OK)) BY <2>1, <3>2, <1>3, <1>5 DEF wup_tsk, wait_complete
    <3> QED BY <3>1, <3>3, <1>2, <1>4
  <2>2. CASE ~TSTAT_WAIT_SLP(k.tstat[t])
    <3>1. k' = [k EXCEPT !.wupque[t] = TRUE] BY <2>2, <1>5 DEF wup_tsk
    <3>2. k' \in KernelState BY <3>1, <1>1 DEF KernelState
    <3>3. /\ k'.readyq = k.readyq /\ k'.primap = k.primap /\ k'.schedtsk = k.schedtsk
          /\ k'.priority = k.priority /\ k'.tstat = k.tstat
          /\ SameRest(k, k') /\ SameWait(k, k')
      BY <3>1, <3>2, <1>1 DEF KernelState, SameRest, SameWait
    <3> QED BY <3>1, <3>2, <1>1, <3>3, InvFrame
  <2> QED BY <2>1, <2>2
<1>6. CASE can_wup(t)
  <2>1. k' = [k EXCEPT !.wupque[t] = FALSE] BY <1>6 DEF can_wup
  <2>2. k' \in KernelState BY <2>1, <1>1 DEF KernelState
  <2>3. /\ k'.readyq = k.readyq /\ k'.primap = k.primap /\ k'.schedtsk = k.schedtsk
        /\ k'.priority = k.priority /\ k'.tstat = k.tstat
        /\ SameRest(k, k') /\ SameWait(k, k')
    BY <2>1, <2>2, <1>1 DEF KernelState, SameRest, SameWait
  <2> QED BY <2>1, <2>2, <1>1, <2>3, InvFrame
<1>7. CASE rel_wai(t)
  <2>1. TSTAT_WAITING(k.tstat[t]) /\ k' = dispatch(release("E_RLWAI")) BY <1>7 DEF rel_wai
  <2> QED BY <2>1, <1>2, <1>4
<1>8. CASE signal_time(t)
  <2> DEFINE k1 == [k EXCEPT !.tmevtb[t] = NULL]
  <2>1. k.nest # 0 /\ k.tmevtb[t] # NULL BY <1>8, <1>1 DEF signal_time, KernelState
  <2>2. TSTAT_WAITING(k.tstat[t]) /\ t \notin Runnable(k)
    <3>1. TSTAT_WAITING(k.tstat[t]) BY <2>1, <1>1 DEF Fine, Timed, TimedOK
    <3>2. k.tstat[t] \in TaskStates BY <1>1, StateOf
    <3> QED BY <3>1, <3>2, States DEF Runnable
  <2>3. k1 \in KernelState BY <1>1 DEF KernelState
  <2>4. /\ k1.readyq = k.readyq /\ k1.primap = k.primap /\ k1.schedtsk = k.schedtsk
        /\ k1.priority = k.priority /\ k1.tstat = k.tstat /\ SameRest(k, k1)
        /\ k1.winfo = k.winfo /\ k1.broken = k.broken /\ k1.wque = k.wque /\ k1.wobj = k.wobj
        /\ k1.tmevtb = [k.tmevtb EXCEPT ![t] = NULL]
    BY <1>1 DEF KernelState, SameRest
  <2>5. k' = IF k.tmevtb[t] = "wait_tmout" THEN wait_tmout(k1, t) ELSE wait_tmout_ok(k1, t)
    BY <1>8 DEF signal_time
  <2> HIDE DEF k1
  <2>6. k1.tmevtb[t] = NULL /\ \A u \in Task \ {t} : k1.tmevtb[u] = k.tmevtb[u]
    <3>1. DOMAIN k.tmevtb = Task BY <1>1 DEF KernelState
    <3> QED BY <3>1, <2>4
  <2>7. Timed(k1, {t})
    <3>1. Timed(k, {t}) BY <1>1 DEF Fine, Timed
    <3>2. \A u \in Task \ {t} : /\ k1.tstat[u] = k.tstat[u] /\ k1.winfo[u] = k.winfo[u]
                                 /\ k1.tmevtb[u] = k.tmevtb[u]
      BY <2>4, <2>6
    <3>3. k1.broken = k.broken BY <2>4
    <3> QED BY ONLY <3>1, <3>2, <3>3, TimedFrame
  <2>8. Waits(k1, {}) BY <2>4, <1>1, WaitsFrame DEF Fine
\* the rest of both callbacks, once t is in no queue
  <2>9. ASSUME NEW b, b \in KernelState,
               b.readyq = k1.readyq, b.primap = k1.primap, b.schedtsk = k1.schedtsk,
               b.priority = k1.priority, b.tstat = k1.tstat, SameRest(k1, b),
               b.winfo = k1.winfo, b.tmevtb = k1.tmevtb, b.broken = k1.broken,
               Waits(b, {t}), NEW e \in WInfo, k' = make_non_wait(set_wercd(b, t, e), t)
        PROVE  Follows(k, k')
    <3> DEFINE d == set_wercd(b, t, e)
               n == make_non_wait(d, t)
    <3>1. Timed(b, {t}) BY <2>7, <2>9, TimedFrame
    <3>2. Fine(b, {t}) BY <3>1, <2>9 DEF Fine
    <3>3. /\ d \in KernelState
          /\ d.readyq = b.readyq /\ d.primap = b.primap /\ d.schedtsk = b.schedtsk
          /\ d.priority = b.priority /\ d.tstat = b.tstat /\ SameRest(b, d)
          /\ Fine(d, {t}) /\ d.tmevtb = b.tmevtb
      BY <3>2, <2>9, SetWercd
    <3> HIDE DEF d
    <3>4. /\ d.readyq = k.readyq /\ d.primap = k.primap /\ d.schedtsk = k.schedtsk
          /\ d.priority = k.priority /\ d.tstat = k.tstat /\ SameRest(k, d)
          /\ d.tmevtb[t] = NULL
      BY <3>3, <2>4, <2>6, <2>9 DEF SameRest
    <3>5. Settled(d) /\ Runnable(d) = Runnable(k)
      BY <3>3, <3>4, <1>1, SettledFrame, SameRestSys
    <3>6. TSTAT_WAITING(d.tstat[t]) /\ t \notin Runnable(d) BY <3>4, <3>5, <2>2
    <3>7. /\ Settled(n) /\ SameRest(d, n) /\ Runnable(d) \subseteq Runnable(n) /\ Fine(n, {})
          /\ OneMoved(d, n, t)
      BY <3>3, <3>4, <3>5, <3>6, MakeNonWait
    <3> HIDE DEF n
    <3>8. k' = n BY <2>9 DEF n, d
    <3>9. SameRest(k, n) /\ Runnable(k) \subseteq Runnable(n)
      BY <3>4, <3>5, <3>7 DEF SameRest
    <3>10. Asked(n, {}) BY <3>9, AskedFrame DEF Inv
    <3>11. Kept(k, n) BY <3>4, <3>7 DEF Kept, OneMoved
    <3> QED BY <2>1, <3>7, <3>8, <3>9, <3>10, <3>11, Known DEF Inv, SameRest, Follows, NoneHeld
  <2>10. CASE k.tmevtb[t] = "wait_tmout"
    <3> DEFINE b == wait_dequeue_wobj(k1, t)
    <3>1. /\ b \in KernelState
          /\ b.readyq = k1.readyq /\ b.primap = k1.primap /\ b.schedtsk = k1.schedtsk
          /\ b.priority = k1.priority /\ b.tstat = k1.tstat /\ SameRest(k1, b)
          /\ b.winfo = k1.winfo /\ b.tmevtb = k1.tmevtb /\ b.broken = k1.broken
          /\ b.wobj = k1.wobj /\ Waits(b, {t})
      BY <2>3, <2>8, DequeueWobj
    <3>2. k' = make_non_wait(set_wercd(b, t, "E_TMOUT"), t) BY <2>5, <2>10 DEF wait_tmout
    <3> HIDE DEF b
    <3> QED BY <3>1, <3>2, <2>9, <1>4
  <2>11. CASE k.tmevtb[t] # "wait_tmout"
    <3>1. k.tmevtb[t] = "wait_tmout_ok" BY <2>1, <2>11, <1>1 DEF KernelState, CallBack
    <3>2. k.tstat[t] \in TaskStates /\ TS_WAITING_DLY \in k.tstat[t]
      BY <3>1, <1>1, StateOf DEF Fine, Timed, TimedOK
    <3>3. ~TSTAT_WAIT_WOBJ(k1.tstat[t]) BY <3>2, <2>4, Factors, OneFactor
    <3>4. Waits(k1, {t}) BY <3>3, <2>8, WaitsNone
    <3>5. k' = make_non_wait(set_wercd(k1, t, E_OK), t) BY <2>5, <2>11 DEF wait_tmout_ok
    <3>6. SameRest(k1, k1) BY DEF SameRest
    <3> QED BY <3>4, <3>5, <3>6, <2>3, <2>9, <1>4
  <2> QED BY <2>10, <2>11
<1> QED BY <1>5, <1>6, <1>7, <1>8

(* Suspending or resuming a task does not change what it waits for.        *)
LEMMA SuspendWaiting ==
    ASSUME NEW s, NEW t, t = s \cup {TS_SUSPENDED} \/ t = s \ {TS_SUSPENDED}
    PROVE  /\ \A f \in WaitFactor : f \in t <=> f \in s
           /\ TSTAT_WAITING(t) <=> TSTAT_WAITING(s)
           /\ TSTAT_WAIT_WOBJ(t) <=> TSTAT_WAIT_WOBJ(s)
           /\ TS_WAITING_DLY \in t <=> TS_WAITING_DLY \in s
<1>1. \A f \in WaitFactor : f \in t <=> f \in s BY Factors
<1> QED BY <1>1, Factors DEF TSTAT_WAITING, TSTAT_WAIT_WOBJ

(* sus_tsk and rsm_tsk preserve the invariant.                             *)
LEMMA SuspendSteps ==
    ASSUME Inv(k), NEW t \in Task, sus_tsk(t) \/ rsm_tsk(t)
    PROVE  Follows(k, k')
<1>1. /\ k \in KernelState /\ Settled(k) /\ Fine(k, {}) /\ Plain(k) /\ k.nest = 0
      /\ Ready(k, Runnable(k)) /\ k.tstat[t] \in TaskStates /\ k.tstat[t] \in TStat
  BY Known, StateOf, States DEF sus_tsk, rsm_tsk, CHECK_TSKCTX_UNL, CHECK_TSKCTX
<1>2. /\ {TS_SUSPENDED} \in TaskStates /\ TS_RUNNABLE \notin {TS_SUSPENDED}
  BY Factors DEF TaskStates
<1>3. NULL # "wait_tmout_ok" BY TaskAssumption DEF CallBack
\* t exchanges runnable and suspended: it is not waiting before or after
<1>4. ASSUME NEW n, Settled(n), SameRest(k, n), SameWait(k, n),
             NEW s \in {{TS_RUNNABLE}, {TS_SUSPENDED}}, n.tstat = [k.tstat EXCEPT ![t] = s],
             ~TSTAT_WAITING(k.tstat[t]), k' = dispatch(n),
             ~k.raster[t] \/ t \notin Runnable(k), OneMoved(k, n, t)
      PROVE  Follows(k, k')
  <2>1. n.tstat[t] = s /\ \A u \in Task \ {t} : n.tstat[u] = k.tstat[u]
    BY <1>1, <1>4 DEF KernelState
  <2>2. /\ ~TSTAT_WAITING(n.tstat[t]) /\ TS_WAITING_DLY \notin n.tstat[t]
        /\ ~TSTAT_WAIT_WOBJ(n.tstat[t])
    BY <2>1, <1>4, NotWaiting
  <2>3. n.tmevtb[t] = NULL BY <1>1, <1>4 DEF Fine, Timed, TimedOK, SameWait
  <2>4. TimedOK(n, t) BY <2>2, <2>3, <1>3 DEF TimedOK
  <2>5. ASSUME NEW u \in Task \ {t} PROVE TimedOK(n, u)
    BY <2>1, <1>1, <1>4 DEF Fine, Timed, TimedOK, SameWait
  <2>6. Fine(n, {})
    <3>1. Timed(n, {}) BY <2>4, <2>5, <1>1, <1>4 DEF Fine, Timed, SameWait
    <3>2. Waits(k, {t})
      <4>1. ~TSTAT_WAIT_WOBJ(k.tstat[t]) BY <1>1, <1>4, States
      <4> QED BY <4>1, <1>1, WaitsNone DEF Fine
    <3>3. Waits(n, {}) BY <3>2, <2>1, <2>2, <1>4, WaitsExcept DEF SameWait
    <3> QED BY <3>1, <3>3 DEF Fine
  <2>7. Runnable(k) \ {t} \subseteq Runnable(n) BY <2>1 DEF Runnable
  <2>8. Kept(k, n) BY <1>4 DEF Kept
  <2>9. CASE ~k.raster[t] BY <2>6, <2>7, <2>8, <2>9, <1>1, <1>4, LeaveBlocked
  <2>10. CASE t \notin Runnable(k) BY <2>6, <2>7, <2>8, <2>10, <1>4, Leave
  <2> QED BY <2>9, <2>10, <1>4
\* t stays waiting
<1>5. ASSUME NEW s \in TaskStates, k' = [k EXCEPT !.tstat[t] = s],
             TS_RUNNABLE \notin s, TS_RUNNABLE \notin k.tstat[t],
             \A f \in WaitFactor : f \in s <=> f \in k.tstat[t],
             TSTAT_WAITING(s) <=> TSTAT_WAITING(k.tstat[t]),
             TSTAT_WAIT_WOBJ(s) <=> TSTAT_WAIT_WOBJ(k.tstat[t]),
             TS_WAITING_DLY \in s <=> TS_WAITING_DLY \in k.tstat[t]
      PROVE  Follows(k, k')
  <2> DEFINE n == [k EXCEPT !.tstat[t] = s]
  <2>1. s \in TStat BY States
  <2>2. n \in KernelState BY <1>1, <2>1, ZenonT(60) DEF KernelState
  <2>3. /\ n.readyq = k.readyq /\ n.primap = k.primap /\ n.schedtsk = k.schedtsk
        /\ n.priority = k.priority /\ SameRest(k, n) /\ SameWait(k, n)
        /\ n.tstat = [k.tstat EXCEPT ![t] = s]
    BY <1>1 DEF KernelState, SameRest, SameWait
  <2> HIDE DEF n
  <2>4. n.tstat[t] = s /\ \A u \in Task \ {t} : n.tstat[u] = k.tstat[u]
    BY <1>1, <2>3 DEF KernelState
  <2>5. Runnable(n) = Runnable(k) BY <2>4, <1>5 DEF Runnable
  <2>6. n.dspflg = k.dspflg /\ n.runtsk = k.runtsk BY <2>3 DEF SameRest
  <2>7. Ready(n, Runnable(k)) BY <2>2, <2>3, <2>6, <1>1, ReadyFrame
  <2>8. Plain(n) BY <1>1, <2>3 DEF Plain, SameRest
  <2>9. Settled(n) BY <2>3, <2>5, <2>7, <2>8, <1>1 DEF Settled, SameRest
  <2>10. ASSUME NEW u \in Task PROVE TimedOK(n, u)
    <3>1. TimedOK(k, u) BY <1>1 DEF Fine, Timed
    <3>2. CASE u = t BY <3>1, <3>2, <2>3, <2>4, <1>5 DEF TimedOK, SameWait
    <3>3. CASE u # t BY <3>1, <3>3, <2>3, <2>4 DEF TimedOK, SameWait
    <3> QED BY <3>2, <3>3
  <2>11. Fine(n, {})
    <3>1. Timed(n, {}) BY <2>3, <2>10, <1>1 DEF Fine, Timed, SameWait
    <3>2. n.wque = k.wque /\ n.wobj = k.wobj BY <2>3 DEF SameWait
    <3>3. \A w \in Wobj : wfactor[w] \in WaitFactor BY WobjAssumption, Factors
    <3>4. ASSUME NEW u \in Task
          PROVE  /\ TSTAT_WAIT_WOBJ(n.tstat[u]) <=> TSTAT_WAIT_WOBJ(k.tstat[u])
                 /\ \A f \in WaitFactor : f \in n.tstat[u] <=> f \in k.tstat[u]
      BY <2>4, <1>5
    <3>5. Waits(n, {}) BY <3>2, <3>3, <3>4, <1>1 DEF Fine, Waits
    <3> QED BY <3>1, <3>5 DEF Fine
  <2>12. Asked(n, {}) BY <2>3, <2>5, AskedFrame DEF Inv
  <2>13. Follows(k, n) BY <2>3, <2>5, <2>9, <2>11, <2>12, Known DEF Inv, SameRest, Follows, Kept, NoneHeld
  <2> QED BY <2>13, <1>5 DEF n
<1>6. CASE sus_tsk(t)
  <2>1. CASE TSTAT_RUNNABLE(k.tstat[t])
    <3> DEFINE n == make_non_runnable([k EXCEPT !.tstat[t] = {TS_SUSPENDED}], t)
    <3>1. k' = dispatch(n) /\ ~(t = k.runtsk /\ ~k.dspflg) /\ ~k.raster[t]
      BY <2>1, <1>6 DEF sus_tsk
    <3>2. t \in Runnable(k) BY <2>1 DEF TSTAT_RUNNABLE, Runnable
    <3>3. k.dspflg \/ t # k.runtsk BY <3>1
    <3>4. /\ Settled(n) /\ SameRest(k, n) /\ SameWait(k, n)
          /\ n.tstat = [k.tstat EXCEPT ![t] = {TS_SUSPENDED}] /\ OneMoved(k, n, t)
      BY <3>2, <3>3, <1>1, <1>2, BlockTask, ZenonT(60)
    <3>5. k.tstat[t] = {TS_RUNNABLE} BY <2>1, <1>1, States DEF TSTAT_RUNNABLE
    <3>6. ~TSTAT_WAITING(k.tstat[t]) BY <3>5, NotWaiting
    <3> HIDE DEF n
    <3> QED BY <3>1, <3>4, <3>6, <1>4
  <2>2. CASE ~TSTAT_RUNNABLE(k.tstat[t])
    <3>1. /\ k' = [k EXCEPT !.tstat[t] = @ \cup {TS_SUSPENDED}]
          /\ ~TSTAT_DORMANT(k.tstat[t])
      BY <2>2, <1>6 DEF sus_tsk
    <3> DEFINE s == k.tstat[t] \cup {TS_SUSPENDED}
    <3>2. s \in TaskStates BY <3>1, <2>2, <1>1, States DEF TSTAT_RUNNABLE
    <3>3. TS_RUNNABLE \notin s /\ TS_RUNNABLE \notin k.tstat[t]
      BY <2>2, Factors DEF TSTAT_RUNNABLE
    <3>4. /\ \A f \in WaitFactor : f \in s <=> f \in k.tstat[t]
          /\ TSTAT_WAITING(s) <=> TSTAT_WAITING(k.tstat[t])
          /\ TSTAT_WAIT_WOBJ(s) <=> TSTAT_WAIT_WOBJ(k.tstat[t])
          /\ TS_WAITING_DLY \in s <=> TS_WAITING_DLY \in k.tstat[t]
      BY SuspendWaiting
    <3>5. k' = [k EXCEPT !.tstat[t] = s] BY <3>1
    <3> HIDE DEF s
    <3> QED BY <3>2, <3>3, <3>4, <3>5, <1>5
  <2> QED BY <2>1, <2>2
<1>7. CASE rsm_tsk(t)
  <2>1. TSTAT_SUSPENDED(k.tstat[t]) BY <1>7 DEF rsm_tsk
  <2>2. TS_RUNNABLE \notin k.tstat[t] BY <2>1, <1>1, SuspendedState
  <2>3. CASE TSTAT_WAITING(k.tstat[t])
    <3> DEFINE s == k.tstat[t] \ {TS_SUSPENDED}
    <3>1. k' = [k EXCEPT !.tstat[t] = s] BY <2>3, <1>7 DEF rsm_tsk
    <3>2. s \in TaskStates BY <1>1, States
    <3>3. TS_RUNNABLE \notin s BY <2>2
    <3>4. /\ \A f \in WaitFactor : f \in s <=> f \in k.tstat[t]
          /\ TSTAT_WAITING(s) <=> TSTAT_WAITING(k.tstat[t])
          /\ TSTAT_WAIT_WOBJ(s) <=> TSTAT_WAIT_WOBJ(k.tstat[t])
          /\ TS_WAITING_DLY \in s <=> TS_WAITING_DLY \in k.tstat[t]
      <4>1. s = k.tstat[t] \ {TS_SUSPENDED} OBVIOUS
      <4> HIDE DEF s
      <4>2. s = k.tstat[t] \cup {TS_SUSPENDED} \/ s = k.tstat[t] \ {TS_SUSPENDED}
        BY <4>1
      <4> QED BY <4>2, SuspendWaiting, Zenon
    <3> HIDE DEF s
    <3> QED BY <3>1, <3>2, <3>3, <3>4, <2>2, <1>5
  <2>4. CASE ~TSTAT_WAITING(k.tstat[t])
    <3> DEFINE n == make_runnable([k EXCEPT !.tstat[t] = {TS_RUNNABLE}], t)
    <3>1. k' = dispatch(n) BY <2>4, <1>7 DEF rsm_tsk
    <3>2. t \notin Runnable(k) BY <2>2 DEF Runnable
    <3>3. /\ Settled(n) /\ SameRest(k, n) /\ SameWait(k, n)
          /\ n.tstat = [k.tstat EXCEPT ![t] = {TS_RUNNABLE}] /\ OneMoved(k, n, t)
      BY <3>2, <1>1, Unblock
    <3> HIDE DEF n
    <3> QED BY <3>1, <3>2, <3>3, <2>4, <1>4
  <2> QED BY <2>3, <2>4
<1> QED BY <1>6, <1>7

(* Dispatching is disabled by the running task.                            *)
LEMMA Disable ==
    ASSUME NEW j, Inv(j), j.nest = 0, j.runtsk # NULL, NEW n, n \in KernelState,
           n.readyq = j.readyq, n.primap = j.primap, n.schedtsk = j.schedtsk,
           n.priority = j.priority, n.tstat = j.tstat, SameWait(j, n),
           n.lastmtx = j.lastmtx, n.wque = j.wque, n.runtsk = j.runtsk, n.nest = j.nest,
           n.raster = j.raster, n.enater = j.enater,
           ~n.dspflg, ~(n.enadsp /\ n.ipm = "TIPM_ENAALL")
    PROVE  Follows(j, n)
<1>1. /\ Core(j, Runnable(j)) /\ Plain(j) /\ Fine(j, {}) /\ j.runtsk \in Runnable(j)
      /\ j.runtsk = j.schedtsk
  BY Known
<1>2. Runnable(n) = Runnable(j) BY DEF Runnable
<1>3. Core(n, Runnable(j))
  <2>1. \A p \in Pri, u \in Task \ Runnable(j) : ~Linked(n.readyq[p], u)
    BY <1>1, NotLinked
  <2> QED BY <2>1, <1>1, CoreFrame
<1>4. Settled(n) BY <1>1, <1>2, <1>3 DEF Settled, Ready, Plain
<1>5. Fine(n, {}) BY <1>1, FineFrame
<1>6. Asked(n, {}) BY <1>2 DEF Inv, Asked
<1> QED BY <1>1, <1>2, <1>4, <1>5, <1>6 DEF Inv, Follows, Kept, NoneHeld

(* ena_dsp and chg_ipm, once the flag or the mask is set.                  *)
LEMMA EnableDispatch ==
    ASSUME Inv(k), k.nest = 0, k.runtsk # NULL, NEW n, n \in KernelState,
           n.readyq = k.readyq, n.primap = k.primap, n.schedtsk = k.schedtsk,
           n.priority = k.priority, n.tstat = k.tstat, SameWait(k, n),
           n.lastmtx = k.lastmtx, n.wque = k.wque, n.runtsk = k.runtsk, n.nest = k.nest,
           n.raster = k.raster, n.enater = k.enater,
           n.enadsp, n.ipm = "TIPM_ENAALL"
    PROVE  Follows(k, enable_dispatch(n))
<1>1. /\ Core(k, Runnable(k)) /\ Plain(k) /\ Fine(k, {}) /\ k.runtsk \in Runnable(k)
      /\ k.runtsk \in Task /\ Asked(k, {})
  BY Known
<1>2. Runnable(n) = Runnable(k) BY DEF Runnable
<1>3. Core(n, Runnable(k))
  <2>1. \A p \in Pri, u \in Task \ Runnable(k) : ~Linked(n.readyq[p], u)
    BY <1>1, NotLinked
  <2> QED BY <2>1, <1>1, CoreFrame
<1>4. Plain(n) /\ Fine(n, {}) BY <1>1, FineFrame DEF Plain
<1> DEFINE k1 == [n EXCEPT !.dspflg = TRUE, !.schedtsk = search_schedtsk(n)]
<1>5. /\ Settled(k1) /\ Fine(k1, {}) /\ k1.dspflg
      /\ k1.runtsk = n.runtsk /\ k1.nest = n.nest /\ Runnable(k1) = Runnable(n)
      /\ k1.raster = n.raster /\ k1.enater = n.enater /\ k1.readyq = n.readyq
      /\ k1.wque = n.wque /\ k1.lastmtx = n.lastmtx
  BY <1>1, <1>2, <1>3, <1>4, Enable
<1>6. enable_dispatch(n) = IF k.raster[k.runtsk] /\ k.enater[k.runtsk]
                           THEN dispatcher(task_terminate(k1, k.runtsk))
                           ELSE dispatch(k1)
  BY DEF enable_dispatch
<1> HIDE DEF k1
<1>7. Asked(k1, {k.runtsk}) BY <1>1, <1>2, <1>5 DEF Asked
<1>8. CASE k.raster[k.runtsk] /\ k.enater[k.runtsk]
  <2> DEFINE m == task_terminate(k1, k.runtsk)
  <2>1. /\ Settled(m) /\ SameMode(k1, m) /\ Fine(m, {})
        /\ m.raster = [k1.raster EXCEPT ![k.runtsk] = FALSE]
        /\ Runnable(k1) \ {k.runtsk} \subseteq Runnable(m)
        /\ \A u \in Task \ {k.runtsk} : m.enater[u] = k1.enater[u]
        /\ k1.lastmtx[k.runtsk] = NULL => OneMoved(k1, m, k.runtsk) /\ m.lastmtx = k1.lastmtx
    BY <1>1, <1>5, Terminate
  <2>2. enable_dispatch(n) = dispatcher(m) BY <1>6, <1>8
  <2> HIDE DEF m
  <2>3. k1 \in KernelState BY <1>5 DEF Settled, Ready, Core
  <2>4. Asked(m, {}) BY <2>1, <2>3, <1>1, <1>7, TerminateAsked
  <2>5. m.dspflg BY <2>1, <1>5 DEF SameMode
  <2>6. /\ Inv(dispatcher(m)) /\ dispatcher(m).dspflg
        /\ dispatcher(m).readyq = m.readyq /\ dispatcher(m).wque = m.wque
        /\ dispatcher(m).lastmtx = m.lastmtx /\ dispatcher(m).nest = m.nest
    BY <2>1, <2>4, <2>5, Dispatcher
  <2>7. NoneHeld(k) => Kept(k, dispatcher(m)) /\ dispatcher(m).lastmtx = k.lastmtx
    BY <2>1, <2>6, <1>1, <1>5 DEF Kept, OneMoved, NoneHeld
  <2>8. dispatcher(m).nest = 0 BY <2>1, <2>6, <1>5 DEF SameMode
  <2> QED BY <2>1, <2>2, <2>6, <2>7, <2>8, <1>5 DEF Follows, SameMode, NoneHeld
<1>9. CASE ~(k.raster[k.runtsk] /\ k.enater[k.runtsk])
  <2>1. Asked(k1, {}) BY <1>1, <1>2, <1>5, <1>7, <1>9 DEF Asked
  <2>2. /\ Follows(k1, dispatch(k1))
        /\ dispatch(k1).readyq = k1.readyq /\ dispatch(k1).wque = k1.wque
        /\ dispatch(k1).lastmtx = k1.lastmtx
    BY <2>1, <1>5, Dispatch
  <2> QED BY <2>2, <1>5, <1>6, <1>9 DEF Follows, Kept, NoneHeld
<1> QED BY <1>8, <1>9

(* The calls of sys_manage.c, chg_ipm and the interrupts preserve the      *)
(* invariant.                                                              *)
LEMMA SystemSteps ==
    ASSUME Inv(k),
           \/ loc_cpu \/ unl_cpu \/ dis_dsp \/ ena_dsp \/ irq_entry \/ irq_exit
           \/ (\E pri \in Pri : rot_rdq(pri)) \/ (\E ipm \in Ipm : chg_ipm(ipm))
    PROVE  Follows(k, k')
<1>1. /\ k \in KernelState /\ Settled(k) /\ Fine(k, {}) /\ Ready(k, Runnable(k)) /\ Plain(k)
      /\ k.dspflg <=> k.enadsp /\ k.ipm = "TIPM_ENAALL"
  BY Known
<1>2. ASSUME NEW b \in BOOLEAN, k' = [k EXCEPT !.lock = b] PROVE Follows(k, k')
  <2>1. k' \in KernelState BY <1>1, <1>2 DEF KernelState
  <2>2. /\ k'.readyq = k.readyq /\ k'.primap = k.primap /\ k'.schedtsk = k.schedtsk
        /\ k'.priority = k.priority /\ k'.tstat = k.tstat
        /\ SameRest(k, k') /\ SameWait(k, k')
    BY <2>1, <1>1, <1>2 DEF KernelState, SameRest, SameWait
  <2> QED BY <2>1, <1>1, <1>2, <2>2, InvFrame
<1>3. CASE dis_dsp
  <2>1. k.nest = 0 /\ k.runtsk # NULL
    BY <1>3 DEF dis_dsp, CHECK_TSKCTX_UNL, CHECK_TSKCTX
  <2> DEFINE n == [k EXCEPT !.enadsp = FALSE, !.dspflg = FALSE]
  <2>2. n \in KernelState BY <1>1 DEF KernelState
  <2>3. /\ n.readyq = k.readyq /\ n.primap = k.primap /\ n.schedtsk = k.schedtsk
        /\ n.priority = k.priority /\ n.tstat = k.tstat /\ SameWait(k, n)
        /\ n.lastmtx = k.lastmtx /\ n.wque = k.wque /\ n.runtsk = k.runtsk /\ n.nest = k.nest
        /\ n.raster = k.raster /\ n.enater = k.enater
        /\ n.dspflg = FALSE /\ n.enadsp = FALSE
    BY <1>1 DEF KernelState, SameWait
  <2>4. k' = n BY <1>3 DEF dis_dsp
  <2> HIDE DEF n
  <2> QED BY <2>1, <2>2, <2>3, <2>4, Disable
<1>4. CASE ena_dsp
  <2>1. k.nest = 0 /\ k.runtsk # NULL
    BY <1>4 DEF ena_dsp, CHECK_TSKCTX_UNL, CHECK_TSKCTX
  <2> DEFINE n == [k EXCEPT !.enadsp = TRUE]
  <2>2. n \in KernelState BY <1>1 DEF KernelState
  <2>3. /\ n.readyq = k.readyq /\ n.primap = k.primap /\ n.schedtsk = k.schedtsk
        /\ n.priority = k.priority /\ n.tstat = k.tstat /\ SameWait(k, n)
        /\ n.lastmtx = k.lastmtx /\ n.wque = k.wque /\ n.runtsk = k.runtsk /\ n.nest = k.nest
        /\ n.raster = k.raster /\ n.enater = k.enater
        /\ n.enadsp = TRUE /\ n.ipm = k.ipm /\ n.dspflg = k.dspflg
    BY <1>1 DEF KernelState, SameWait
  <2>4. k' = IF k.ipm = "TIPM_ENAALL" THEN enable_dispatch(n) ELSE n BY <1>4 DEF ena_dsp
  <2> HIDE DEF n
  <2>5. CASE k.ipm = "TIPM_ENAALL" BY <2>1, <2>2, <2>3, <2>4, <2>5, EnableDispatch
  <2>6. CASE k.ipm # "TIPM_ENAALL"
    <3>1. ~n.dspflg /\ ~(n.enadsp /\ n.ipm = "TIPM_ENAALL") BY <2>3, <2>6, <1>1
    <3> QED BY <3>1, <2>1, <2>2, <2>3, <2>4, <2>6, Disable
  <2> QED BY <2>5, <2>6
<1>5. ASSUME NEW ipm \in Ipm, chg_ipm(ipm) PROVE Follows(k, k')
  <2>1. k.nest = 0 /\ k.runtsk # NULL
    BY <1>5 DEF chg_ipm, CHECK_TSKCTX_UNL, CHECK_TSKCTX
  <2> DEFINE n == [k EXCEPT !.ipm = ipm]
             d == [n EXCEPT !.dspflg = FALSE]
  <2>2. n \in KernelState BY <1>1 DEF KernelState
  <2>3. /\ n.readyq = k.readyq /\ n.primap = k.primap /\ n.schedtsk = k.schedtsk
        /\ n.priority = k.priority /\ n.tstat = k.tstat /\ SameWait(k, n)
        /\ n.lastmtx = k.lastmtx /\ n.wque = k.wque /\ n.runtsk = k.runtsk /\ n.nest = k.nest
        /\ n.raster = k.raster /\ n.enater = k.enater
        /\ n.enadsp = k.enadsp /\ n.ipm = ipm
    BY <1>1 DEF KernelState, SameWait
  <2>4. k' = IF ipm = "TIPM_ENAALL" /\ k.enadsp THEN enable_dispatch(n) ELSE d
    BY <1>5 DEF chg_ipm
  <2> HIDE DEF n
  <2>5. CASE ipm = "TIPM_ENAALL" /\ k.enadsp
    BY <2>1, <2>2, <2>3, <2>4, <2>5, EnableDispatch
  <2>6. CASE ~(ipm = "TIPM_ENAALL" /\ k.enadsp)
    <3>1. d \in KernelState BY <2>2 DEF KernelState
    <3>2. /\ d.readyq = k.readyq /\ d.primap = k.primap /\ d.schedtsk = k.schedtsk
          /\ d.priority = k.priority /\ d.tstat = k.tstat /\ SameWait(k, d)
          /\ d.lastmtx = k.lastmtx /\ d.wque = k.wque /\ d.runtsk = k.runtsk /\ d.nest = k.nest
          /\ d.raster = k.raster /\ d.enater = k.enater
          /\ d.enadsp = k.enadsp /\ d.ipm = ipm /\ d.dspflg = FALSE
      BY <2>2, <2>3 DEF KernelState, SameWait
    <3> HIDE DEF d
    <3> QED BY <3>1, <3>2, <2>1, <2>4, <2>6, Disable
  <2> QED BY <2>5, <2>6
<1>6. ASSUME NEW pri \in Pri, rot_rdq(pri) PROVE Follows(k, k')
  <2> DEFINE n == rotate_ready_queue(k, pri)
  <2>1. Ready(n, Runnable(k)) /\ Same(k, n) /\ Kept(k, n) BY <1>1, RotateReadyQueue
  <2>2. k' = dispatch(n) BY <1>6 DEF rot_rdq
  <2> HIDE DEF n
  <2>3. Runnable(n) = Runnable(k) /\ SameRest(k, n) BY <2>1 DEF Runnable, Same, SameRest
  <2>4. Settled(n) BY <2>1, <2>3, <1>1 DEF Settled, Plain, Same
  <2>5. Fine(n, {})
    <3>1. SameWait(k, n) /\ n.tstat = k.tstat BY <2>1 DEF Same, SameWait
    <3> QED BY <3>1, <1>1, FineFrame
  <2> QED BY <2>1, <2>2, <2>3, <2>4, <2>5, Leave
\* entry and exit only change the nesting and the lock
<1>7. ASSUME NEW d \in 0 .. MaxNest, NEW b \in BOOLEAN, NEW n,
             n = [k EXCEPT !.nest = d, !.lock = b]
      PROVE  /\ Settled(n) /\ Fine(n, {}) /\ Runnable(n) = Runnable(k)
             /\ n.nest = d /\ n.runtsk = k.runtsk /\ n.schedtsk = k.schedtsk
             /\ n.dspflg = k.dspflg /\ Asked(n, {}) /\ n.readyq = k.readyq
             /\ n.wque = k.wque /\ n.lastmtx = k.lastmtx
  <2>1. n \in KernelState BY <1>1, <1>7 DEF KernelState
  <2>2. /\ n.readyq = k.readyq /\ n.primap = k.primap /\ n.schedtsk = k.schedtsk
        /\ n.priority = k.priority /\ n.tstat = k.tstat /\ SameWait(k, n)
        /\ n.lastmtx = k.lastmtx /\ n.wque = k.wque /\ n.runtsk = k.runtsk /\ n.nest = d
        /\ n.enadsp = k.enadsp /\ n.ipm = k.ipm /\ n.dspflg = k.dspflg
        /\ n.raster = k.raster /\ n.enater = k.enater
    BY <1>1, <1>7 DEF KernelState, SameWait
  <2>3. Runnable(n) = Runnable(k) BY <2>2 DEF Runnable
  <2>4. Ready(n, Runnable(k)) BY <2>1, <2>2, <1>1, ReadyFrame
  <2>5. Settled(n) BY <2>2, <2>3, <2>4, <1>1 DEF Settled, Plain
  <2>6. Fine(n, {}) BY <2>2, <1>1, FineFrame
  <2>7. Asked(n, {}) BY <2>2, <2>3 DEF Inv, Asked
  <2> QED BY <2>2, <2>3, <2>5, <2>6, <2>7
<1>8. CASE irq_entry
  <2>1. k' = [k EXCEPT !.nest = k.nest + 1, !.lock = k.lock] /\ k.nest < MaxNest
    <3>1. k' = [k EXCEPT !.nest = @ + 1] /\ k.nest < MaxNest BY <1>8 DEF irq_entry
    <3>2. [k EXCEPT !.nest = @ + 1] = [k EXCEPT !.nest = k.nest + 1, !.lock = k.lock]
      BY <1>1 DEF KernelState
    <3> QED BY <3>1, <3>2
  <2>2. /\ k.nest \in 0 .. MaxNest /\ k.lock \in BOOLEAN /\ MaxNest \in Nat
    BY <1>1, TaskAssumption DEF KernelState
  <2>3. k.nest + 1 \in 0 .. MaxNest /\ k.nest + 1 # 0 BY <2>1, <2>2
  <2>4. /\ Settled(k') /\ Fine(k', {}) /\ Runnable(k') = Runnable(k)
        /\ k'.nest = k.nest + 1 /\ k'.runtsk = k.runtsk /\ Asked(k', {})
        /\ k'.readyq = k.readyq /\ k'.wque = k.wque /\ k'.lastmtx = k.lastmtx
    BY <2>1, <2>2, <2>3, <1>7, ZenonT(60)
  <2> QED BY <2>3, <2>4, Known DEF Inv, Follows, Kept, NoneHeld
<1>9. CASE irq_exit
  <2> DEFINE n == [k EXCEPT !.nest = k.nest - 1, !.lock = FALSE]
  <2>1. /\ k' = IF n.nest = 0 /\ (k.runtsk = NULL \/ k.runtsk # k.schedtsk)
                 THEN dispatcher(n) ELSE n
        /\ k.nest > 0
    BY <1>9 DEF irq_exit
  <2>2. k.nest \in 0 .. MaxNest /\ MaxNest \in Nat BY <1>1, TaskAssumption DEF KernelState
  <2>3. k.nest - 1 \in 0 .. MaxNest BY <2>1, <2>2
  <2>4. /\ Settled(n) /\ Fine(n, {}) /\ Runnable(n) = Runnable(k)
        /\ n.nest = k.nest - 1 /\ n.runtsk = k.runtsk /\ n.schedtsk = k.schedtsk
        /\ n.dspflg = k.dspflg /\ Asked(n, {}) /\ n.readyq = k.readyq
        /\ n.wque = k.wque /\ n.lastmtx = k.lastmtx
    BY <2>3, <1>7
  <2> HIDE DEF n
  <2>5. CASE n.nest = 0 /\ (k.runtsk = NULL \/ k.runtsk # k.schedtsk)
    <3>1. NULL \notin Runnable(k) BY NullNotTask DEF Runnable
    <3>2. k.dspflg BY <3>1, <2>5, <1>1 DEF Ready
    <3> QED BY <3>2, <2>1, <2>4, <2>5, Dispatcher DEF Follows, Kept, NoneHeld
  <2>6. CASE ~(n.nest = 0 /\ (k.runtsk = NULL \/ k.runtsk # k.schedtsk))
    BY <2>1, <2>4, <2>6, Known DEF Inv, Follows, Kept, NoneHeld
  <2> QED BY <2>5, <2>6
<1>10. CASE loc_cpu BY <1>2, <1>10 DEF loc_cpu
<1>11. CASE unl_cpu BY <1>2, <1>11 DEF unl_cpu
<1> QED BY <1>3, <1>4, <1>5, <1>6, <1>8, <1>9, <1>10, <1>11

(* Every step preserves the invariant, and the running task while          *)
(* dispatching is disabled.                                                *)
LEMMA InvNext == Inv(k) /\ [TaskNext]_k => Follows(k, k')
<1> SUFFICES ASSUME Inv(k), [TaskNext]_k PROVE Follows(k, k')
  OBVIOUS
<1>1. CASE OwnCall BY <1>1, TermSteps, WaitSteps, SystemSteps DEF OwnCall
<1>2. CASE loc_cpu \/ unl_cpu \/ irq_entry \/ irq_exit BY <1>2, SystemSteps
<1>3. ASSUME NEW t \in Task,
             \/ act_tsk(t) \/ can_act(t) \/ ter_tsk(t) \/ ras_ter(t)
             \/ wup_tsk(t) \/ can_wup(t) \/ rel_wai(t) \/ sus_tsk(t) \/ rsm_tsk(t)
             \/ signal_time(t)
             \/ \E pri \in Pri : chg_pri(t, pri)
      PROVE  Follows(k, k')
  BY <1>3, ManageSteps, TermSteps, WakeSteps, SuspendSteps
<1>4. CASE \/ \E pri \in Pri : rot_rdq(pri)
           \/ \E ipm \in Ipm : chg_ipm(ipm)
  BY <1>4, SystemSteps
<1>5. CASE UNCHANGED k BY <1>5 DEF Follows, Kept, NoneHeld
<1> QED BY <1>1, <1>2, <1>3, <1>4, <1>5 DEF TaskNext

KernelInv == Inv(k) /\ NoneHeld(k)

(* The invariant holds in every reachable state.                           *)
THEOREM Invariance == TaskSpec => []KernelInv
<1>1. TaskInit => KernelInv BY InvInit DEF KernelInv
<1>2. KernelInv /\ [TaskNext]_k => KernelInv' BY InvNext DEF KernelInv, Follows
<1> QED BY <1>1, <1>2, PTL DEF TaskSpec

LEMMA Invariant == TaskSpec => []Inv(k)
<1>1. KernelInv => Inv(k) BY DEF KernelInv
<1> QED BY <1>1, Invariance, PTL

-----------------------------------------------------------------------------
(* What the invariant implies, whatever steps keep it: the properties of   *)
(* TaskCalls one by one, and with each the theorem about TaskSpec.         *)
LEMMA InvType == Inv(k) => TypeOK
BY Known DEF TypeOK

(* Type correctness: no sequence of service calls, interrupts and timeouts *)
(* takes a variable of the kernel out of its type.                         *)
THEOREM TypeCorrect == TaskSpec => []TypeOK
BY InvType, Invariant, PTL

LEMMA InvSchedule == Inv(k) => ScheduleOK
<1> SUFFICES ASSUME Inv(k) PROVE ScheduleOK OBVIOUS
<1>1. /\ Core(k, Runnable(k)) /\ Ready(k, Runnable(k))
      /\ k.dspflg <=> k.enadsp /\ k.ipm = "TIPM_ENAALL"
  BY Known
<1>2. k.dspflg => k.schedtsk = HighestTask(k) BY <1>1, Highest DEF Ready
<1>3. ~k.dspflg => k.schedtsk = k.runtsk /\ k.runtsk # NULL
  BY <1>1, NullNotTask DEF Ready, Runnable
<1> QED BY <1>1, <1>2, <1>3 DEF ScheduleOK

(* p_schedtsk is the first task of the best priority while dispatching is  *)
(* possible, and the running task while it is not (task.c).                *)
THEOREM ScheduleCorrect == TaskSpec => []ScheduleOK
BY InvSchedule, Invariant, PTL

LEMMA InvRunning == Inv(k) => RunningOK
BY DEF Inv, RunningOK, Runnable, TSTAT_RUNNABLE

(* The running task can run, and outside interrupt handlers it is the one  *)
(* that should: every path out of the kernel that must dispatch does.      *)
THEOREM RunningCorrect == TaskSpec => []RunningOK
BY InvRunning, Invariant, PTL

LEMMA InvWaitInfo == Inv(k) => WaitInfoOK
BY DEF Inv, Fine, Timed, TimedOK, WaitInfoOK

(* A TMEVTB is registered exactly while its task waits with a timeout, and *)
(* WINFO is read as a pointer only when it is one (wait.h, task.h).        *)
THEOREM WaitInfoCorrect == TaskSpec => []WaitInfoOK
BY InvWaitInfo, Invariant, PTL

LEMMA InvTermination == Inv(k) => TerminationOK
BY DEF Inv, Asked, Runnable, TSTAT_RUNNABLE, TerminationOK

(* A task that is asked to terminate is neither waiting nor suspended, and *)
(* if it allows termination it still runs only because dispatching is      *)
(* disabled (ras_ter, ena_ter, enable_dispatch, and the checks of raster   *)
(* in the calls that block).                                               *)
THEOREM TerminationCorrect == TaskSpec => []TerminationOK
BY InvTermination, Invariant, PTL

(* The running task changes only outside interrupt handlers and with       *)
(* dispatching enabled, and to the scheduled task: every path to the       *)
(* dispatcher is taken there (dispatch, ext_tsk, ena_ter, the exit of an   *)
(* interrupt). So nothing takes the processor from a task that has disabled*)
(* dispatching.                                                            *)
THEOREM NoPreemptionCorrect == TaskSpec => NoPreemption
<1>1. ASSUME KernelInv, [TaskNext]_k, k'.runtsk # k.runtsk
      PROVE  k'.nest = 0 /\ k'.dspflg /\ k'.runtsk = k'.schedtsk
  <2>1. Follows(k, k') BY <1>1, InvNext DEF KernelInv
  <2>2. k'.nest = 0 /\ k'.dspflg /\ Inv(k') BY <2>1, <1>1 DEF Follows
  <2> QED BY <2>2 DEF Inv
<1>2. KernelInv /\ [TaskNext]_k =>
          [k'.runtsk # k.runtsk => k'.nest = 0 /\ k'.dspflg /\ k'.runtsk = k'.schedtsk]_k
  BY <1>1
<1> QED BY <1>2, Invariance, PTL DEF TaskSpec, NoPreemption

(* Of two tasks that stay runnable at the same priority the first loses    *)
(* its place before the other only by going to the tail: no queue is ever  *)
(* reordered otherwise (make_runnable, make_non_runnable, change_priority  *)
(* and rotate_ready_queue, and every call that combines them).             *)
THEOREM FifoCorrect == TaskSpec => FifoWithinPriority
<1>1. ASSUME Inv(k), NoneHeld(k), Follows(k, k'), k'.readyq # k.readyq, NEW t \in Task, NEW u \in Task,
             k.priority[t] = k'.priority[t], Ahead(k, t, u), Ahead(k', u, t)
      PROVE  Last(k'.readyq[k'.priority[t]]) = t
  <2> DEFINE p == k.priority[t]
             q == k.readyq[p]
             r == k'.readyq[p]
  <2>1. PICK x \in Task : OneMoved(k, k', x) BY <1>1 DEF Follows, Kept
  <2>2. Core(k, Runnable(k)) /\ Core(k', Runnable(k')) BY <1>1, Known DEF Follows
  <2>3. p \in Pri BY <2>2 DEF Core, KernelState
  <2>4. Moved(q, r, x) BY <2>1, <2>3 DEF OneMoved
  <2>5. q \in Seq(Task) /\ NoTwice(q) /\ r \in Seq(Task) /\ NoTwice(r)
    <3>1. k.readyq \in [Pri -> Seq(Task)] /\ k'.readyq \in [Pri -> Seq(Task)]
      BY <2>2 DEF Core, KernelState
    <3>2. q \in Seq(Task) /\ r \in Seq(Task) BY <2>3, <3>1
    <3>3. NoTwice(q) /\ NoTwice(r) BY <2>2, <2>3 DEF Core
    <3> QED BY <3>2, <3>3
  <2>6. Before(q, t, u) BY <1>1 DEF Ahead, Before
  <2>7. k'.priority[u] = p
    <3> DEFINE o == k'.readyq[k'.priority[u]]
    <3>1. PICK i, h \in 1 .. Len(o) : i < h /\ o[i] = u /\ o[h] = t BY <1>1 DEF Ahead
    <3>2. Linked(o, t) BY <3>1 DEF Linked
    <3>3. k'.priority[u] \in Pri BY <2>2 DEF Core, KernelState
    <3> QED BY <1>1, <2>2, <3>2, <3>3 DEF Core
  <2>8. Before(r, u, t) BY <1>1, <2>7 DEF Ahead, Before
  <2>9. Linked(r, t) /\ Linked(r, u) BY <2>8 DEF Before, Linked
  <2>10. k'.readyq[k'.priority[t]] = r BY <1>1
  <2> HIDE DEF p, q, r
  <2>11. ~Before(q, u, t) BY <2>5, <2>6 DEF Before, NoTwice
  <2>12. r # q BY <2>8, <2>11
  <2>13. x = t \/ x = u BY <2>4, <2>8, <2>11 DEF Moved
  <2>14. Last(r) # u
    <3>1. PICK i, h \in 1 .. Len(r) : i < h /\ r[i] = u /\ r[h] = t BY <2>8 DEF Before
    <3>2. Len(r) \in Nat BY <2>5
    <3>3. i # Len(r) /\ Len(r) \in 1 .. Len(r) BY <3>1, <3>2
    <3> QED BY <2>5, <3>1, <3>3 DEF NoTwice, Last
  <2>15. Last(r) = t BY <2>4, <2>9, <2>12, <2>13, <2>14 DEF Moved
  <2> QED BY <2>10, <2>15
<1>2. KernelInv /\ [TaskNext]_k =>
          [k.readyq # k'.readyq =>
             \A t, u \in Task :
                 /\ k.priority[t] = k'.priority[t]
                 /\ Ahead(k, t, u)
                 /\ Ahead(k', u, t)
                 => Last(k'.readyq[k'.priority[t]]) = t]_k
  BY <1>1, InvNext DEF KernelInv
<1> QED BY <1>2, Invariance, PTL DEF TaskSpec, FifoWithinPriority

LEMMA InvAssertsHold == Inv(k) => AssertsHold
BY DEF Inv, Fine, Timed, AssertsHold

(* No assert of make_non_runnable, make_non_wait, the time event heap or   *)
(* the dispatcher ever fails.                                              *)
THEOREM AssertsCorrect == TaskSpec => []AssertsHold
BY InvAssertsHold, Invariant, PTL

LEMMA InvTstat == Inv(k) => TstatOK
<1> SUFFICES ASSUME Inv(k), NEW t \in Task
             PROVE  LET s == k.tstat[t] IN
                    /\ TSTAT_RUNNABLE(s) => s = {TS_RUNNABLE}
                    /\ Cardinality(s \cap WaitFactor) <= 1
                    /\ TSTAT_WAIT_WOBJ(s) => s \cap WaitFactor = {wfactor[k.wobj[t]]}
  BY DEF TstatOK
<1> DEFINE s == k.tstat[t]
<1>1. s \in TaskStates BY DEF Inv, Settled, Plain
<1>2. TSTAT_WAIT_WOBJ(s) => wfactor[k.wobj[t]] \in s \cap WaitFactor
  <2>1. TSTAT_WAIT_WOBJ(s) => k.wobj[t] \in Wobj /\ wfactor[k.wobj[t]] \in s
    BY DEF Inv, Fine, Waits
  <2> QED BY <2>1, WobjAssumption, Factors
<1> HIDE DEF s
<1>3. \A f, g \in s \cap WaitFactor : f = g BY <1>1, States
<1>5. Cardinality(s \cap WaitFactor) <= 1
  <2>1. CASE s \cap WaitFactor = {}
    <3>1. Cardinality(s \cap WaitFactor) = 0 BY <2>1, FS_EmptySet, Zenon
    <3> QED BY <3>1
  <2>2. CASE s \cap WaitFactor # {}
    <3>1. PICK f : s \cap WaitFactor = {f} BY <2>2, <1>3
    <3>2. Cardinality({f}) = 1 BY FS_Singleton
    <3> QED BY <3>1, <3>2
  <2> QED BY <2>1, <2>2
<1>6. TSTAT_WAIT_WOBJ(s) => s \cap WaitFactor = {wfactor[k.wobj[t]]} BY <1>2, <1>3
<1>7. TSTAT_RUNNABLE(s) => s = {TS_RUNNABLE} BY <1>1, States DEF TSTAT_RUNNABLE
<1> QED BY <1>5, <1>6, <1>7 DEF s

(* The flags of a task state never come in any other combination than      *)
(* those of task.h (sus_tsk, rsm_tsk, make_non_wait, ras_ter).             *)
THEOREM TstatCorrect == TaskSpec => []TstatOK
BY InvTstat, Invariant, PTL

(* A queue in which nothing is linked twice links t once or not at all.    *)
LEMMA LinkedOnce ==
    ASSUME NEW q \in Seq(Task), NoTwice(q), NEW t \in Task
    PROVE  Cardinality(LinksIn(q, t)) = IF Linked(q, t) THEN 1 ELSE 0
<1>1. CASE Linked(q, t)
  <2>1. PICK i \in 1 .. Len(q) : q[i] = t BY <1>1 DEF Linked
  <2>2. LinksIn(q, t) = {i} BY <2>1 DEF NoTwice, LinksIn
  <2> QED BY <1>1, <2>2, FS_Singleton
<1>2. CASE ~Linked(q, t)
  <2>1. LinksIn(q, t) = {} BY <1>2 DEF Linked, LinksIn
  <2> QED BY <1>2, <2>1, FS_EmptySet
<1> QED BY <1>1, <1>2

LEMMA InvQueue == Inv(k) => QueueOK
<1> SUFFICES ASSUME Inv(k) PROVE QueueOK OBVIOUS
<1>1. Core(k, Runnable(k)) /\ Plain(k) /\ k \in KernelState BY Known
<1>2. ASSUME NEW t \in Task, NEW p \in Pri
      PROVE  Cardinality(LinksIn(k.readyq[p], t)) =
                 IF TSTAT_RUNNABLE(k.tstat[t]) /\ k.priority[t] = p THEN 1 ELSE 0
  <2>1. k.readyq[p] \in Seq(Task) BY <1>1 DEF KernelState
  <2>2. NoTwice(k.readyq[p]) BY <1>1 DEF Core
  <2>3. Linked(k.readyq[p], t) <=> TSTAT_RUNNABLE(k.tstat[t]) /\ k.priority[t] = p
    BY <1>1 DEF Core, Runnable, TSTAT_RUNNABLE
  <2> QED BY <2>1, <2>2, <2>3, LinkedOnce
<1>3. ASSUME NEW t \in Task, NEW w \in Wobj
      PROVE  Cardinality(LinksIn(k.wque[w], t)) =
                 IF TSTAT_WAIT_WOBJ(k.tstat[t]) /\ k.wobj[t] = w THEN 1 ELSE 0
  <2>1. k.wque[w] \in Seq(Task) BY <1>1 DEF KernelState
  <2>2. /\ NoTwice(k.wque[w])
        /\ Linked(k.wque[w], t) <=> TSTAT_WAIT_WOBJ(k.tstat[t]) /\ k.wobj[t] = w
    BY DEF Inv, Fine, Waits
  <2> QED BY <2>1, <2>2, LinkedOnce
<1>4. k.primap = {p \in Pri : k.readyq[p] # << >>} BY <1>1 DEF Core
<1> QED BY <1>2, <1>3, <1>4 DEF QueueOK

(* Each runnable task is linked once, in the ready queue of its current    *)
(* priority, no other task is linked anywhere, and the bitmap marks        *)
(* exactly the queues that are not empty (task.c, wait.h).                 *)
THEOREM QueuesCorrect == TaskSpec => []QueueOK
BY InvQueue, Invariant, PTL

(* What holds of the tasks whatever objects they use.                      *)
TasksOK ==
    /\ TypeOK /\ QueueOK /\ ScheduleOK /\ RunningOK /\ WaitInfoOK
    /\ TerminationOK /\ AssertsHold /\ TstatOK

LEMMA InvTasks == Inv(k) => TasksOK
BY InvType, InvQueue, InvSchedule, InvRunning, InvWaitInfo, InvTermination,
   InvAssertsHold, InvTstat DEF TasksOK

-----------------------------------------------------------------------------
(* Leaving the kernel after some tasks have been released, or after the    *)
(* running task has been made to wait in queue w.                          *)
LEMMA LeaveReleased ==
    ASSUME NEW j, Inv(j), NEW n, Settled(n), Fine(n, {}), SameRest(j, n),
           Runnable(j) \subseteq Runnable(n)
    PROVE  Inv(dispatch(n)) /\ dispatch(n).wque = n.wque /\ dispatch(n).lastmtx = j.lastmtx
<1>1. Asked(n, {}) BY AskedFrame DEF Inv
<1>2. n.runtsk = j.runtsk /\ n.nest = j.nest BY DEF SameRest
<1>3. n.runtsk # NULL => n.runtsk \in Runnable(n) BY <1>2 DEF Inv
<1> QED BY <1>1, <1>2, <1>3, Dispatch DEF Follows, SameRest

Waiting(j, w) == [j EXCEPT !.tstat[j.runtsk] = {wfactor[w]}]

LEMMA WaitForObject ==
    ASSUME NEW j, Inv(j), j.nest = 0, j.dspflg, j.runtsk \in Task, ~j.raster[j.runtsk],
           NEW w \in Wobj,
           NEW n, \/ n = dispatch(wobj_make_wait(Waiting(j, w), w))
                  \/ n = dispatch(wobj_make_wait_tmout(Waiting(j, w), w))
    PROVE  /\ Inv(n) /\ Joins(j, n, w, j.runtsk) /\ n.lastmtx = j.lastmtx
           /\ n.nest = 0 /\ n.dspflg
<1> DEFINE t == j.runtsk
           b == Waiting(j, w)
           factor == wfactor[w]
<1>1. /\ j \in KernelState /\ Settled(j) /\ Fine(j, {}) /\ t \in Runnable(j) /\ Asked(j, {})
  BY Known, NullNotTask
<1>2. factor \in WaitFactor /\ factor # TS_WAITING_DLY
  BY WobjAssumption, Factors
<1>3. "wait_tmout" \in CallBack /\ "wait_tmout" # "wait_tmout_ok" BY DEF CallBack
<1>4. b = [j EXCEPT !.tstat[j.runtsk] = {factor}] BY DEF Waiting
<1> HIDE DEF factor, b
<1>5. b.runtsk = t /\ b.tstat = [j.tstat EXCEPT ![t] = {factor}]
  BY <1>1, <1>4 DEF KernelState
<1>6. ASSUME NEW m, m = make_wait(b) \/ m = make_wait_tmout(b, "wait_tmout")
      PROVE  /\ Settled(m) /\ SameRest(j, m) /\ Timed(m, {}) /\ Waits(m, {t})
             /\ m.tstat = b.tstat /\ m.wque = j.wque
  BY <1>1, <1>2, <1>3, <1>4, <1>6, MakeWait
<1> DEFINE insert(m) == [wobj_queue_insert(m, w) EXCEPT !.wobj[t] = w]
<1>7. PICK m : /\ m = make_wait(b) \/ m = make_wait_tmout(b, "wait_tmout")
               /\ n = dispatch(insert(m))
  <2>1. CASE n = dispatch(wobj_make_wait(b, w))
    BY <2>1, <1>5 DEF wobj_make_wait
  <2>2. CASE n = dispatch(wobj_make_wait_tmout(b, w))
    BY <2>2, <1>5 DEF wobj_make_wait_tmout
  <2> QED BY <2>1, <2>2 DEF b
<1>8. /\ Settled(m) /\ SameRest(j, m) /\ Timed(m, {}) /\ Waits(m, {t})
      /\ m.tstat = b.tstat /\ m.wque = j.wque
  BY <1>6, <1>7
<1>9. m.runtsk = t /\ m.nest = 0 /\ m.dspflg BY <1>8 DEF SameRest
<1>10. j.tstat \in [Task -> TStat] BY <1>1 DEF KernelState
<1>11. m.tstat[m.runtsk] = {wfactor[w]} /\ \A u \in Task \ {t} : m.tstat[u] = j.tstat[u]
  BY <1>5, <1>8, <1>9, <1>10 DEF factor
<1> DEFINE i == insert(m)
<1>12. /\ Settled(i) /\ Runnable(i) = Runnable(m) /\ Fine(i, {}) /\ SameButQueues(m, i)
       /\ Joins(m, i, w, t)
  BY <1>8, <1>9, <1>11, JoinQueue
<1>13. n = dispatch(i) BY <1>7
<1> HIDE DEF i
<1>14. Asked(i, {})
  <2>1. \A u \in Task : j.raster[u] /\ u \in Runnable(j) => u \in Runnable(m)
    BY <1>11 DEF Runnable
  <2>2. Asked(m, {}) BY <2>1, <1>1, <1>8, AskedFrame
  <2> QED BY <2>2, <1>12 DEF Asked, SameButQueues
<1>15. i.nest = 0 /\ i.dspflg BY <1>9, <1>12 DEF SameButQueues
<1>16. Inv(n) /\ n.wque = i.wque /\ n.lastmtx = i.lastmtx /\ n.nest = 0 /\ n.dspflg
  BY <1>12, <1>13, <1>14, <1>15, Dispatch DEF Follows
<1>17. n.lastmtx = j.lastmtx BY <1>8, <1>12, <1>16 DEF SameRest, SameButQueues
<1> QED BY <1>8, <1>12, <1>16, <1>17 DEF Joins

(* ... with the first task of queue w released, or all of them.            *)
LEMMA ReleaseHead ==
    ASSUME NEW j, Inv(j), NEW w \in Wobj, j.wque[w] # << >>,
           NEW n, n = dispatch(wait_complete([j EXCEPT !.wque[w] = Tail(@)], Head(j.wque[w])))
    PROVE  /\ Inv(n) /\ Head(j.wque[w]) \in Task /\ n.lastmtx = j.lastmtx
           /\ n.wque[w] = Tail(j.wque[w])
           /\ \A v \in Wobj \ {w} : n.wque[v] = j.wque[v]
<1> DEFINE i == wait_complete([j EXCEPT !.wque[w] = Tail(@)], Head(j.wque[w]))
<1>1. Settled(j) /\ Fine(j, {}) /\ E_OK \in WInfo BY DEF Inv, WInfo, WaitErcd, E_OK
<1>2. /\ Settled(i) /\ Fine(i, {}) /\ SameRest(j, i) /\ Runnable(j) \subseteq Runnable(i)
      /\ Head(j.wque[w]) \in Task
      /\ i.wque[w] = Tail(j.wque[w])
      /\ \A v \in Wobj \ {w} : i.wque[v] = j.wque[v]
  BY <1>1, ReleaseNext DEF wait_complete
<1> HIDE DEF i
<1>3. n = dispatch(i) BY DEF i
<1> QED BY <1>2, <1>3, LeaveReleased

LEMMA ReleaseAll ==
    ASSUME NEW j, Inv(j), NEW w \in Wobj, NEW n, n = dispatch(init_wait_queue(j, w))
    PROVE  /\ Inv(n) /\ n.wque[w] = << >> /\ n.lastmtx = j.lastmtx
           /\ \A v \in Wobj \ {w} : n.wque[v] = j.wque[v]
<1> DEFINE i == init_wait_queue(j, w)
<1>1. Settled(j) /\ Fine(j, {}) BY DEF Inv
<1>2. i \in Released(j, w) /\ i.wque[w] = << >> BY <1>1, InitQueue
<1> HIDE DEF i
<1>3. n = dispatch(i) BY DEF i
<1> QED BY <1>2, <1>3, LeaveReleased DEF Released

\* the running task may wait for an object
MayWait == CHECK_DISPATCH /\ ~k.raster[k.runtsk]

LEMMA InvCaller ==
    ASSUME Inv(k)
    PROVE  /\ CHECK_TSKCTX_UNL => k.runtsk \in Task
           /\ MayWait => k.nest = 0 /\ k.dspflg /\ k.runtsk \in Task /\ ~k.raster[k.runtsk]
BY Known DEF CHECK_DISPATCH, CHECK_TSKCTX_UNL, CHECK_TSKCTX, MayWait

\* a task that runs waits nowhere
LEMMA InvNotQueued ==
    ASSUME Inv(k), k.runtsk \in Task, NEW w \in Wobj
    PROVE  ~Linked(k.wque[w], k.runtsk)
<1>1. Settled(k) /\ Fine(k, {}) /\ k.runtsk \in Runnable(k) BY Known, NullNotTask
<1>2. ~TSTAT_WAIT_WOBJ(k.tstat[k.runtsk]) BY <1>1, RunnableState
<1> QED BY <1>1, <1>2 DEF Fine, Waits

(* The calls that wait for object w.                                       *)
LEMMA InvWaitCalls ==
    ASSUME Inv(k), MayWait, NEW w \in Wobj, NEW factor, wfactor[w] = factor,
           \/ k' = dispatch(wobj_make_wait(waiting_for(factor), w))
           \/ k' = dispatch(wobj_make_wait_tmout(waiting_for(factor), w))
    PROVE  /\ Inv(k)' /\ Joins(k, k', w, k.runtsk) /\ k'.lastmtx = k.lastmtx
           /\ k'.nest = 0 /\ k'.dspflg
<1>1. waiting_for(factor) = Waiting(k, w) BY DEF waiting_for, Waiting
<1>2. k.nest = 0 /\ k.dspflg /\ k.runtsk \in Task /\ ~k.raster[k.runtsk] BY InvCaller
<1>3. \/ k' = dispatch(wobj_make_wait(Waiting(k, w), w))
      \/ k' = dispatch(wobj_make_wait_tmout(Waiting(k, w), w))
  BY <1>1
<1> QED BY <1>2, <1>3, WaitForObject
=============================================================================
