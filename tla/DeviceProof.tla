----------------------------- MODULE DeviceProof -----------------------------
(***************************************************************************)
(* Proofs about HrtTimer, for every width of the counter that meets        *)
(* HrtAssumption (HrtConstants: the 32 bits of the RZ/A1 do): the          *)
(* interrupt of target_hrt_set_event is requested in time, and the time    *)
(* that target_hrt_get_current returns goes on steadily. Then about        *)
(* LogBuffer, for a buffer of any size: its indices and counts agree       *)
(* (LogConsistent), and it implements LogService (LogImplements).          *)
(***************************************************************************)
EXTENDS HrtTimer, LogBuffer, TLAPS

\* The constants of chip_timer.h and chip_kernel.h meet HrtAssumption, with
\* 900000000 counts (27 seconds) left to set the timer or to serve it.
LEMMA HrtConstants ==
    LET cycle == 4294967296  block == 1000000000  bound == 100000002 IN
    /\ block % 100 = 0 /\ 3 * (block + cycle \div block) < cycle
    /\ 3 * (cycle + cycle \div block) = 100 * 128849019
    /\ cycle % block # 0 /\ cycle \div block <= 30
    /\ bound + 1 < 128849019
    /\ bound * 33 + bound \div 3 + 1 + 900000000 < cycle
OBVIOUS

-----------------------------------------------------------------------------
(* Arithmetic.                                                             *)

LEMMA Constants ==
    /\ CYCLE \in Nat \ {0} /\ BLOCK \in Nat \ {0} /\ TCYC_HRTCNT \in Nat \ {0}
    /\ CYCLE \div BLOCK \in Nat /\ CYCLE \div BLOCK <= 30
    /\ 3 * (CYCLE + CYCLE \div BLOCK) = 100 * TCYC_HRTCNT
BY HrtAssumption

\* A sum or difference of two counts is reduced by one cycle at most.
LEMMA U32Near ==
    ASSUME NEW x \in Int, -CYCLE <= x, x < 2 * CYCLE
    PROVE  U32(x) = IF x < 0 THEN x + CYCLE ELSE IF x < CYCLE THEN x ELSE x - CYCLE
BY HrtAssumption DEF U32

\* The same of the HRTCNT's cycle.
LEMMA HrtcntNear ==
    ASSUME NEW x \in Int, -TCYC_HRTCNT <= x, x < TCYC_HRTCNT, TCYC_HRTCNT # 0
    PROVE  x % TCYC_HRTCNT = IF x < 0 THEN x + TCYC_HRTCNT ELSE x
BY HrtAssumption

\* What a count that target_hrt_set_event computes is, without overflow.
LEMMA CountsValue ==
    ASSUME NEW h \in Hrtcnt
    PROVE  /\ h \in Nat \ {0} /\ h + 1 < TCYC_HRTCNT
           /\ counts(h) = h * 33 + h \div 3 + 1
           /\ counts(h) \in Nat \ {0}
           /\ counts(h) + MaxCounts < CYCLE
<1>1. h \in Nat \ {0} /\ h <= HRTCNT_BOUND
  BY HrtAssumption
<1>2. h \div 3 <= HRTCNT_BOUND \div 3 /\ h \div 3 \in Nat
  BY <1>1, HrtAssumption
<1>3. h * 33 + h \div 3 + 1 + MaxCounts < CYCLE
  BY <1>1, <1>2, HrtAssumption
<1>4. counts(h) = h * 33 + h \div 3 + 1
  BY <1>1, <1>2, <1>3, U32Near, HrtAssumption DEF counts
<1> QED
  BY <1>1, <1>2, <1>3, <1>4, HrtAssumption

\* A count consists of whole blocks and a rest.
LEMMA Blocks ==
    ASSUME NEW c \in Nat
    PROVE  /\ c \div BLOCK \in Nat /\ c % BLOCK \in 0 .. BLOCK - 1
           /\ c = (c \div BLOCK) * BLOCK + (c % BLOCK)
BY HrtAssumption

LEMMA BlocksGrow ==
    ASSUME NEW c \in Nat, NEW d \in Nat, c <= d
    PROVE  c \div BLOCK <= d \div BLOCK
<1> DEFINE p == c \div BLOCK
           q == d \div BLOCK
<1>1. SUFFICES ASSUME p >= q + 1 PROVE FALSE
  BY Blocks
<1>2. p * BLOCK >= (q + 1) * BLOCK
  BY <1>1, Blocks, HrtAssumption
<1>3. (q + 1) * BLOCK = q * BLOCK + BLOCK
  BY Blocks, HrtAssumption
<1> QED
  BY <1>2, <1>3, Blocks, HrtAssumption

LEMMA OneBlock ==
    ASSUME NEW c \in Nat
    PROVE  (c + 1) \div BLOCK <= c \div BLOCK + 1
<1> DEFINE p == c \div BLOCK
           q == (c + 1) \div BLOCK
<1>1. SUFFICES ASSUME q >= p + 2 PROVE FALSE
  BY Blocks
<1>2. q * BLOCK >= (p + 2) * BLOCK
  BY <1>1, Blocks, HrtAssumption
<1>3. (p + 2) * BLOCK = p * BLOCK + BLOCK + BLOCK
  BY Blocks, HrtAssumption
<1> QED
  BY <1>2, <1>3, Blocks, HrtAssumption

\* A hundredth of a microsecond is 3 for each count and for each block.
scaled(c) == 3 * (c + c \div BLOCK)

\* target_hrt_get_current converts as if it had integers without bound.
LEMMA ReadingValue ==
    ASSUME NEW c \in Count
    PROVE  hrt_reading(c) = scaled(c) \div 100
<1> DEFINE c1 == c \div BLOCK
           r  == c % BLOCK
           b  == BLOCK \div 100
<1>1. c \in Nat /\ c < CYCLE
  BY HrtAssumption DEF Count
<1>2. c1 \in Nat /\ r \in 0 .. BLOCK - 1 /\ c = c1 * BLOCK + r
  BY <1>1, Blocks
<1>3. c1 <= CYCLE \div BLOCK
  BY <1>1, BlocksGrow, HrtAssumption
<1>4. c - c1 * (BLOCK - 1) = r + c1
  <2>1. ASSUME NEW x \in Int, NEW y \in Int PROVE x * (y - 1) = x * y - x
    OBVIOUS
  <2>2. c1 * (BLOCK - 1) = c1 * BLOCK - c1
    BY <1>2, <2>1, Constants
  <2> HIDE DEF c1, r
  <2>3. c1 * BLOCK \in Int
    BY <1>2, Constants
  <2> QED
    BY <1>2, <2>2, <2>3
<1>5. U32((r + c1) * 3) = 3 * (r + c1)
  <2>1. CYCLE \div BLOCK \in Nat
    BY Blocks, HrtAssumption
  <2> QED
    BY <1>2, <1>3, <2>1, U32Near, HrtAssumption
<1>6. b \in Nat /\ BLOCK = 100 * b /\ (BLOCK * 3) \div 100 = 3 * b
  BY HrtAssumption
<1>7. scaled(c) = 3 * (r + c1) + 100 * (c1 * (3 * b))
  BY <1>2, <1>6 DEF scaled
<1>8. ASSUME NEW x \in Nat, NEW k \in Nat
      PROVE  (x + 100 * k) \div 100 = x \div 100 + k
  OBVIOUS
<1>9. scaled(c) \div 100 = (3 * (r + c1)) \div 100 + c1 * (3 * b)
  <2>1. 3 * (r + c1) \in Nat /\ c1 * (3 * b) \in Nat
    BY <1>2, <1>6
  <2> QED
    BY <1>7, <1>8, <2>1
<1> QED
  BY <1>4, <1>5, <1>6, <1>9 DEF hrt_reading

\* The reading is below the HRTCNT's cycle, of which the blocks of a cycle of
\* the counter make up what the counts alone are short of.
LEMMA ReadingRange ==
    ASSUME NEW c \in Count
    PROVE  /\ scaled(c) \in Nat /\ scaled(c) <= 100 * TCYC_HRTCNT - 3
           /\ hrt_reading(c) \in 0 .. TCYC_HRTCNT - 1
<1>1. c \in Nat /\ c <= CYCLE - 1
  BY HrtAssumption DEF Count
<1>2. c \div BLOCK <= CYCLE \div BLOCK
  <2>1. c <= CYCLE
    BY <1>1, Constants
  <2> QED
    BY <1>1, <2>1, BlocksGrow, Constants
<1>3. c \div BLOCK \in Nat
  BY <1>1, Blocks
<1>4. scaled(c) \in Nat /\ scaled(c) <= 100 * TCYC_HRTCNT - 3
  BY <1>1, <1>2, <1>3, Constants DEF scaled
<1> QED
  BY <1>4, ReadingValue, Constants

\* n counts after c the reading has gone on by what they are worth, the blocks
\* between them and a carry; a new cycle begins where the old one ends.
LEMMA Advance ==
    ASSUME NEW c \in Count, NEW n \in Nat \ {0}, n < CYCLE
    PROVE  \E k \in 0 .. 30 :
             LET d == U32(c + n)
                 e == IF c + n < CYCLE THEN 0 ELSE TCYC_HRTCNT
             IN  /\ d \in Count
                 /\ scaled(d) + 100 * e = scaled(c) + 3 * n + 3 * k
                 /\ n = 1 => k <= 1
<1>1. c \in Nat /\ c < CYCLE /\ CYCLE \div BLOCK \in 0 .. 30
  BY Blocks, HrtAssumption DEF Count
<1>2. CASE c + n < CYCLE
  <2> DEFINE d == c + n
             k == d \div BLOCK - c \div BLOCK
  <2>1. U32(c + n) = d /\ d \in Count /\ d \in Nat /\ d < CYCLE /\ c <= d
    BY <1>1, <1>2, U32Near, Constants DEF Count
  <2>2. c \div BLOCK \in Nat /\ d \div BLOCK \in Nat
    BY <1>1, <2>1, Blocks
  <2>3. c \div BLOCK <= d \div BLOCK
    BY <1>1, <2>1, BlocksGrow
  <2>4. d \div BLOCK <= CYCLE \div BLOCK
    <3> HIDE DEF d
    <3>1. d <= CYCLE
      BY <2>1, Constants
    <3> QED
      BY <2>1, <3>1, BlocksGrow, Constants
  <2>5. k \in 0 .. 30
    <3> HIDE DEF d
    <3> QED
      BY <1>1, <2>2, <2>3, <2>4
  <2>6. scaled(d) = scaled(c) + 3 * n + 3 * k
    BY <1>1, <2>2 DEF scaled
  <2>7. n = 1 => k <= 1
    <3>1. n = 1 => d \div BLOCK <= c \div BLOCK + 1
      BY <1>1, OneBlock
    <3> HIDE DEF d
    <3> QED
      BY <2>2, <3>1
  <2>8. scaled(d) \in Nat
    BY <2>1, ReadingRange
  <2> HIDE DEF d, k
  <2> QED
    BY <1>2, <2>1, <2>5, <2>6, <2>7, <2>8
<1>3. CASE c + n >= CYCLE
  <2> DEFINE d == c + n - CYCLE
             k == d \div BLOCK + CYCLE \div BLOCK - c \div BLOCK
  <2>1. U32(c + n) = d /\ d \in Count /\ d \in Nat /\ d <= c
    BY <1>1, <1>3, U32Near, Constants DEF Count
  <2>2. c \div BLOCK \in Nat /\ d \div BLOCK \in Nat
    BY <1>1, <2>1, Blocks
  <2>3. d \div BLOCK <= c \div BLOCK
    BY <1>1, <2>1, BlocksGrow
  <2>4. c \div BLOCK <= CYCLE \div BLOCK
    <3>1. c <= CYCLE
      BY <1>1, Constants
    <3> QED
      BY <1>1, <3>1, BlocksGrow, Constants
  <2>5. k \in 0 .. 30
    <3> HIDE DEF d
    <3> QED
      BY <1>1, <2>2, <2>3, <2>4, Constants
  <2>6. scaled(d) + 100 * TCYC_HRTCNT = scaled(c) + 3 * n + 3 * k
    <3>1. d \in Nat /\ d = c + n - CYCLE
      BY <2>1
    <3> HIDE DEF d
    <3> QED
      BY <1>1, <2>2, <3>1, Constants DEF scaled
  <2>7. n = 1 => k <= 1
    <3>1. SUFFICES ASSUME n = 1 PROVE k <= 1
      OBVIOUS
    <3>2. c = CYCLE - 1 /\ d = 0
      BY <1>1, <1>3, <3>1, Constants
    <3>3. CYCLE \div BLOCK <= c \div BLOCK + 1
      <4>1. c + 1 = CYCLE
        BY <3>2, Constants
      <4> QED
        BY <1>1, <4>1, OneBlock
    <3>4. d \div BLOCK = 0
      BY <3>2, Constants
    <3> HIDE DEF d
    <3> QED
      BY <1>1, <2>2, <3>3, <3>4
  <2> HIDE DEF d, k
  <2> QED
    BY <1>1, <1>3, <2>1, <2>5, <2>6, <2>7, Constants
<1> QED
  BY <1>1, <1>2, <1>3, Constants

\* The same of what the kernel reads.
LEMMA ReadingAdvance ==
    ASSUME NEW c \in Count, NEW n \in Nat \ {0}, n < CYCLE, NEW h \in Nat,
           h + 1 < TCYC_HRTCNT,
           \A k \in 0 .. 30 : (n = 1 => k <= 1) =>
               100 * h <= 3 * n + 3 * k /\ 3 * n + 3 * k <= 100 * h + 100
    PROVE  advance(c, U32(c + n)) \in {h, h + 1}
<1> DEFINE d == U32(c + n)
           e == IF c + n < CYCLE THEN 0 ELSE TCYC_HRTCNT
<1>1. PICK k \in 0 .. 30 : /\ d \in Count
                           /\ scaled(d) + 100 * e = scaled(c) + 3 * n + 3 * k
                           /\ n = 1 => k <= 1
  BY Advance
<1>2. /\ scaled(d) \in Nat /\ scaled(c) \in Nat
      /\ hrt_reading(d) = scaled(d) \div 100 /\ hrt_reading(c) = scaled(c) \div 100
      /\ hrt_reading(d) \in 0 .. TCYC_HRTCNT - 1 /\ hrt_reading(c) \in 0 .. TCYC_HRTCNT - 1
  BY <1>1, ReadingValue, ReadingRange
<1>3. e \in {0, TCYC_HRTCNT} /\ e \in Nat
  BY HrtAssumption
<1>4. /\ scaled(d) + 100 * e >= scaled(c) + 100 * h
      /\ scaled(d) + 100 * e <= scaled(c) + 100 * h + 100
  BY <1>1, <1>2
<1>5. hrt_reading(d) + e - hrt_reading(c) \in {h, h + 1}
  <2> HIDE DEF d, e
  <2> QED
    BY <1>2, <1>3, <1>4
<1>6. hrt_reading(d) - hrt_reading(c) \in {h - e, h + 1 - e}
  <2> HIDE DEF d, e
  <2> QED
    BY <1>2, <1>3, <1>5
<1>7. h - e \in Int /\ h + 1 - e \in Int /\ -TCYC_HRTCNT <= h - e /\ h + 1 - e < TCYC_HRTCNT
  BY <1>3, HrtAssumption
<1>8. (h - e) % TCYC_HRTCNT = h /\ (h + 1 - e) % TCYC_HRTCNT = h + 1
  BY <1>3, <1>7, HrtcntNear, HrtAssumption
<1> QED
  BY <1>6, <1>8 DEF advance
-----------------------------------------------------------------------------
(* The driver. While it sets the timer, and until the interrupt is taken,  *)
(* the counter is so many counts past the one that was read as have passed,*)
(* the compare register so many as were set; those that pass before the    *)
(* second reading of the counter are why it is there.                      *)
isset == pc \in {"written", "armed"}

HrtInv ==
    /\ cnt \in Count /\ cmp \in Count /\ current \in Count
    /\ intreq \in BOOLEAN /\ passed \in Nat
    /\ pc \in {"idle", "read", "written", "armed"}
    /\ pc # "idle" =>
         /\ hrtcnt \in Hrtcnt
         /\ passed <= counts(hrtcnt) + MaxCounts
         /\ cnt = U32(current + passed)
    /\ setting => passed <= MaxCounts
    /\ isset => cmp = U32(current + counts(hrtcnt))
    /\ pc = "armed" /\ ~intreq => passed < counts(hrtcnt)

LEMMA CountRange ==
    /\ Count = 0 .. CYCLE - 1
    /\ 0 \in Count /\ CYCLE - 1 \in Count
    /\ \A x \in Nat : U32(x) \in Count
    /\ \A c \in Count : c \in Nat /\ c < CYCLE /\ U32(c + 0) = c
BY Constants, U32Near DEF Count, U32

\* What is left to the compare register is what is left of the counts set.
LEMMA Ahead ==
    ASSUME NEW c \in Count, NEW m \in Nat, NEW n \in Nat, m <= n, n < CYCLE
    PROVE  U32(U32(c + n) - U32(c + m)) = n - m
BY U32Near, CountRange, Constants

LEMMA NextCount ==
    ASSUME NEW c \in Count, NEW m \in Nat, m < CYCLE
    PROVE  U32(U32(c + m) + 1) = U32(c + (m + 1))
BY U32Near, CountRange, Constants

LEMMA InitInv == HrtInit => HrtInv
BY CountRange DEF HrtInit, HrtInv, setting, isset

LEMMA NextInv == HrtInv /\ [HrtNext]_hrt_vars => HrtInv'
<1> SUFFICES ASSUME HrtInv, [HrtNext]_hrt_vars PROVE HrtInv'
  OBVIOUS
<1>1. CASE tick
  <2>1. cnt' \in Count /\ intreq' \in BOOLEAN /\ passed' \in Nat
    BY <1>1, CountRange, Constants DEF tick, HrtInv
  <2>2. /\ UNCHANGED <<cmp, pc, hrtcnt, current>>
        /\ setting' = setting /\ isset' = isset
    BY <1>1 DEF tick, setting, isset
  <2>3. ASSUME pc # "idle"
        PROVE  /\ passed' = passed + 1 /\ cnt' = U32(current + passed')
               /\ passed' <= counts(hrtcnt) + MaxCounts
               /\ setting => passed' <= MaxCounts
               /\ pc = "armed" /\ ~intreq' => passed' < counts(hrtcnt)
    <3>1. hrtcnt \in Hrtcnt /\ passed' = passed + 1 /\ cnt' = U32(cnt + 1)
      BY <1>1, <2>3 DEF tick, HrtInv
    <3>2. counts(hrtcnt) \in Nat \ {0} /\ counts(hrtcnt) + MaxCounts < CYCLE /\ MaxCounts \in Nat
      BY <3>1, CountsValue, HrtAssumption
    <3>3. passed < CYCLE
      BY <2>3, <3>2, Constants DEF HrtInv
    <3>4. cnt' = U32(current + passed')
      BY <2>3, <3>1, <3>3, NextCount DEF HrtInv
    <3>5. CASE setting
      <4>1. passed' <= MaxCounts /\ pc # "armed"
        BY <1>1, <3>1, <3>2, <3>5 DEF tick, setting, HrtInv
      <4> QED
        BY <3>1, <3>2, <3>4, <3>5, <4>1 DEF HrtInv
    <3>6. CASE pc = "armed" /\ intreq
      <4>1. passed < counts(hrtcnt) + MaxCounts /\ intreq'
        BY <1>1, <3>6, Zenon DEF tick
      <4>2. passed' <= counts(hrtcnt) + MaxCounts
        BY <3>1, <3>2, <4>1 DEF HrtInv
      <4> QED
        BY <3>1, <3>4, <3>6, <4>1, <4>2 DEF setting
    <3>7. CASE pc = "armed" /\ ~intreq
      <4>1. passed < counts(hrtcnt) /\ cmp = U32(current + counts(hrtcnt))
        BY <3>7 DEF HrtInv, isset
      <4>2. passed' = counts(hrtcnt) => intreq'
        BY <1>1, <3>4, <4>1 DEF tick
      <4> QED
        BY <3>1, <3>2, <3>4, <3>7, <4>1, <4>2 DEF setting, HrtInv
    <3> QED
      BY <2>3, <3>5, <3>6, <3>7 DEF setting, HrtInv
  <2>4. /\ pc' = pc /\ hrtcnt' = hrtcnt /\ current' = current /\ cmp' = cmp
        /\ counts(hrtcnt)' = counts(hrtcnt)
    BY <2>2
  <2>5. /\ (pc # "idle" => /\ hrtcnt \in Hrtcnt
                           /\ passed <= counts(hrtcnt) + MaxCounts
                           /\ cnt = U32(current + passed))'
        /\ (setting => passed <= MaxCounts)'
        /\ (pc = "armed" /\ ~intreq => passed < counts(hrtcnt))'
    BY <2>2, <2>3, <2>4 DEF HrtInv, setting
  <2>6. (isset => cmp = U32(current + counts(hrtcnt)))'
    BY <2>2, <2>4 DEF HrtInv
  <2> QED
    BY <2>1, <2>4, <2>5, <2>6 DEF HrtInv
<1>2. CASE \E h \in Hrtcnt : set_event(h)
  <2>1. PICK h \in Hrtcnt : set_event(h)
    BY <1>2
  <2>2. cnt = U32(cnt + 0)
    BY U32Near, CountRange, Constants DEF HrtInv
  <2>3. counts(h) \in Nat /\ MaxCounts \in Nat
    BY CountsValue, HrtAssumption
  <2> QED
    BY <2>1, <2>2, <2>3 DEF set_event, HrtInv, setting, isset
<1>3. CASE set_event_write
  <2>1. hrtcnt \in Hrtcnt /\ current \in Count
    BY <1>3 DEF set_event_write, HrtInv
  <2>2. current + counts(hrtcnt) \in Nat
    <3>1. counts(hrtcnt) \in Nat
      BY <2>1, CountsValue
    <3>2. current \in Nat
      BY <2>1, CountRange
    <3> HIDE DEF counts
    <3> QED
      BY <3>1, <3>2
  <2>3. cmp' \in Count /\ intreq' \in BOOLEAN
    BY <1>3, <2>2, CountRange DEF set_event_write, HrtInv
  <2> QED
    BY <1>3, <2>3 DEF set_event_write, HrtInv, setting, isset
<1>4. CASE set_event_check
  <2>1. hrtcnt \in Hrtcnt /\ passed \in Nat /\ passed <= MaxCounts /\ current \in Count
    BY <1>4 DEF set_event_check, HrtInv, setting
  <2>2. passed < CYCLE /\ counts(hrtcnt) \in Nat
    BY <2>1, CountsValue, HrtAssumption
  <2>3. U32(cnt - current) = passed
    <3>1. cnt = U32(current + passed)
      BY <1>4 DEF set_event_check, HrtInv
    <3>2. U32(U32(current + passed) - U32(current + 0)) = passed - 0
      BY <2>1, <2>2, Ahead
    <3> QED
      BY <2>1, <3>1, <3>2, CountRange
  <2>4. ~intreq' => ~(passed >= counts(hrtcnt))
    BY <1>4, <2>3, Zenon DEF set_event_check
  <2>5. ~intreq' => passed < counts(hrtcnt)
    BY <2>1, <2>2, <2>4
  <2> QED
    BY <1>4, <2>1, <2>5 DEF set_event_check, HrtInv, setting, isset
<1>5. CASE target_hrt_raise_event
  BY <1>5 DEF target_hrt_raise_event, HrtInv, setting, isset
<1>6. CASE target_hrt_handler
  BY <1>6, CountRange DEF target_hrt_handler, HrtInv, setting, isset
<1>7. CASE UNCHANGED hrt_vars
  BY <1>7 DEF hrt_vars, HrtInv, setting, isset
<1> QED
  BY <1>1, <1>2, <1>3, <1>4, <1>5, <1>6, <1>7 DEF HrtNext

LEMMA Invariance == HrtSpec => []HrtInv
<1> QED
  BY InitInv, NextInv, PTL DEF HrtSpec

\* The interrupt set by target_hrt_set_event is requested in time, for every
\* width of the counter and however long it takes to set the register.
THEOREM InTime == HrtSpec => []HrtInTime
<1>1. HrtInv => HrtInTime
  <2> SUFFICES ASSUME HrtInv, pc = "armed", ~intreq
               PROVE  passed < counts(hrtcnt) /\ U32(cmp - cnt) = counts(hrtcnt) - passed
    BY DEF HrtInTime
  <2>1. /\ passed < counts(hrtcnt) /\ passed \in Nat /\ current \in Count
        /\ cmp = U32(current + counts(hrtcnt)) /\ cnt = U32(current + passed)
        /\ hrtcnt \in Hrtcnt
    BY DEF HrtInv, isset
  <2>2. counts(hrtcnt) \in Nat /\ counts(hrtcnt) < CYCLE
    BY <2>1, CountsValue, HrtAssumption
  <2> QED
    BY <2>1, <2>2, Ahead
<1> QED
  BY <1>1, Invariance, PTL

\* The reading of target_hrt_get_current never goes back, nor on by more than
\* one a count, and has gone on by what the interrupt was set for when it comes.
THEOREM Steady == HrtSpec => HrtSteady
<1> DEFINE Step == /\ advance(cnt, cnt') \in {0, 1}
                   /\ pc = "armed" /\ ~intreq /\ intreq' /\ tick =>
                        advance(current, cnt') \in {hrtcnt, hrtcnt + 1}
<1>1. HrtInv /\ [HrtNext]_hrt_vars => [Step]_hrt_vars
  <2> SUFFICES ASSUME HrtInv, HrtNext PROVE Step
    OBVIOUS
  <2>1. ASSUME cnt' = cnt PROVE advance(cnt, cnt') \in {0, 1}
    <3>1. hrt_reading(cnt) \in Nat
      BY ReadingRange DEF HrtInv
    <3>2. hrt_reading(cnt') - hrt_reading(cnt) = 0
      BY <2>1, <3>1
    <3>3. 0 % TCYC_HRTCNT = 0
      BY Constants
    <3> QED
      BY <3>2, <3>3 DEF advance
  <2>2. ASSUME tick PROVE advance(cnt, cnt') \in {0, 1}
    <3>1. cnt' = U32(cnt + 1) /\ cnt \in Count
      BY <2>2 DEF tick, HrtInv
    <3>2. 1 < CYCLE /\ 0 + 1 < TCYC_HRTCNT
      BY HrtAssumption
    <3>3. \A k \in 0 .. 30 : (1 = 1 => k <= 1) =>
              100 * 0 <= 3 * 1 + 3 * k /\ 3 * 1 + 3 * k <= 100 * 0 + 100
      OBVIOUS
    <3>4. advance(cnt, U32(cnt + 1)) \in {0, 0 + 1}
      BY <3>1, <3>2, <3>3, ReadingAdvance
    <3> QED
      BY <3>1, <3>4
  <2>3. tick \/ cnt' = cnt
    BY DEF HrtNext, set_event, set_event_write, set_event_check,
           target_hrt_raise_event, target_hrt_handler
  <2>4. ASSUME pc = "armed", ~intreq, intreq', tick
        PROVE  advance(current, cnt') \in {hrtcnt, hrtcnt + 1}
    <3> DEFINE n == counts(hrtcnt)
    <3>1. /\ hrtcnt \in Hrtcnt /\ current \in Count /\ passed \in Nat /\ passed < n
          /\ cmp = U32(current + n) /\ cnt' = cmp
      BY <2>4 DEF HrtInv, isset, tick
    <3>2. /\ hrtcnt \in Nat \ {0} /\ hrtcnt + 1 < TCYC_HRTCNT
          /\ n = hrtcnt * 33 + hrtcnt \div 3 + 1 /\ n \in Nat \ {0} /\ n < CYCLE
      BY <3>1, CountsValue, HrtAssumption
    <3>3. \A k \in 0 .. 30 : (n = 1 => k <= 1) =>
              100 * hrtcnt <= 3 * n + 3 * k /\ 3 * n + 3 * k <= 100 * hrtcnt + 100
      <4> HIDE DEF n
      <4> QED
        BY <3>2
    <3>4. advance(current, U32(current + n)) \in {hrtcnt, hrtcnt + 1}
      <4> HIDE DEF n
      <4> QED
        BY <3>1, <3>2, <3>3, ReadingAdvance
    <3> QED
      BY <3>1, <3>4
  <2> QED
    BY <2>1, <2>2, <2>3, <2>4
<1> QED
  BY <1>1, Invariance, PTL DEF HrtSpec, HrtSteady
-----------------------------------------------------------------------------
(* The log buffer.                                                         *)

\* What LogService reads: what is pending, and what was read.
pending == with_lost(lost, stored)
out == with_lost(got.lost, got.messages)

\* What LogService keeps of what is pending.
keep(q) == [i \in 1 .. Len(q) |-> IF Len(q) - logBufferSize < i THEN q[i] ELSE LOST]

-----------------------------------------------------------------------------
(* The indices.                                                            *)

\* An index goes around the end of the buffer once at most.
LEMMA FurtherSlot ==
    ASSUME NEW x \in Slot, NEW i \in 0 .. logBufferSize
    PROVE  further(x, i) \in Slot
BY LogAssumption DEF Slot, further

\* To go on one by one is to go on by the sum.
LEMMA FurtherTwice ==
    ASSUME NEW x \in Slot, NEW i \in 0 .. logBufferSize - 1
    PROVE  /\ further(further(x, 1), i) = further(x, i + 1)
           /\ further(further(x, i), 1) = further(x, i + 1)
BY LogAssumption DEF Slot, further

\* Different distances lead to different slots, until the buffer is around.
LEMMA FurtherDistinct ==
    ASSUME NEW x \in Slot, NEW i \in 0 .. logBufferSize - 1, NEW j \in 0 .. logBufferSize - 1,
           i # j
    PROVE  further(x, i) # further(x, j)
BY LogAssumption DEF Slot, further

\* A whole way around leads back.
LEMMA FurtherAround ==
    ASSUME NEW x \in Slot
    PROVE  further(x, logBufferSize) = x /\ further(x, 0) = x
BY LogAssumption DEF Slot, further

-----------------------------------------------------------------------------
(* The invariant.                                                          *)

LEMMA LogInitOK == LogInit => LogOK
BY LogAssumption DEF LogInit, LogOK, Slot, further

LEMMA RecordOK ==
    ASSUME LogOK, NEW m \in Message, record(m)
    PROVE  LogOK'
<1> USE LogAssumption
<1>1. CASE count < logBufferSize
  <2>1. /\ logBuffer' = [logBuffer EXCEPT ![tail] = m] /\ tail' = further(tail, 1)
        /\ count' = count + 1 /\ head' = head /\ lost' = lost
    BY <1>1 DEF record
  <2>2. tail' = further(head, count + 1) /\ tail' \in Slot
    BY <2>1, <1>1, FurtherTwice, FurtherSlot DEF LogOK
  <2> QED
    BY <2>1, <2>2, <1>1 DEF LogOK, further
<1>2. CASE count = logBufferSize
  <2>1. /\ logBuffer' = [logBuffer EXCEPT ![tail] = m] /\ tail' = further(tail, 1)
        /\ count' = count /\ head' = tail' /\ lost' = lost + 1
    BY <1>2 DEF record
  <2>2. tail' \in Slot
    BY <2>1, FurtherSlot DEF LogOK
  <2>3. further(tail', logBufferSize) = tail'
    BY <2>2, FurtherAround
  <2> QED
    BY <2>1, <2>2, <2>3, <1>2 DEF LogOK, further
<1> QED
  BY <1>1, <1>2 DEF LogOK

LEMMA LogNextOK == LogOK /\ [LogNext]_log_vars => LogOK'
<1> SUFFICES ASSUME LogOK, [LogNext]_log_vars PROVE LogOK'
  OBVIOUS
<1> USE LogAssumption
<1>1. ASSUME NEW m \in Message, eSysLog_write(m) PROVE LogOK'
  <2>1. CASE priority[m] \notin logMask
    BY <1>1, <2>1 DEF LogOK, eSysLog_write, further
  <2>2. CASE priority[m] \in logMask
    BY <1>1, <2>2, RecordOK DEF eSysLog_write
  <2> QED
    BY <2>1, <2>2
<1>2. ASSUME eSysLog_read PROVE LogOK'
  <2>1. CASE count = 0
    BY <1>2, <2>1 DEF LogOK, eSysLog_read, further
  <2>2. CASE count > 0
    <3>1. /\ count' = count - 1 /\ head' = further(head, 1) /\ lost' = 0
          /\ logBuffer' = logBuffer /\ tail' = tail
      BY <1>2, <2>2 DEF eSysLog_read
    <3>2. head' \in Slot /\ tail' = further(head', count')
      BY <3>1, <2>2, FurtherSlot, FurtherTwice DEF LogOK
    <3> QED
      BY <3>1, <3>2, <2>2 DEF LogOK, further
  <2> QED
    BY <2>1, <2>2 DEF LogOK
<1>3. ASSUME eSysLog_flush PROVE LogOK'
  <2>1. CASE count = 0
    BY <1>3, <2>1 DEF LogOK, eSysLog_flush, further
  <2>2. CASE count > 0
    <3>1. /\ count' = 0 /\ head' = further(head, count) /\ lost' = 0
          /\ logBuffer' = logBuffer /\ tail' = tail
      BY <1>3, <2>2 DEF eSysLog_flush
    <3>2. head' \in Slot
      BY <3>1, FurtherSlot DEF LogOK
    <3>3. further(head', 0) = head'
      BY <3>2, FurtherAround
    <3> QED
      BY <3>1, <3>2, <3>3 DEF LogOK, further
  <2> QED
    BY <2>1, <2>2 DEF LogOK
<1>4. ASSUME NEW mask \in SUBSET Priority, eSysLog_mask(mask) PROVE LogOK'
  BY <1>4 DEF LogOK, eSysLog_mask, further
<1>5. CASE UNCHANGED log_vars
  BY <1>5 DEF LogOK, log_vars, further
<1> QED
  BY <1>1, <1>2, <1>3, <1>4, <1>5 DEF LogNext

\* The indices and counts of the log buffer agree, whatever is written and
\* read, and there is a message to report each loss with.
THEOREM LogConsistent == LogSpec => []LogOK
BY LogInitOK, LogNextOK, PTL DEF LogSpec

-----------------------------------------------------------------------------
(* The refinement. What is pending, message by message, for the buffer b   *)
(* of which c messages from the index h on are stored, and l lost ones.    *)
item(b, h, l, i) == IF i <= l THEN LOST ELSE b[further(h, i - l - 1)]
items(b, c, h, l) == [i \in 1 .. l + c |-> item(b, h, l, i)]

LEMMA Items ==
    ASSUME NEW b \in [Slot -> Message], NEW c \in 0 .. logBufferSize,
           NEW h \in Slot, NEW l \in Nat
    PROVE  /\ items(b, c, h, l) \in Seq(Message \cup {LOST})
           /\ Len(items(b, c, h, l)) = l + c
           /\ with_lost(l, [i \in 1 .. c |-> b[further(h, i - 1)]]) = items(b, c, h, l)
<1>1. \A i \in 1 .. c : further(h, i - 1) \in Slot /\ b[further(h, i - 1)] \in Message
  BY FurtherSlot, LogAssumption
<1>2. \A i \in 1 .. l + c : item(b, h, l, i) \in Message \cup {LOST}
  <2> SUFFICES ASSUME NEW i \in 1 .. l + c, i > l PROVE item(b, h, l, i) \in Message
    BY DEF item
  <2>1. i - l \in 1 .. c /\ (i - l) - 1 = i - l - 1
    OBVIOUS
  <2> QED
    BY <1>1, <2>1 DEF item
<1>3. items(b, c, h, l) \in Seq(Message \cup {LOST}) /\ Len(items(b, c, h, l)) = l + c
  BY <1>2 DEF items
<1> DEFINE st == [i \in 1 .. c |-> b[further(h, i - 1)]]
<1>4. st \in Seq(Message) /\ Len(st) = c /\ \A i \in 1 .. c : st[i] = b[further(h, i - 1)]
  BY <1>1
<1>5. with_lost(l, st) = items(b, c, h, l)
  <2>1. \A i \in 1 .. l + c : (IF i <= l THEN LOST ELSE st[i - l]) = item(b, h, l, i)
    <3> SUFFICES ASSUME NEW i \in 1 .. l + c, i > l PROVE st[i - l] = b[further(h, i - l - 1)]
      BY DEF item
    <3>1. i - l \in 1 .. c /\ (i - l) - 1 = i - l - 1
      OBVIOUS
    <3> HIDE DEF st
    <3> QED
      BY <1>4, <3>1
  <2> HIDE DEF st
  <2> QED
    BY <1>4, <2>1 DEF with_lost, items
<1> QED
  BY <1>3, <1>5

\* The last message of a sequence that has one more.
LEMMA AppendValue ==
    ASSUME NEW S, NEW p \in Seq(S), NEW x \in S
    PROVE  /\ Append(p, x) \in Seq(S) /\ Len(Append(p, x)) = Len(p) + 1
           /\ \A i \in 1 .. Len(p) + 1 :
                 Append(p, x)[i] = IF i <= Len(p) THEN p[i] ELSE x
OBVIOUS

\* A message that is recorded becomes the last that is pending; in a full
\* buffer, one more of the oldest is lost.
LEMMA RecordKeeps ==
    ASSUME logBuffer \in [Slot -> Message], count \in 0 .. logBufferSize,
           head \in Slot, lost \in Nat, lost > 0 => count = logBufferSize,
           NEW m \in Message,
           logBuffer' = [logBuffer EXCEPT ![further(head, count)] = m]
    PROVE  /\ count < logBufferSize =>
                keep(Append(items(logBuffer, count, head, lost), m)) = items(logBuffer', count + 1, head, lost)
           /\ count = logBufferSize =>
                keep(Append(items(logBuffer, count, head, lost), m)) = items(logBuffer', count, further(head, 1), lost + 1)
<1> DEFINE p == items(logBuffer, count, head, lost)
           q == Append(p, m)
           n == lost + count
<1>1. p \in Seq(Message \cup {LOST}) /\ Len(p) = n /\ n \in Nat
      /\ \A i \in 1 .. n : p[i] = item(logBuffer, head, lost, i)
  <2>1. p \in Seq(Message \cup {LOST}) /\ Len(p) = n
    BY Items, Zenon
  <2>3. n \in Nat
    BY LogAssumption
  <2>2. p = [i \in 1 .. n |-> item(logBuffer, head, lost, i)]
    BY DEF items
  <2> HIDE DEF p
  <2> QED
    BY <2>1, <2>2, <2>3
<1>2. Len(q) = n + 1 /\ \A i \in 1 .. n + 1 : q[i] = IF i <= n THEN item(logBuffer, head, lost, i) ELSE m
  <2> HIDE DEF p
  <2> QED
    BY <1>1, AppendValue
<1>3. keep(q) =
        [i \in 1 .. n + 1 |-> IF n + 1 - logBufferSize < i THEN q[i] ELSE LOST]
  <2> HIDE DEF p, q, n
  <2> QED
    BY <1>1, <1>2, LogAssumption DEF keep
<1> HIDE DEF p, q
<1>4. further(head, count) \in Slot /\ logBuffer' \in [Slot -> Message]
  BY FurtherSlot
<1>5. CASE count < logBufferSize
  <2>1. lost = 0 /\ n = count
    BY <1>5
  <2>2. ASSUME NEW i \in 1 .. n + 1 PROVE q[i] = item(logBuffer', head, lost, i)
    <3>1. CASE i <= n
      <4>1. further(head, i - 1) # further(head, count) /\ further(head, i - 1) \in Slot
        BY <1>5, <2>1, <3>1, FurtherDistinct, FurtherSlot, LogAssumption
      <4> QED
        BY <4>1, <1>2, <2>1, <3>1 DEF item
    <3>2. CASE i = n + 1
      BY <1>2, <1>4, <2>1, <3>2 DEF item
    <3> QED
      BY <3>1, <3>2, <1>1
  <2>3. \A i \in 1 .. n + 1 : n + 1 - logBufferSize < i
    BY <1>5, <2>1, LogAssumption
  <2>4. items(logBuffer', count + 1, head, lost) = [i \in 1 .. n + 1 |-> item(logBuffer', head, lost, i)]
    BY <1>1, <2>1 DEF items
  <2>5. keep(q) = items(logBuffer', count + 1, head, lost)
    BY <1>3, <2>2, <2>3, <2>4
  <2> QED
    BY <1>5, <2>5 DEF p, q
<1>6. CASE count = logBufferSize
  <2>1. further(head, count) = head /\ n + 1 - logBufferSize = lost + 1
    BY <1>6, FurtherAround, LogAssumption
  <2>2. ASSUME NEW i \in 1 .. n + 1
        PROVE  (IF n + 1 - logBufferSize < i THEN q[i] ELSE LOST)
                 = item(logBuffer', further(head, 1), lost + 1, i)
    <3>1. CASE i <= lost + 1
      BY <2>1, <3>1 DEF item
    <3>2. CASE i > lost + 1 /\ i <= n
      <4> DEFINE j == i - lost - 1
      <4>1. j \in 1 .. logBufferSize - 1 /\ j = (i - (lost + 1) - 1) + 1
        BY <1>6, <3>2, LogAssumption
      <4>2. further(further(head, 1), i - (lost + 1) - 1) = further(head, j)
        BY <4>1, FurtherTwice, LogAssumption
      <4>3. further(head, j) # head /\ further(head, j) \in Slot
        BY <4>1, FurtherDistinct, FurtherAround, FurtherSlot, LogAssumption
      <4> QED
        BY <4>2, <4>3, <1>2, <2>1, <3>2 DEF item
    <3>3. CASE i = n + 1
      <4>1. i - (lost + 1) - 1 = logBufferSize - 1
        BY <1>6, <3>3, LogAssumption
      <4>2. further(further(head, 1), logBufferSize - 1) = head
        BY FurtherTwice, FurtherAround, LogAssumption
      <4> QED
        BY <4>1, <4>2, <1>2, <1>4, <1>6, <2>1, <3>3, LogAssumption DEF item
    <3> QED
      BY <3>1, <3>2, <3>3, <1>1
  <2>3. items(logBuffer', count, further(head, 1), lost + 1)
          = [i \in 1 .. n + 1 |-> item(logBuffer', further(head, 1), lost + 1, i)]
    <3>1. lost + 1 + count = n + 1
      BY <1>1
    <3> QED
      BY <3>1 DEF items
  <2>4. keep(q) = items(logBuffer', count, further(head, 1), lost + 1)
    BY <1>3, <2>2, <2>3
  <2> QED
    BY <1>6, <2>4 DEF p, q
<1> QED
  BY <1>5, <1>6 DEF p, q

\* A part of a sequence.
LEMMA SubSeqValue ==
    ASSUME NEW S, NEW p \in Seq(S), NEW f \in 1 .. Len(p) + 1, NEW t \in f - 1 .. Len(p)
    PROVE  SubSeq(p, f, t) = [i \in 1 .. t - f + 1 |-> p[i + f - 1]]
OBVIOUS

\* What eSysLog_read takes is the first message with the loss before it.
LEMMA ReadTakes ==
    ASSUME NEW b \in [Slot -> Message], NEW c \in 1 .. logBufferSize,
           NEW h \in Slot, NEW l \in Nat
    PROVE  /\ items(b, c, h, l)[l + 1] \in Message
           /\ SubSeq(items(b, c, h, l), 1, l + 1) = with_lost(l, <<b[h]>>)
           /\ SubSeq(items(b, c, h, l), l + 2, l + c) = items(b, c - 1, further(h, 1), 0)
<1> DEFINE p == items(b, c, h, l)
<1>1. c \in 0 .. logBufferSize /\ c \in Nat /\ c > 0
  BY LogAssumption
<1>2. p \in Seq(Message \cup {LOST}) /\ Len(p) = l + c
  BY <1>1, Items, Zenon
<1>3. \A i \in 1 .. l + c : p[i] = item(b, h, l, i)
  BY <1>1 DEF items
<1>4. p[l + 1] = b[h] /\ b[h] \in Message
  <2>1. item(b, h, l, l + 1) = b[further(h, 0)]
    BY DEF item
  <2> HIDE DEF p
  <2> QED
    BY <1>1, <1>3, <2>1, FurtherAround
<1> HIDE DEF p
<1>5. SubSeq(p, 1, l + 1) = with_lost(l, <<b[h]>>)
  <2>1. SubSeq(p, 1, l + 1) = [i \in 1 .. l + 1 |-> p[i]]
    BY <1>1, <1>2
  <2>2. \A i \in 1 .. l + 1 : p[i] = IF i <= l THEN LOST ELSE <<b[h]>>[i - l]
    BY <1>1, <1>3, <1>4 DEF item
  <2>3. Len(<<b[h]>>) = 1
    OBVIOUS
  <2> QED
    BY <2>1, <2>2, <2>3 DEF with_lost
<1>6. SubSeq(p, l + 2, l + c) = items(b, c - 1, further(h, 1), 0)
  <2>1. SubSeq(p, l + 2, l + c) = [i \in 1 .. c - 1 |-> p[i + l + 1]]
    BY <1>1, <1>2
  <2>2. ASSUME NEW i \in 1 .. c - 1 PROVE p[i + l + 1] = item(b, further(h, 1), 0, i)
    <3>1. further(further(h, 1), i - 1) = further(h, i)
      BY <1>1, FurtherTwice, LogAssumption
    <3>2. p[i + l + 1] = b[further(h, i)]
      BY <1>1, <1>3 DEF item
    <3> QED
      BY <3>1, <3>2 DEF item
  <2>3. items(b, c - 1, further(h, 1), 0) = [i \in 1 .. c - 1 |-> item(b, further(h, 1), 0, i)]
    BY <1>1 DEF items
  <2> QED
    BY <2>1, <2>2, <2>3
<1> QED
  BY <1>4, <1>5, <1>6 DEF p

\* What eSysLog_flush takes is all, and ends in a message.
LEMMA FlushTakes ==
    ASSUME NEW b \in [Slot -> Message], NEW c \in 1 .. logBufferSize,
           NEW h \in Slot, NEW l \in Nat
    PROVE  /\ items(b, c, h, l)[l + c] \in Message
           /\ SubSeq(items(b, c, h, l), 1, l + c) = items(b, c, h, l)
           /\ SubSeq(items(b, c, h, l), l + c + 1, l + c) = << >>
<1> DEFINE p == items(b, c, h, l)
<1>1. c \in 0 .. logBufferSize /\ c \in Nat /\ c > 0
  BY LogAssumption
<1>2. p \in Seq(Message \cup {LOST}) /\ Len(p) = l + c
  BY <1>1, Items, Zenon
<1>3. p[l + c] \in Message
  <2>1. further(h, c - 1) \in Slot
    BY <1>1, FurtherSlot, LogAssumption
  <2>2. p[l + c] = b[further(h, c - 1)]
    BY <1>1 DEF items, item
  <2> QED
    BY <2>1, <2>2
<1> HIDE DEF p
<1>4. SubSeq(p, 1, l + c) = p /\ SubSeq(p, l + c + 1, l + c) = << >>
  BY <1>1, <1>2
<1> QED
  BY <1>3, <1>4 DEF p

-----------------------------------------------------------------------------
(* The steps.                                                              *)

\* What is pending, before and after a step.
LEMMA Pending ==
    /\ LogOK => pending = items(logBuffer, count, head, lost)
    /\ LogOK' => pending' = items(logBuffer', count', head', lost')
<1>1. ASSUME LogOK PROVE pending = items(logBuffer, count, head, lost)
  BY <1>1, Items DEF LogOK, pending, stored
<1>2. ASSUME LogOK' PROVE pending' = items(logBuffer', count', head', lost')
  BY <1>2, Items DEF LogOK, pending, stored
<1> QED
  BY <1>1, <1>2

\* Nothing is read, and nothing is lost with it.
LEMMA NothingOut ==
    /\ with_lost(0, << >>) = << >>
    /\ got = nothing => out = << >>
    /\ got' = nothing => out' = << >>
<1>1. with_lost(0, << >>) = << >>
  BY DEF with_lost
<1> QED
  BY <1>1 DEF out, nothing

LEMMA InitRefines == LogInit => Service!ServiceInit
<1> SUFFICES ASSUME LogInit PROVE pending = << >> /\ out = << >>
  BY DEF Service!ServiceInit, pending, out
<1>1. stored = << >>
  BY DEF LogInit, stored
<1> QED
  BY <1>1, NothingOut DEF LogInit, pending, out

LEMMA NextRefines ==
    ASSUME LogOK, LogOK', [LogNext]_log_vars
    PROVE  [Service!ServiceNext]_(Service!service_vars)
<1> DEFINE p == items(logBuffer, count, head, lost)
<1>0. /\ logBuffer \in [Slot -> Message] /\ count \in 0 .. logBufferSize
      /\ head \in Slot /\ tail = further(head, count)
      /\ lost \in Nat /\ (lost > 0 => count = logBufferSize)
  BY DEF LogOK
<1>p. pending = p /\ pending' = items(logBuffer', count', head', lost')
  BY Pending
<1>l. Len(p) = lost + count
  BY <1>0, Items, Zenon
<1> HIDE DEF p
\* Nothing is read, and what is pending stays.
<1>o. ASSUME got' = nothing, UNCHANGED <<logBuffer, count, head, lost>>
      PROVE  Service!ServiceNext
  <2>1. pending' = pending /\ out' = << >>
    BY <1>p, <1>o, NothingOut DEF p
  <2> QED
    BY <2>1 DEF Service!ServiceNext, Service!Other, pending, out
<1>1. ASSUME NEW m \in Message, eSysLog_write(m) PROVE Service!ServiceNext
  <2>1. CASE priority[m] \notin logMask
    BY <1>1, <2>1, <1>o DEF eSysLog_write
  <2>2. CASE priority[m] \in logMask
    <3>1. record(m) /\ got' = nothing /\ logMask' = logMask
      BY <1>1, <2>2 DEF eSysLog_write
    <3>2. pending' = keep(Append(pending, m))
      <4>1. logBuffer' = [logBuffer EXCEPT ![further(head, count)] = m]
        BY <3>1, <1>0 DEF record
      <4>2. /\ count < logBufferSize =>
                 keep(Append(p, m)) = items(logBuffer', count + 1, head, lost)
            /\ count = logBufferSize =>
                 keep(Append(p, m)) = items(logBuffer', count, further(head, 1), lost + 1)
        BY <1>0, <4>1, RecordKeeps, Zenon DEF p
      <4>3. CASE count < logBufferSize
        <5>1. count' = count + 1 /\ head' = head /\ lost' = lost
          BY <3>1, <4>3 DEF record
        <5> QED
          BY <4>2, <4>3, <5>1, <1>p
      <4>4. CASE count = logBufferSize
        <5>1. count' = count /\ head' = further(tail, 1) /\ lost' = lost + 1
          BY <3>1, <4>4, LogAssumption DEF record
        <5>2. further(tail, 1) = further(head, 1)
          BY <4>4, <1>0, FurtherAround
        <5> QED
          BY <4>2, <4>4, <5>1, <5>2, <1>p
      <4> QED
        BY <4>3, <4>4, <1>0, LogAssumption
    <3>3. out' = << >>
      BY <3>1, NothingOut
    <3>4. Service!Write(m)
      BY <2>2, <3>1, <3>2, <3>3 DEF Service!Write, Service!Kept, keep, pending, out
    <3> QED
      BY <3>4 DEF Service!ServiceNext
  <2> QED
    BY <2>1, <2>2
<1>2. ASSUME eSysLog_read PROVE Service!ServiceNext
  <2>1. CASE count = 0
    BY <1>2, <2>1, <1>o DEF eSysLog_read
  <2>2. CASE count > 0
    <3>1. /\ got' = [lost |-> lost, messages |-> <<logBuffer[head]>>]
          /\ count' = count - 1 /\ head' = further(head, 1) /\ lost' = 0
          /\ logBuffer' = logBuffer /\ logMask' = logMask
      BY <1>2, <2>2 DEF eSysLog_read
    <3>2. count \in 1 .. logBufferSize
      BY <1>0, <2>2
    <3>3. /\ p[lost + 1] \in Message
          /\ SubSeq(p, 1, lost + 1) = with_lost(lost, <<logBuffer[head]>>)
          /\ SubSeq(p, lost + 2, lost + count) = items(logBuffer, count - 1, further(head, 1), 0)
      BY <3>2, <1>0, ReadTakes, Zenon DEF p
    <3>4. /\ pending[lost + 1] # LOST
          /\ out' = SubSeq(pending, 1, lost + 1)
          /\ pending' = SubSeq(pending, lost + 1 + 1, Len(pending))
      <4>1. lost + 1 + 1 = lost + 2
        BY <1>0
      <4> QED
        BY <3>1, <3>3, <4>1, <1>p, <1>l, LogAssumption DEF out
    <3>5. Service!Read(lost + 1)
      BY <3>1, <3>4 DEF Service!Read, pending, out
    <3>6. lost + 1 \in 1 .. Len(pending)
      BY <1>0, <1>p, <1>l, <2>2
    <3> QED
      BY <3>5, <3>6 DEF Service!ServiceNext, pending
  <2> QED
    BY <2>1, <2>2, <1>0
<1>3. ASSUME eSysLog_flush PROVE Service!ServiceNext
  <2>1. CASE count = 0
    BY <1>3, <2>1, <1>o DEF eSysLog_flush
  <2>2. CASE count > 0
    <3>1. /\ got' = [lost |-> lost, messages |-> stored]
          /\ count' = 0 /\ lost' = 0
          /\ logBuffer' = logBuffer /\ logMask' = logMask
      BY <1>3, <2>2 DEF eSysLog_flush
    <3>2. count \in 1 .. logBufferSize
      BY <1>0, <2>2
    <3>3. /\ p[lost + count] \in Message
          /\ SubSeq(p, 1, lost + count) = p
          /\ SubSeq(p, lost + count + 1, lost + count) = << >>
      BY <3>2, <1>0, FlushTakes, Zenon DEF p
    <3>4. /\ pending[lost + count] # LOST
          /\ out' = SubSeq(pending, 1, lost + count)
          /\ pending' = SubSeq(pending, lost + count + 1, Len(pending))
      <4>1. out' = pending
        BY <3>1 DEF out, pending
      <4>2. pending' = << >>
        BY <3>1, <1>p DEF items
      <4> QED
        BY <3>1, <3>3, <4>1, <4>2, <1>p, <1>l, LogAssumption
    <3>5. Service!Read(lost + count)
      BY <3>1, <3>4 DEF Service!Read, pending, out
    <3>6. lost + count \in 1 .. Len(pending)
      BY <1>0, <1>p, <1>l, <2>2
    <3> QED
      BY <3>5, <3>6 DEF Service!ServiceNext, pending
  <2> QED
    BY <2>1, <2>2, <1>0
<1>4. ASSUME NEW mask \in SUBSET Priority, eSysLog_mask(mask) PROVE Service!ServiceNext
  BY <1>4, <1>o DEF eSysLog_mask
<1>5. CASE UNCHANGED log_vars
  BY <1>5 DEF log_vars, Service!service_vars, stored, with_lost
<1> QED
  BY <1>1, <1>2, <1>3, <1>4, <1>5 DEF LogNext

\* The log buffer keeps the promise of LogService, for every size: messages
\* are read in order, the last logBufferSize are kept, and what is lost is
\* reported in its place.
THEOREM LogImplements == LogSpec => ImplementsLog
BY InitRefines, NextRefines, LogConsistent, PTL
   DEF LogSpec, ImplementsLog, Service!ServiceSpec
=============================================================================
