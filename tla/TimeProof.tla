----------------------------- MODULE TimeProof -----------------------------
(***************************************************************************)
(* Proofs about TimeCalls: that the wrapping times, the heap and the timer *)
(* interrupt bring every event in time, whatever is started, stopped and   *)
(* adjusted meanwhile.                                                     *)
(***************************************************************************)
EXTENDS TimeCalls, HeapProof

(* TimesFit holds for the values of the kernel (kernel.h, time_event.h and *)
(* chip_kernel.h): relative times of up to TMAX_RELTIM, 4000 seconds, and  *)
(* an interrupt that may be late by 14 seconds.                            *)
LEMMA KernelTimes ==
    ASSUME EVTTIM_SPAN = 4294967296, BOUNDARY_MARGIN = 200000000,
           TSTEP_HRTCNT = 1, TMAX_ADJTIM = 1000000, TCYC_HRTCNT = 128849019,
           MaxDelay <= 14000000,
           \A d \in RelTim : d <= 4000000000,
           \A e \in Cyclic : cycphs[e] <= 4000000000 /\ cyctim[e] <= 4000000000
    PROVE  TimesFit
<1> DEFINE big == 4000000000
           S == EVTTIM_SPAN
           M == BOUNDARY_MARGIN
           A == TMAX_ADJTIM
<1>1. /\ S \in Nat /\ M \in Nat /\ A \in Nat /\ MaxDelay \in Nat /\ TCYC_HRTCNT \in Nat
      /\ RelTim \subseteq Nat /\ cycphs \in [Cyclic -> Nat]
      /\ cyctim \in [Cyclic -> Nat]
  BY ONLY HeapAssumption, TimeAssumption, NotifyAssumption
<1>2. S = 4294967296 /\ M = 200000000 /\ A = 1000000 BY SMT
<1>3. big \in Nat /\ 1 + big + 2 * A + M < S BY ONLY <1>2, SMT
<1>4. 2 * A + MaxDelay <= M /\ 2 * MaxDelay <= M BY ONLY <1>1, <1>2, MaxDelay <= 14000000, SMT
<1>5. TCYC_HRTCNT + 2 * A <= S BY ONLY <1>1, <1>2, TCYC_HRTCNT = 128849019, SMT
<1>6. /\ \A d \in RelTim : d <= big
      /\ \A e \in Cyclic : cycphs[e] <= big /\ cyctim[e] <= big
  OBVIOUS
<1>7. TSTEP_HRTCNT = 1 OBVIOUS
<1> HIDE DEF big, S, M, A
<1>8. \A d \in RelTim \cup {cycphs[e] : e \in Cyclic} : d \in Nat /\ d <= big
  BY ONLY <1>1, <1>6
<1>9. /\ \A d \in RelTim \cup {cycphs[e] : e \in Cyclic} : TSTEP_HRTCNT + d + 2 * A + M < S
      /\ \A e \in Cyclic : cyctim[e] + 2 * A + M < S
  BY ONLY <1>1, <1>3, <1>6, <1>7, <1>8
<1> QED BY ONLY <1>4, <1>5, <1>9 DEF TimesFit, S, M, A

-----------------------------------------------------------------------------
(* The constants.                                                          *)
LEMMA Spans ==
    /\ EVTTIM_SPAN \in Nat \ {0} /\ BOUNDARY_MARGIN \in Nat /\ BOUNDARY_MARGIN < EVTTIM_SPAN
    /\ TCYC_HRTCNT \in Nat /\ HRTCNT_BOUND \in Nat /\ HRTCNT_BOUND >= 1
    /\ HRTCNT_BOUND + 2 * MaxDelay < TCYC_HRTCNT /\ TCYC_HRTCNT <= EVTTIM_SPAN
    /\ TSTEP_HRTCNT \in Nat \ {0} /\ TMAX_ADJTIM \in Nat /\ MaxDelay \in Nat
    /\ SYSTIM_SPAN \in Nat /\ EVTTIM_SPAN <= SYSTIM_SPAN
<1>1. SYSTIM_SPAN \in Nat \ {0} /\ SYSTIM_SPAN % EVTTIM_SPAN = 0 /\ EVTTIM_SPAN \in Nat \ {0}
  BY HeapAssumption, TimeAssumption
<1>2. EVTTIM_SPAN <= SYSTIM_SPAN
  <2>1. SUFFICES ASSUME SYSTIM_SPAN < EVTTIM_SPAN PROVE FALSE BY <1>1
  <2>2. SYSTIM_SPAN % EVTTIM_SPAN = SYSTIM_SPAN BY <1>1, <2>1, Near
  <2> QED BY <1>1, <2>2
<1> QED BY <1>1, <1>2, HeapAssumption, TimeAssumption, NotifyAssumption

(* The times that are made from the current time.                          *)
LEMMA FromNow ==
    ASSUME NEW x, x.current_evttim \in EVTTIM, NEW d \in Int,
           0 <= BOUNDARY_MARGIN + d, BOUNDARY_MARGIN + d < EVTTIM_SPAN
    PROVE  LET v == (x.current_evttim + d) % EVTTIM_SPAN
           IN  v \in EVTTIM /\ EVTTIM_ADVANCE(x, v) = BOUNDARY_MARGIN + d
<1> DEFINE c == x.current_evttim
           v == (c + d) % EVTTIM_SPAN
<1>1. c \in Nat /\ c < EVTTIM_SPAN BY Spans DEF EVTTIM
<1>2. v = IF c + d < 0 THEN c + d + EVTTIM_SPAN
          ELSE IF c + d < EVTTIM_SPAN THEN c + d ELSE c + d - EVTTIM_SPAN
  <2>1. c + d \in Int /\ -EVTTIM_SPAN <= c + d /\ c + d < 2 * EVTTIM_SPAN BY <1>1, Spans
  <2> QED BY <1>1, <2>1, Spans, NearSpan
<1>3. v \in EVTTIM BY <1>1, <1>2, Spans DEF EVTTIM
<1> HIDE DEF v
<1>4. EVTTIM_ADVANCE(x, v) = BOUNDARY_MARGIN + d
  BY <1>1, <1>2, <1>3, AdvanceValue, Spans
<1> QED BY <1>3, <1>4 DEF v

LEMMA Now ==
    ASSUME NEW x, x.current_evttim \in EVTTIM
    PROVE  EVTTIM_ADVANCE(x, x.current_evttim) = BOUNDARY_MARGIN
<1>1. x.current_evttim \in Nat /\ x.current_evttim < EVTTIM_SPAN BY Spans DEF EVTTIM
<1> QED BY <1>1, AdvanceValue, Spans

LEMMA Later ==
    ASSUME NEW x, x.current_evttim \in EVTTIM, NEW v \in EVTTIM, NEW d \in Nat,
           EVTTIM_ADVANCE(x, v) + d < EVTTIM_SPAN
    PROVE  /\ (v + d) % EVTTIM_SPAN \in EVTTIM
           /\ EVTTIM_ADVANCE(x, (v + d) % EVTTIM_SPAN) = EVTTIM_ADVANCE(x, v) + d
<1> DEFINE c == x.current_evttim
           w == (v + d) % EVTTIM_SPAN
<1>1. /\ c \in Nat /\ c < EVTTIM_SPAN /\ v \in Nat /\ v < EVTTIM_SPAN
      /\ EVTTIM_ADVANCE(x, v) \in Nat
  BY AdvanceValue, Spans DEF EVTTIM
<1>2. w = IF v + d < EVTTIM_SPAN THEN v + d ELSE v + d - EVTTIM_SPAN
  <2>1. v + d \in Int /\ 0 <= v + d /\ v + d < 2 * EVTTIM_SPAN BY <1>1, Spans
  <2> QED BY <1>1, <2>1, Spans, NearSpan
<1>3. w \in EVTTIM BY <1>1, <1>2, Spans DEF EVTTIM
<1> HIDE DEF w
<1>4. EVTTIM_ADVANCE(x, w) = EVTTIM_ADVANCE(x, v) + d
  BY <1>1, <1>2, <1>3, AdvanceValue, Spans
<1> QED BY <1>3, <1>4 DEF w

(* How far ahead a time is that is not past.                               *)
LEMMA Ahead ==
    ASSUME NEW x, x.current_evttim \in EVTTIM, NEW v \in EVTTIM,
           EVTTIM_ADVANCE(x, v) >= BOUNDARY_MARGIN
    PROVE  (v - x.current_evttim) % EVTTIM_SPAN = EVTTIM_ADVANCE(x, v) - BOUNDARY_MARGIN
<1> DEFINE c == x.current_evttim
<1>1. c \in Nat /\ c < EVTTIM_SPAN /\ v \in Nat /\ v < EVTTIM_SPAN BY Spans DEF EVTTIM
<1>2. (v - c) % EVTTIM_SPAN = IF v < c THEN v - c + EVTTIM_SPAN ELSE v - c
  <2>1. v - c \in Int /\ -EVTTIM_SPAN <= v - c /\ v - c < EVTTIM_SPAN BY <1>1, Spans
  <2> QED BY <1>1, <2>1, Spans, NearSpan
<1> QED BY <1>1, <1>2, AdvanceValue, Spans

LEMMA NearSystim ==
    ASSUME NEW i \in Int, -SYSTIM_SPAN <= i, i < 2 * SYSTIM_SPAN
    PROVE  i % SYSTIM_SPAN = IF i < 0 THEN i + SYSTIM_SPAN
                             ELSE IF i < SYSTIM_SPAN THEN i ELSE i - SYSTIM_SPAN
BY TimeAssumption, Near

LEMMA NearTcyc ==
    ASSUME NEW i \in Int, -TCYC_HRTCNT <= i, i < 2 * TCYC_HRTCNT
    PROVE  i % TCYC_HRTCNT = IF i < 0 THEN i + TCYC_HRTCNT
                             ELSE IF i < TCYC_HRTCNT THEN i ELSE i - TCYC_HRTCNT
<1>1. TCYC_HRTCNT \in Nat \ {0} BY Spans
<1> QED BY <1>1, Near

-----------------------------------------------------------------------------
(* Which part of the state an operation leaves alone.                      *)
SameHeap(x, y) ==
    /\ y.tmevt_heap = x.tmevt_heap /\ y.p_last = x.p_last
    /\ y.p_tmevtn = x.p_tmevtn /\ y.evttim = x.evttim
SameClocks(x, y) ==
    /\ y.current_evttim = x.current_evttim /\ y.current_hrtcnt = x.current_hrtcnt
    /\ y.monotonic_evttim = x.monotonic_evttim /\ y.systim_offset = x.systim_offset
    /\ y.since = x.since
SameTimer(x, y) == y.cnt = x.cnt /\ y.cmp = x.cmp /\ y.intreq = x.intreq
SameFlags(x, y) == y.in_signal_time = x.in_signal_time /\ y.sta = x.sta

\* by how much the system time goes on when the current time does so by adv
gains(x, adv) == IF behind(x) < adv THEN adv - behind(x) ELSE 0

(* monotonic_evttim follows the current time where that gets ahead of it;  *)
(* the carry into the upper half of the system time is made just when its  *)
(* lower half wraps around.                                                *)
LEMMA Follow ==
    ASSUME NEW x \in TimeState, NEW y \in TimeState, NEW adv \in 0 .. EVTTIM_SPAN - 1,
           y.monotonic_evttim = x.monotonic_evttim, y.systim_offset = x.systim_offset,
           y.current_evttim = (x.current_evttim + adv) % EVTTIM_SPAN
    PROVE  LET z == follow(y, x.current_evttim, adv) IN
           /\ z \in TimeState /\ SameHeap(y, z) /\ SameTimer(y, z) /\ SameFlags(y, z)
           /\ z.current_evttim = y.current_evttim /\ z.current_hrtcnt = y.current_hrtcnt
           /\ z.since = y.since
           /\ behind(x) \in Nat
           /\ behind(z) = IF behind(x) < adv THEN 0 ELSE behind(x) - adv
           /\ systim(z) = (systim(x) + gains(x, adv)) % SYSTIM_SPAN
<1> DEFINE c == x.current_evttim
           c1 == y.current_evttim
           m == x.monotonic_evttim
           o == x.systim_offset
           B == behind(x)
           S == EVTTIM_SPAN
           SS == SYSTIM_SPAN
           z == follow(y, c, adv)
           o1 == (o + S) % SS
<1>1. /\ c \in Nat /\ c < S /\ c1 \in Nat /\ c1 < S /\ m \in Nat /\ m < S
      /\ o \in Nat /\ o < SS /\ S \in Nat /\ SS \in Nat /\ S <= SS
      /\ adv \in Nat /\ adv < S
  BY Spans DEF TimeState, EVTTIM
<1>2. c1 = IF c + adv < S THEN c + adv ELSE c + adv - S
  <2>1. c + adv \in Int /\ 0 <= c + adv /\ c + adv < 2 * S BY <1>1
  <2> QED BY <1>1, <2>1, NearSpan
<1>3. \A i, j \in 0 .. S - 1 : (i - j) % S = IF i < j THEN i - j + S ELSE i - j
  <2> TAKE i, j \in 0 .. S - 1
  <2>1. i \in Int /\ j \in Int /\ i - j \in Int /\ -S <= i - j /\ i - j < S /\ S \in Int
    BY <1>1
  <2> QED BY ONLY <2>1, NearSpan
<1>4. B = IF m < c THEN m - c + S ELSE m - c
  <2>1. m \in 0 .. S - 1 /\ c \in 0 .. S - 1 BY <1>1
  <2> QED BY <1>3, <2>1 DEF behind
<1>5. \A i, j \in 0 .. SS : i + j < 2 * SS =>
         (i + j) % SS = IF i + j < SS THEN i + j ELSE i + j - SS
  <2> TAKE i, j \in 0 .. SS
  <2> HAVE i + j < 2 * SS
  <2>1. i \in Int /\ j \in Int /\ i + j \in Int /\ 0 <= i + j /\ i + j < 2 * SS /\ SS \in Nat
    BY <1>1
  <2> QED BY ONLY <2>1, NearSystim
<1>6. o1 = IF o + S < SS THEN o + S ELSE o + S - SS
  <2>1. o \in 0 .. SS /\ S \in 0 .. SS /\ o + S < 2 * SS BY <1>1
  <2> QED BY <1>5, <2>1
<1>7. /\ z \in TimeState /\ SameHeap(y, z) /\ SameTimer(y, z) /\ SameFlags(y, z)
      /\ z.current_evttim = c1 /\ z.current_hrtcnt = y.current_hrtcnt
      /\ z.since = y.since
      /\ z.monotonic_evttim = IF B < adv THEN c1 ELSE m
      /\ z.systim_offset = IF B < adv /\ c1 < m THEN o1 ELSE o
  <2>1. o1 \in 0 .. SS - 1 BY <1>1, <1>6
  <2>2. y.monotonic_evttim = m /\ y.systim_offset = o /\ B = (m - c) % S BY DEF behind
  <2> HIDE DEF B, m, c, S, SS
  <2> QED BY <2>1, <2>2
          DEF follow, TimeState, SameHeap, SameTimer, SameFlags, m, S, SS
<1> DEFINE m1 == z.monotonic_evttim
           o2 == z.systim_offset
<1>8. B \in Nat BY <1>1, <1>4
<1>9. behind(z) = (m1 - c1) % S BY <1>7 DEF behind
<1>10. systim(z) = (o2 + m1) % SS /\ systim(x) = (o + m) % SS BY DEF systim
<1>11. m1 = (IF B < adv THEN c1 ELSE m) /\ o2 = IF B < adv /\ c1 < m THEN o1 ELSE o
  BY <1>7
<1> HIDE DEF B, c, c1, m, o, S, SS, z, o1, m1, o2
<1>12. behind(z) = IF B < adv THEN 0 ELSE B - adv
  <2>1. m1 \in 0 .. S - 1 /\ c1 \in 0 .. S - 1 BY <1>1, <1>11
  <2>2. (m1 - c1) % S = IF m1 < c1 THEN m1 - c1 + S ELSE m1 - c1 BY <1>3, <2>1
  <2> QED BY <1>1, <1>2, <1>4, <1>8, <1>9, <1>11, <2>2
<1>13. systim(z) = (systim(x) + gains(x, adv)) % SS
  <2> DEFINE g == gains(x, adv)
  <2>1. g = IF B < adv THEN adv - B ELSE 0 BY DEF gains, B
  <2>2. g \in Nat /\ g < S BY <1>1, <1>8, <2>1
  <2>3. m1 \in Nat /\ m1 < S /\ o2 \in Nat /\ o2 < SS BY <1>1, <1>6, <1>11
  <2>4. systim(x) = IF o + m < SS THEN o + m ELSE o + m - SS
    <3>1. o \in 0 .. SS /\ m \in 0 .. SS /\ o + m < 2 * SS BY <1>1
    <3> QED BY <1>5, <1>10, <3>1
  <2>5. systim(z) = IF o2 + m1 < SS THEN o2 + m1 ELSE o2 + m1 - SS
    <3>1. o2 \in 0 .. SS /\ m1 \in 0 .. SS /\ o2 + m1 < 2 * SS BY <1>1, <2>3
    <3> QED BY <1>5, <1>10, <3>1
  <2> DEFINE a == systim(x)
             b == systim(z)
  <2>6. a \in Nat /\ a < SS BY <1>1, <2>4
  <2> HIDE DEF g, a, b
  <2>7. (a + g) % SS = IF a + g < SS THEN a + g ELSE a + g - SS
    <3>1. a \in 0 .. SS /\ g \in 0 .. SS /\ a + g < 2 * SS BY <1>1, <2>2, <2>6
    <3> QED BY <1>5, <3>1
  <2>8. IF B < adv /\ c1 < m THEN m1 + S = m + g ELSE m1 = m + g
    BY <1>1, <1>2, <1>4, <1>8, <1>11, <2>1
  <2>9. a = (IF o + m < SS THEN o + m ELSE o + m - SS)
        /\ b = IF o2 + m1 < SS THEN o2 + m1 ELSE o2 + m1 - SS
    BY <2>4, <2>5 DEF a, b
  <2>10. b = IF a + g < SS THEN a + g ELSE a + g - SS
    BY <1>1, <1>6, <1>11, <2>2, <2>3, <2>6, <2>8, <2>9
  <2> QED BY <2>7, <2>10 DEF a, b, g
<1> QED BY <1>7, <1>8, <1>12, <1>13 DEF B, c, c1, z, S, SS

-----------------------------------------------------------------------------
(* The clocks go on by s from x to y.                                      *)
Clocks(x, y, s) ==
    /\ y.current_evttim = (x.current_evttim + s) % EVTTIM_SPAN
    /\ behind(y) = IF behind(x) < s THEN 0 ELSE behind(x) - s
    /\ systim(y) = (systim(x) + gains(x, s)) % SYSTIM_SPAN

LEMMA ClockValues ==
    ASSUME NEW x \in TimeState
    PROVE  /\ behind(x) \in 0 .. EVTTIM_SPAN - 1 /\ systim(x) \in 0 .. SYSTIM_SPAN - 1
           /\ x.current_evttim \in 0 .. EVTTIM_SPAN - 1
<1>1. /\ x.current_evttim \in Int /\ x.monotonic_evttim \in Int /\ x.systim_offset \in Int
      /\ x.current_evttim \in 0 .. EVTTIM_SPAN - 1
  BY Spans DEF TimeState, EVTTIM
<1>2. SYSTIM_SPAN \in Nat \ {0} BY Spans
<1> QED BY <1>1, <1>2, Spans DEF behind, systim

LEMMA ClocksSame ==
    ASSUME NEW x \in TimeState, NEW y, SameClocks(x, y)
    PROVE  Clocks(x, y, 0) /\ behind(y) = behind(x) /\ systim(y) = systim(x)
<1> DEFINE B == behind(x)
           a == systim(x)
           c == x.current_evttim
<1>1. behind(y) = B /\ systim(y) = a /\ y.current_evttim = c
  BY DEF SameClocks, behind, systim
<1>2. B \in 0 .. EVTTIM_SPAN - 1 /\ a \in 0 .. SYSTIM_SPAN - 1 /\ c \in 0 .. EVTTIM_SPAN - 1
  BY ClockValues
<1>3. gains(x, 0) = 0 BY <1>2, Spans DEF gains
<1> HIDE DEF B, a, c
<1>4. (c + 0) % EVTTIM_SPAN = c BY <1>2, Spans
<1>5. (a + 0) % SYSTIM_SPAN = a BY <1>2, Spans
<1> QED BY <1>1, <1>2, <1>3, <1>4, <1>5, Spans DEF Clocks, B, a, c

LEMMA ClocksTrans ==
    ASSUME NEW x \in TimeState, NEW y \in TimeState, NEW z,
           NEW s \in Nat, NEW r \in Nat, s + r < EVTTIM_SPAN,
           Clocks(x, y, s), Clocks(y, z, r)
    PROVE  Clocks(x, z, s + r)
<1> DEFINE B == behind(x)
           a == systim(x)
           c == x.current_evttim
           S == EVTTIM_SPAN
           SS == SYSTIM_SPAN
           c1 == y.current_evttim
           B1 == behind(y)
           a1 == systim(y)
           c2 == z.current_evttim
           B2 == behind(z)
           a2 == systim(z)
<1>1. /\ B \in Nat /\ a \in Nat /\ c \in Nat /\ B < S /\ a < SS /\ c < S
      /\ B1 \in Nat /\ a1 \in Nat /\ c1 \in Nat /\ B1 < S /\ a1 < SS /\ c1 < S
      /\ S \in Nat /\ SS \in Nat /\ S <= SS
  BY ClockValues, Spans
<1> DEFINE g == IF B < s THEN s - B ELSE 0
           g1 == IF B1 < r THEN r - B1 ELSE 0
           g2 == IF B < s + r THEN s + r - B ELSE 0
<1>2. /\ c1 = (c + s) % S /\ c2 = (c1 + r) % S
      /\ B1 = (IF B < s THEN 0 ELSE B - s) /\ B2 = (IF B1 < r THEN 0 ELSE B1 - r)
      /\ a1 = (a + g) % SS /\ a2 = (a1 + g1) % SS
  BY DEF Clocks, gains
<1>3. gains(x, s + r) = g2 BY <1>1 DEF gains
<1>4. \A i, j \in 0 .. S - 1 : (i + j) % S = IF i + j < S THEN i + j ELSE i + j - S
  <2> TAKE i, j \in 0 .. S - 1
  <2>1. i \in Int /\ j \in Int /\ i + j \in Int /\ 0 <= i + j /\ i + j < 2 * S /\ S \in Int
    BY <1>1
  <2> QED BY ONLY <2>1, NearSpan
<1>5. \A i, j \in 0 .. SS - 1 : (i + j) % SS = IF i + j < SS THEN i + j ELSE i + j - SS
  <2> TAKE i, j \in 0 .. SS - 1
  <2>1. i \in Int /\ j \in Int /\ i + j \in Int /\ 0 <= i + j /\ i + j < 2 * SS /\ SS \in Int
    BY <1>1
  <2> QED BY ONLY <2>1, NearSystim
<1> DEFINE sr == s + r
<1>6. /\ c \in 0 .. S - 1 /\ s \in 0 .. S - 1 /\ r \in 0 .. S - 1 /\ c1 \in 0 .. S - 1
      /\ sr \in 0 .. S - 1 /\ sr = s + r
  BY <1>1
<1>7. /\ a \in 0 .. SS - 1 /\ a1 \in 0 .. SS - 1 /\ g \in 0 .. SS - 1 /\ g1 \in 0 .. SS - 1
      /\ g2 \in 0 .. SS - 1 /\ g2 = g + g1
  BY <1>1, <1>2, <1>6
<1> HIDE DEF B, a, c, S, SS, c1, B1, a1, c2, B2, a2, g, g1, g2, sr
<1>8. c2 = (c + sr) % S
  <2>1. (c + s) % S = IF c + s < S THEN c + s ELSE c + s - S BY <1>4, <1>6
  <2>2. (c1 + r) % S = IF c1 + r < S THEN c1 + r ELSE c1 + r - S BY <1>4, <1>6
  <2>3. (c + sr) % S = IF c + sr < S THEN c + sr ELSE c + sr - S BY <1>4, <1>6
  <2> QED BY <1>1, <1>2, <1>6, <2>1, <2>2, <2>3
<1>9. a2 = (a + g2) % SS
  <2>1. (a + g) % SS = IF a + g < SS THEN a + g ELSE a + g - SS BY <1>5, <1>7
  <2>2. (a1 + g1) % SS = IF a1 + g1 < SS THEN a1 + g1 ELSE a1 + g1 - SS BY <1>5, <1>7
  <2>3. (a + g2) % SS = IF a + g2 < SS THEN a + g2 ELSE a + g2 - SS BY <1>5, <1>7
  <2> QED BY <1>1, <1>2, <1>7, <2>1, <2>2, <2>3
<1>10. B2 = IF B < s + r THEN 0 ELSE B - (s + r) BY <1>1, <1>2
<1> QED BY <1>3, <1>6, <1>8, <1>9, <1>10 DEF Clocks, B, a, c, S, SS, B2, a2, c2

-----------------------------------------------------------------------------
(* The invariant, in parts. The heap is one of the registered events, the  *)
(* count is the true time, and the times keep their distance from where    *)
(* they would wrap around.                                                 *)
Sound(x) ==
    /\ x \in TimeState /\ Heap(Core(x), Registered(x), Key(x))
    /\ x.cnt = (x.current_hrtcnt + x.since) % TCYC_HRTCNT
    /\ behind(x) <= 2 * TMAX_ADJTIM
    /\ \A e \in Registered(x) : Key(x)[e] - behind(x) < EVTTIM_SPAN - 2 * TMAX_ADJTIM

(* No event is left for longer than the interrupt may be late, which it is *)
(* by d so far.                                                            *)
Late(x, d) ==
    /\ \A e \in Registered(x) : x.since + MaxDelay <= Key(x)[e] + d
    /\ x.since <= HRTCNT_BOUND + MaxDelay + d

(* The interrupt comes in time.                                            *)
ahead(x) == IF x.cmp = x.cnt THEN TCYC_HRTCNT ELSE (x.cmp - x.cnt) % TCYC_HRTCNT
Armed(x) ==
    ~x.intreq =>
        /\ x.since + ahead(x) <= HRTCNT_BOUND + MaxDelay
        /\ \A e \in Registered(x) :
             ahead(x) + BOUNDARY_MARGIN + x.since <= Key(x)[e] + MaxDelay

LEMMA TimeKeys ==
    ASSUME NEW x \in TimeState
    PROVE  /\ \A e \in Event : Key(x)[e] = EVTTIM_ADVANCE(x, x.evttim[e])
           /\ \A e \in Event : x.evttim[e] \in EVTTIM
           /\ Key(x) \in [Event -> EVTTIM] /\ Key(x) \in [Event -> Nat]
           /\ x.current_evttim \in EVTTIM
           /\ Core(x) \in HeapState /\ Key(Core(x)) = Key(x)
           /\ Timed(x, Core(x)) /\ Over(x, Core(x)) = x
           /\ Registered(Core(x)) = Registered(x) /\ Registered(x) \subseteq Event
<1>1. x.current_evttim \in EVTTIM /\ \A e \in Event : x.evttim[e] \in EVTTIM BY DEF TimeState
<1>2. \A e \in Event : Key(x)[e] = EVTTIM_ADVANCE(x, x.evttim[e]) BY DEF Key
<1>3. \A e \in Event : EVTTIM_ADVANCE(x, x.evttim[e]) \in EVTTIM BY <1>1, AdvanceValue
<1>4. Key(x) \in [Event -> EVTTIM] BY <1>3 DEF Key
<1>5. Key(x) \in [Event -> Nat] BY <1>4, Spans DEF EVTTIM
<1>6. Core(x) \in HeapState BY DEF Core, TimeState, HeapState
<1>7. Key(Core(x)) = Key(x) BY SameKeys DEF Core
<1>8. Timed(x, Core(x)) BY <1>6 DEF Timed, Core
<1>9. Over(x, Core(x)) = x BY DEF Over, Core, TimeState
<1>10. Registered(Core(x)) = Registered(x) /\ Registered(x) \subseteq Event
  BY DEF Registered, Core
<1> QED BY <1>1, <1>2, <1>4, <1>5, <1>6, <1>7, <1>8, <1>9, <1>10

(* The count tells the true time.                                          *)
LEMMA Reading ==
    ASSUME NEW x, NEW d \in 0 .. MaxDelay, Sound(x), Late(x, d)
    PROVE  /\ hrtcnt_advance(x) = x.since /\ x.since \in Nat
           /\ x.since < TCYC_HRTCNT /\ x.since < EVTTIM_SPAN
           /\ \A e \in Registered(x) : x.since <= Key(x)[e] /\ Key(x)[e] \in Nat
<1> DEFINE T == TCYC_HRTCNT
           c == x.cnt
           r == x.current_hrtcnt
           s == x.since
<1>1. /\ T \in Nat \ {0} /\ c \in Nat /\ c < T /\ r \in Nat /\ r < T /\ s \in Nat /\ s < T
  BY Spans DEF Sound, Late, TimeState, HRTCNT
<1>2. c = (r + s) % T BY DEF Sound
<1>3. \A e \in Registered(x) : s <= Key(x)[e] /\ Key(x)[e] \in Nat
  <2>1. x \in TimeState BY DEF Sound
  <2>2. \A e \in Registered(x) : Key(x)[e] \in Nat BY <2>1, TimeKeys
  <2> QED BY <1>1, <2>2, Spans DEF Late
<1>4. hrtcnt_advance(x) = IF c < r THEN c - r + T ELSE c - r BY DEF hrtcnt_advance
<1> HIDE DEF c, r, s
<1>5. c = IF r + s < T THEN r + s ELSE r + s - T
  <2> DEFINE i == r + s
  <2>1. i \in Int /\ T \in Int /\ -T <= i /\ i < 2 * T /\ 0 <= i BY <1>1
  <2> HIDE DEF i
  <2>2. i % T = IF i < T THEN i ELSE i - T BY ONLY <2>1, NearTcyc
  <2> QED BY <1>1, <1>2, <2>2 DEF i
<1> QED BY <1>1, <1>3, <1>4, <1>5, Spans DEF s

(* What update_current_evttim does.                                        *)
Updated(x, y) ==
    /\ SameHeap(x, y) /\ SameTimer(x, y) /\ SameFlags(x, y)
    /\ y.since = 0 /\ Clocks(x, y, x.since)
    /\ \A e \in Registered(x) : Key(y)[e] = Key(x)[e] - x.since

LEMMA SameRegistered ==
    ASSUME NEW x, NEW y, SameHeap(x, y)
    PROVE  Registered(y) = Registered(x)
BY DEF SameHeap, Registered

\* The order of the keys is all that the heap asks of them.
LEMMA SameOrder ==
    ASSUME NEW x \in TimeState, NEW y \in TimeState, SameHeap(x, y),
           Heap(Core(x), Registered(x), Key(x)), NEW s \in Int,
           \A e \in Registered(x) : Key(y)[e] = Key(x)[e] - s
    PROVE  Heap(Core(y), Registered(y), Key(y))
<1> DEFINE R == Registered(x)
           u == Core(x)
           w == Core(y)
<1>1. Registered(y) = R BY SameRegistered
<1>2. /\ w \in HeapState /\ w.p_last = u.p_last /\ w.tmevt_heap = u.tmevt_heap
      /\ w.p_tmevtn = u.p_tmevtn
  BY TimeKeys DEF SameHeap, Core
<1>3. u \in HeapState /\ u.p_last \in Nat /\ R \subseteq Event
  BY TimeKeys, Nodes DEF HeapState
<1>4. \A n \in 2 .. u.p_last : n \in 1 .. u.p_last /\ PARENT(n) \in 1 .. u.p_last
  BY <1>3, Parents
<1>5. Heap(u, R, Key(x)) OBVIOUS
<1> HIDE DEF u, w, R
<1>6. \A n \in 2 .. u.p_last : u.tmevt_heap[n] \in R /\ u.tmevt_heap[PARENT(n)] \in R
  BY <1>4, <1>5 DEF Heap, Held
<1>7. ASSUME NEW n \in 2 .. u.p_last
      PROVE  Key(y)[u.tmevt_heap[PARENT(n)]] <= Key(y)[u.tmevt_heap[n]]
  <2> DEFINE p == u.tmevt_heap[PARENT(n)]
             q == u.tmevt_heap[n]
  <2>1. p \in R /\ q \in R /\ Key(x)[p] <= Key(x)[q] BY <1>5, <1>6 DEF Heap
  <2> HIDE DEF p, q
  <2>2. Key(x)[p] \in Nat /\ Key(x)[q] \in Nat BY <1>3, <2>1, TimeKeys
  <2>3. Key(y)[p] = Key(x)[p] - s /\ Key(y)[q] = Key(x)[q] - s BY <2>1 DEF R
  <2>4. Key(y)[p] <= Key(y)[q] BY <2>1, <2>2, <2>3
  <2> QED BY <2>4 DEF p, q
<1>8. Heap(w, R, Key(y)) BY <1>2, <1>5, <1>7 DEF Heap, Held
<1> QED BY <1>1, <1>8 DEF w

LEMMA Update ==
    ASSUME NEW x, NEW d \in 0 .. MaxDelay, Sound(x), Late(x, d)
    PROVE  LET y == update_current_evttim(x) IN
           Sound(y) /\ Late(y, d) /\ Updated(x, y)
<1> DEFINE s == x.since
           c == x.current_evttim
           u == [x EXCEPT !.current_evttim = (@ + s) % EVTTIM_SPAN,
                          !.current_hrtcnt = x.cnt, !.since = 0]
           y == follow(u, c, s)
           R == Registered(x)
<1>1. /\ hrtcnt_advance(x) = s /\ s \in Nat /\ s < EVTTIM_SPAN
      /\ \A e \in R : s <= Key(x)[e] /\ Key(x)[e] \in Nat
  BY Reading
<1>2. update_current_evttim(x) = y BY <1>1 DEF update_current_evttim
<1>3. x \in TimeState BY DEF Sound
<1>4. (c + s) % EVTTIM_SPAN \in EVTTIM
  <2>1. c \in Int BY <1>3, ClockValues
  <2> QED BY <1>1, <2>1, Spans DEF EVTTIM
<1>5. /\ u \in TimeState /\ SameHeap(x, u) /\ SameTimer(x, u) /\ SameFlags(x, u)
      /\ u.current_evttim = (c + s) % EVTTIM_SPAN /\ u.current_hrtcnt = x.cnt
      /\ u.since = 0 /\ u.monotonic_evttim = x.monotonic_evttim
      /\ u.systim_offset = x.systim_offset
  <2> DEFINE v == (c + s) % EVTTIM_SPAN
  <2>1. v \in EVTTIM BY <1>4
  <2>2. u = [x EXCEPT !.current_evttim = v, !.current_hrtcnt = x.cnt, !.since = 0] OBVIOUS
  <2> HIDE DEF v, u
  <2>3. /\ u \in TimeState /\ SameHeap(x, u) /\ SameTimer(x, u) /\ SameFlags(x, u)
        /\ u.current_evttim = v /\ u.current_hrtcnt = x.cnt
        /\ u.since = 0 /\ u.monotonic_evttim = x.monotonic_evttim
        /\ u.systim_offset = x.systim_offset
    BY <1>3, <2>1, <2>2 DEF TimeState, SameHeap, SameTimer, SameFlags
  <2> QED BY <2>3 DEF v
<1> HIDE DEF u
<1>6. /\ y \in TimeState /\ SameHeap(u, y) /\ SameTimer(u, y) /\ SameFlags(u, y)
      /\ y.current_evttim = u.current_evttim /\ y.current_hrtcnt = u.current_hrtcnt
      /\ y.since = 0 /\ behind(x) \in Nat
      /\ behind(y) = (IF behind(x) < s THEN 0 ELSE behind(x) - s)
      /\ systim(y) = (systim(x) + gains(x, s)) % SYSTIM_SPAN
  <2>1. s \in 0 .. EVTTIM_SPAN - 1 BY <1>1, Spans
  <2> HIDE DEF s
  <2> QED BY <1>3, <1>5, <2>1, Follow
<1> HIDE DEF y
<1>7. SameHeap(x, y) /\ SameTimer(x, y) /\ SameFlags(x, y) /\ Clocks(x, y, s)
  BY <1>5, <1>6 DEF SameHeap, SameTimer, SameFlags, Clocks
<1>8. \A e \in R : Key(y)[e] = Key(x)[e] - s
  <2> TAKE e \in R
  <2>1. /\ e \in Event /\ x.evttim[e] \in EVTTIM /\ y.evttim = x.evttim
        /\ Key(x)[e] = EVTTIM_ADVANCE(x, x.evttim[e])
        /\ Key(y)[e] = EVTTIM_ADVANCE(y, y.evttim[e])
        /\ Key(x)[e] \in EVTTIM /\ x.current_evttim \in EVTTIM
    BY <1>3, <1>6, <1>7, TimeKeys DEF SameHeap
  <2>2. 0 <= Key(x)[e] - s /\ Key(x)[e] - s < EVTTIM_SPAN BY <1>1, <2>1, Spans DEF EVTTIM
  <2>3. y.current_evttim = (x.current_evttim + s) % EVTTIM_SPAN BY <1>5, <1>6
  <2> DEFINE v == x.evttim[e]
  <2>4. /\ 0 <= EVTTIM_ADVANCE(x, v) - s /\ EVTTIM_ADVANCE(x, v) - s < EVTTIM_SPAN
        /\ s \in Int /\ -EVTTIM_SPAN < s /\ s < EVTTIM_SPAN /\ v \in EVTTIM
    BY <1>1, <2>1, <2>2, Spans
  <2> HIDE DEF v, s
  <2>5. EVTTIM_ADVANCE(y, v) = EVTTIM_ADVANCE(x, v) - s BY ONLY <2>1, <2>3, <2>4, Passes DEF s
  <2> QED BY <2>1, <2>5 DEF v
<1>9. Registered(y) = R BY <1>7, SameRegistered
<1>10. Sound(y)
  <2>1. Heap(Core(y), R, Key(y)) BY <1>1, <1>3, <1>6, <1>7, <1>8, <1>9, SameOrder DEF Sound
  <2>2. y.cnt = (y.current_hrtcnt + y.since) % TCYC_HRTCNT
    <3>1. y.cnt = x.cnt /\ y.current_hrtcnt = x.cnt /\ y.since = 0
      BY <1>5, <1>6 DEF SameTimer
    <3>2. x.cnt \in Nat /\ x.cnt < TCYC_HRTCNT BY <1>3, Spans DEF TimeState, HRTCNT
    <3> QED BY <3>1, <3>2, Spans
  <2>3. behind(x) <= 2 * TMAX_ADJTIM
        /\ \A e \in R : Key(x)[e] - behind(x) < EVTTIM_SPAN - 2 * TMAX_ADJTIM
    BY DEF Sound
  <2>4. behind(y) <= 2 * TMAX_ADJTIM BY <1>1, <1>6, <2>3, Spans
  <2>5. \A e \in R : Key(y)[e] - behind(y) < EVTTIM_SPAN - 2 * TMAX_ADJTIM
    BY <1>1, <1>6, <1>8, <2>3, Spans
  <2> QED BY <1>6, <1>9, <2>1, <2>2, <2>4, <2>5 DEF Sound
<1>11. Late(y, d)
  <2>1. \A e \in R : s + MaxDelay <= Key(x)[e] + d BY DEF Late
  <2>2. \A e \in R : MaxDelay <= Key(y)[e] + d BY <1>1, <1>8, <2>1, Spans
  <2> QED BY <1>6, <1>9, <2>2, Spans DEF Late
<1> QED BY <1>2, <1>6, <1>7, <1>8, <1>10, <1>11 DEF Updated

(* Without a registered event the heap is empty; else its top is the first.*)
LEMMA Tops ==
    ASSUME NEW x, x \in TimeState, Heap(Core(x), Registered(x), Key(x))
    PROVE  /\ not_empty(x) <=> Registered(x) # {}
           /\ not_empty(x) => /\ x.tmevt_heap[1] \in Registered(x)
                              /\ x.p_tmevtn[x.tmevt_heap[1]] = 1
                              /\ EVTTIM_ADVANCE(x, top_evttim(x)) = Key(x)[x.tmevt_heap[1]]
                              /\ top_evttim(x) \in EVTTIM
           /\ \A e \in Registered(x) : Key(x)[x.tmevt_heap[1]] <= Key(x)[e]
           /\ \A e \in Registered(x) : x.p_tmevtn[e] = 1 => e = x.tmevt_heap[1]
<1> DEFINE R == Registered(x)
           w == Core(x)
<1>1. w.p_last = x.p_last /\ w.tmevt_heap = x.tmevt_heap /\ w.p_tmevtn = x.p_tmevtn
  BY DEF Core
<1>2. Key(x) \in [Event -> Nat] /\ R \subseteq Event /\ x.p_last \in Nat
  BY TimeKeys, Nodes DEF TimeState
<1>3. Heap(w, R, Key(x)) OBVIOUS
<1> HIDE DEF R, w
<1>4. \A e \in R : x.p_tmevtn[e] \in 1 .. x.p_last /\ x.tmevt_heap[x.p_tmevtn[e]] = e
  BY <1>1, <1>3 DEF Heap
<1>5. x.p_last >= 1 => x.tmevt_heap[1] \in R /\ x.p_tmevtn[x.tmevt_heap[1]] = 1
  <2>1. x.p_last >= 1 => 1 \in 1 .. x.p_last BY <1>2
  <2> QED BY <1>1, <1>3, <2>1 DEF Heap, Held
<1>6. \A e \in R : Key(x)[x.tmevt_heap[1]] <= Key(x)[e] BY <1>1, <1>2, <1>3, Earliest
<1>7. x.p_last >= 1 <=> R # {} BY <1>2, <1>4, <1>5
<1>8. x.p_last >= 1 =>
        /\ EVTTIM_ADVANCE(x, top_evttim(x)) = Key(x)[x.tmevt_heap[1]]
        /\ top_evttim(x) \in EVTTIM
  BY <1>2, <1>5, TimeKeys DEF top_evttim, time_at
<1> QED BY <1>4, <1>5, <1>6, <1>7, <1>8 DEF not_empty, R

(* The heap and the clocks stay as they are.                               *)
LEMMA StaysSound ==
    ASSUME NEW x, Sound(x), NEW y \in TimeState, SameHeap(x, y), SameClocks(x, y),
           y.cnt = x.cnt
    PROVE  /\ Sound(y) /\ Registered(y) = Registered(x) /\ Key(y) = Key(x)
           /\ \A d : Late(x, d) => Late(y, d)
<1>1. x \in TimeState BY DEF Sound
<1>2. Registered(y) = Registered(x) BY SameRegistered
<1>3. Key(y) = Key(x) BY SameKeys DEF SameHeap, SameClocks
<1>4. \A e \in Registered(x) : Key(y)[e] = Key(x)[e] - 0
  BY <1>1, <1>3, TimeKeys
<1>5. Heap(Core(y), Registered(y), Key(y)) BY <1>1, <1>4, SameOrder DEF Sound
<1>6. behind(y) = behind(x) BY <1>1, ClocksSame
<1>7. y.since = x.since /\ y.current_hrtcnt = x.current_hrtcnt BY DEF SameClocks
<1> QED BY <1>2, <1>3, <1>5, <1>6, <1>7 DEF Sound, Late

(* set_hrt_event sets the timer for the first event, or for the bound.     *)
LEMMA SetTimer ==
    ASSUME NEW x, Sound(x)
    PROVE  LET y == set_hrt_event(x) IN
           /\ y \in TimeState /\ SameHeap(x, y) /\ SameClocks(x, y) /\ SameFlags(x, y)
           /\ y.cnt = x.cnt
           /\ x.since <= MaxDelay => Armed(y)
<1> DEFINE y == set_hrt_event(x)
           R == Registered(x)
           now == x.current_evttim
           due == EVTTIM_LE(x, top_evttim(x), now)
           left == (top_evttim(x) - now) % EVTTIM_SPAN
           n == IF not_empty(x) /\ left <= HRTCNT_BOUND THEN left ELSE HRTCNT_BOUND
           k == Key(x)[x.tmevt_heap[1]]
<1>1. x \in TimeState /\ x.since \in Nat /\ now \in EVTTIM BY DEF Sound, TimeState
<1>2. CASE not_empty(x) /\ due
  <2>1. y = [x EXCEPT !.intreq = TRUE] BY <1>2 DEF set_hrt_event, target_hrt_raise_event
  <2> HIDE DEF y
  <2>2. /\ y \in TimeState /\ SameHeap(x, y) /\ SameClocks(x, y) /\ SameFlags(x, y)
        /\ y.cnt = x.cnt /\ y.intreq
    BY <1>1, <2>1 DEF TimeState, SameHeap, SameClocks, SameFlags
  <2> QED BY <2>2 DEF Armed, y
<1>3. CASE ~(not_empty(x) /\ due)
  <2>1. not_empty(x) => /\ EVTTIM_ADVANCE(x, top_evttim(x)) = k
                        /\ top_evttim(x) \in EVTTIM /\ k \in Nat
    BY <1>1, Tops, TimeKeys DEF Sound
  <2>2. not_empty(x) => BOUNDARY_MARGIN < k /\ left = k - BOUNDARY_MARGIN
    <3> SUFFICES ASSUME not_empty(x) PROVE BOUNDARY_MARGIN < k /\ left = k - BOUNDARY_MARGIN
      OBVIOUS
    <3>1. EVTTIM_ADVANCE(x, now) = BOUNDARY_MARGIN BY <1>1, Now
    <3>2. ~(k <= BOUNDARY_MARGIN) BY <1>3, <2>1, <3>1 DEF EVTTIM_LE
    <3>3. BOUNDARY_MARGIN < k BY <2>1, <3>2, Spans
    <3>4. left = k - BOUNDARY_MARGIN BY <1>1, <2>1, <3>3, Spans, Ahead
    <3> QED BY <3>3, <3>4
  <2>3. n \in 1 .. HRTCNT_BOUND /\ (not_empty(x) => n + BOUNDARY_MARGIN <= k)
    BY <2>1, <2>2, Spans
  <2>4. y = [x EXCEPT !.cmp = (x.cnt + n) % TCYC_HRTCNT]
    <3>1. CASE ~not_empty(x) BY <3>1 DEF set_hrt_event, target_hrt_set_event
    <3>2. CASE not_empty(x)
      <4>1. left \in Int BY <3>2, <2>1, <2>2, Spans
      <4>2. ~due BY <1>3, <3>2
      <4>3. (IF left > HRTCNT_BOUND THEN HRTCNT_BOUND ELSE left) = n
        BY <3>2, <4>1, Spans
      <4> QED BY <3>2, <4>2, <4>3 DEF set_hrt_event, target_hrt_set_event
    <3> QED BY <3>1, <3>2
  <2> DEFINE T == TCYC_HRTCNT
             c == x.cnt
             w == (c + n) % T
  <2>5. c \in Nat /\ c < T /\ T \in Nat /\ n \in Nat /\ n >= 1 /\ n < T
    BY <1>1, <2>3, Spans DEF TimeState, HRTCNT
  <2>6. w = IF c + n < T THEN c + n ELSE c + n - T
    <3> DEFINE i == c + n
    <3>1. i \in Int /\ T \in Int /\ 0 <= i /\ -T <= i /\ i < 2 * T BY <2>5
    <3> HIDE DEF i
    <3>2. i % T = IF i < T THEN i ELSE i - T BY ONLY <3>1, NearTcyc
    <3> HIDE DEF n, c
    <3> QED BY <2>5, <3>2 DEF i
  <2>7. w \in HRTCNT BY <2>5, <2>6 DEF HRTCNT
  <2>8. /\ y \in TimeState /\ SameHeap(x, y) /\ SameClocks(x, y) /\ SameFlags(x, y)
        /\ y.cnt = c /\ y.cmp = w /\ y.since = x.since
    <3> HIDE DEF w, y
    <3> QED BY <1>1, <2>4, <2>7 DEF TimeState, SameHeap, SameClocks, SameFlags, w
  <2> HIDE DEF y
  <2>9. ahead(y) = n
    <3> HIDE DEF w, n, c
    <3>1. w \in Nat BY <2>5, <2>6
    <3>2. w # c BY <2>5, <2>6
    <3>3. (w - c) % T = n
      <4> DEFINE i == w - c
      <4>1. i \in Int /\ T \in Int /\ -T <= i /\ i < 2 * T /\ i = IF c + n < T THEN n ELSE n - T
        BY <2>5, <2>6, <3>1
      <4> HIDE DEF i
      <4>2. i % T = IF i < 0 THEN i + T ELSE IF i < T THEN i ELSE i - T
        BY ONLY <4>1, NearTcyc
      <4>3. i % T = n BY <2>5, <4>1, <4>2
      <4> QED BY <4>3 DEF i
    <3> QED BY <2>8, <3>2, <3>3 DEF ahead
  <2>10. x.since <= MaxDelay => Armed(y)
    <3> SUFFICES ASSUME x.since <= MaxDelay PROVE Armed(y) OBVIOUS
    <3>1. Registered(y) = R /\ Key(y) = Key(x) BY <2>8, StaysSound
    <3>2. y.since + ahead(y) <= HRTCNT_BOUND + MaxDelay BY <1>1, <2>3, <2>8, <2>9, Spans
    <3>3. ASSUME NEW e \in R
          PROVE  ahead(y) + BOUNDARY_MARGIN + y.since <= Key(y)[e] + MaxDelay
      <4>1. not_empty(x) /\ k <= Key(x)[e] BY <1>1, Tops DEF Sound
      <4>2. Key(x)[e] \in Nat BY <1>1, TimeKeys
      <4>3. n + BOUNDARY_MARGIN <= k /\ k \in Nat BY <2>1, <2>3, <4>1
      <4> HIDE DEF n, k
      <4> QED BY <1>1, <2>3, <2>8, <2>9, <3>1, <4>1, <4>2, <4>3, Spans
    <3> QED BY <3>1, <3>2, <3>3 DEF Armed
  <2> QED BY <2>8, <2>10 DEF y
<1> QED BY <1>2, <1>3

-----------------------------------------------------------------------------
(* The operations of the heap, on the whole state.                         *)
LEMMA Inserted ==
    ASSUME NEW x \in TimeState, Heap(Core(x), Registered(x), Key(x)),
           NEW e \in Event \ Registered(x)
    PROVE  LET y == tmevtb_insert(x, e) IN
           /\ y \in TimeState /\ Heap(Core(y), Registered(y), Key(y))
           /\ SameClocks(x, y) /\ SameTimer(x, y) /\ SameFlags(x, y)
           /\ y.evttim = x.evttim /\ Registered(y) = Registered(x) \cup {e}
<1> DEFINE u == Core(x)
           w == tmevtb_insert(u, e)
           y == tmevtb_insert(x, e)
           R == Registered(x)
<1>1. /\ Heap(u, R, Key(u)) /\ Timed(x, u) /\ Over(x, u) = x /\ R \subseteq Event
      /\ u.p_tmevtn = x.p_tmevtn /\ u.evttim = x.evttim
      /\ u.current_evttim = x.current_evttim
  BY TimeKeys DEF Core
<1>2. \A o \in Event \ R : x.p_tmevtn[o] = 0 BY DEF Registered
<1> HIDE DEF u, R
<1>3. /\ Heap(w, R \cup {e}, Key(w)) /\ w.evttim = u.evttim
      /\ w.current_evttim = u.current_evttim
      /\ \A o \in Event \ (R \cup {e}) : w.p_tmevtn[o] = u.p_tmevtn[o]
      /\ \A z : Timed(z, u) => tmevtb_insert(Over(z, u), e) = Over(z, w)
  BY <1>1, Insert DEF R
<1> HIDE DEF w
<1>4. y = Over(x, w) BY <1>1, <1>3
<1>5. w \in HeapState BY <1>3 DEF Heap
<1>6. Timed(x, w) BY <1>1, <1>3, <1>5 DEF Timed
<1> HIDE DEF y
<1>7. y \in TimeState /\ Core(y) = w /\ y.p_tmevtn = w.p_tmevtn /\ y.evttim = w.evttim
  BY <1>4, <1>6, OverIs
<1>8. SameClocks(x, y) /\ SameTimer(x, y) /\ SameFlags(x, y)
  BY <1>4 DEF Over, TimeState, SameClocks, SameTimer, SameFlags
<1>9. Key(y) = Key(w) BY <1>1, <1>3, <1>7, <1>8, SameKeys DEF SameClocks
<1>10. Registered(y) = R \cup {e}
  <2>1. \A o \in R \cup {e} : o \in Event /\ w.p_tmevtn[o] # 0 BY <1>1, <1>3 DEF Heap
  <2>2. \A o \in Event \ (R \cup {e}) : w.p_tmevtn[o] = 0 BY <1>1, <1>2, <1>3
  <2> QED BY <1>7, <2>1, <2>2 DEF Registered
<1> QED BY <1>1, <1>3, <1>7, <1>8, <1>9, <1>10 DEF R, y

LEMMA Deleted ==
    ASSUME NEW x \in TimeState, Heap(Core(x), Registered(x), Key(x)),
           NEW e \in Registered(x)
    PROVE  LET y == tmevtb_delete(x, e) IN
           /\ y \in TimeState /\ Heap(Core(y), Registered(y), Key(y))
           /\ SameClocks(x, y) /\ SameTimer(x, y) /\ SameFlags(x, y)
           /\ y.evttim = x.evttim /\ Registered(y) = Registered(x) \ {e}
<1> DEFINE u == Core(x)
           w == tmevtb_delete(u, e)
           y == tmevtb_delete(x, e)
           R == Registered(x)
<1>1. /\ Heap(u, R, Key(u)) /\ Timed(x, u) /\ Over(x, u) = x /\ R \subseteq Event
      /\ u.p_tmevtn = x.p_tmevtn /\ u.evttim = x.evttim
      /\ u.current_evttim = x.current_evttim
  BY TimeKeys DEF Core
<1>2. \A o \in Event \ R : x.p_tmevtn[o] = 0 BY DEF Registered
<1> HIDE DEF u, R
<1>3. /\ Heap(w, R \ {e}, Key(w)) /\ w.p_tmevtn[e] = 0 /\ w.evttim = u.evttim
      /\ w.current_evttim = u.current_evttim
      /\ \A o \in Event \ R : w.p_tmevtn[o] = u.p_tmevtn[o]
      /\ \A z : Timed(z, u) => tmevtb_delete(Over(z, u), e) = Over(z, w)
  BY <1>1, Delete DEF R
<1> HIDE DEF w
<1>4. y = Over(x, w) BY <1>1, <1>3
<1>5. w \in HeapState BY <1>3 DEF Heap
<1>6. Timed(x, w) BY <1>1, <1>3, <1>5 DEF Timed
<1> HIDE DEF y
<1>7. y \in TimeState /\ Core(y) = w /\ y.p_tmevtn = w.p_tmevtn /\ y.evttim = w.evttim
  BY <1>4, <1>6, OverIs
<1>8. SameClocks(x, y) /\ SameTimer(x, y) /\ SameFlags(x, y)
  BY <1>4 DEF Over, TimeState, SameClocks, SameTimer, SameFlags
<1>9. Key(y) = Key(w) BY <1>1, <1>3, <1>7, <1>8, SameKeys DEF SameClocks
<1>10. Registered(y) = R \ {e}
  <2>1. \A o \in R \ {e} : o \in Event /\ w.p_tmevtn[o] # 0 BY <1>1, <1>3 DEF Heap
  <2>2. \A o \in Event : o \notin R \ {e} => w.p_tmevtn[o] = 0 BY <1>1, <1>2, <1>3
  <2> QED BY <1>7, <2>1, <2>2 DEF Registered
<1> QED BY <1>1, <1>3, <1>7, <1>8, <1>9, <1>10 DEF R, y

LEMMA Retimed ==
    ASSUME NEW x \in TimeState, Heap(Core(x), Registered(x), Key(x)),
           NEW e \in Event \ Registered(x), NEW v \in EVTTIM
    PROVE  LET y == [x EXCEPT !.evttim[e] = v] IN
           /\ y \in TimeState /\ Heap(Core(y), Registered(y), Key(y))
           /\ SameClocks(x, y) /\ SameTimer(x, y) /\ SameFlags(x, y)
           /\ Registered(y) = Registered(x)
           /\ Key(y)[e] = EVTTIM_ADVANCE(x, v)
           /\ \A o \in Event \ {e} : Key(y)[o] = Key(x)[o]
<1> DEFINE u == Core(x)
           w == [u EXCEPT !.evttim[e] = v]
           y == [x EXCEPT !.evttim[e] = v]
           R == Registered(x)
<1>1. /\ y \in TimeState /\ y.p_tmevtn = x.p_tmevtn
      /\ SameClocks(x, y) /\ SameTimer(x, y) /\ SameFlags(x, y)
      /\ \A o \in Event : y.evttim[o] = IF o = e THEN v ELSE x.evttim[o]
  BY DEF TimeState, SameClocks, SameTimer, SameFlags
<1>2. Core(y) = w BY DEF Core, TimeState
<1>3. Heap(u, R, Key(u)) BY TimeKeys
<1> HIDE DEF u, y, R
<1>4. Heap(w, R, Key(w)) BY <1>3, Retime DEF R
<1>5. Registered(y) = R BY <1>1 DEF Registered, R
<1>6. Key(w) = Key(y) BY <1>1, <1>2, TimeKeys
<1>7. \A o \in Event : Key(y)[o] = IF o = e THEN EVTTIM_ADVANCE(x, v) ELSE Key(x)[o]
  BY <1>1 DEF Key, SameClocks, EVTTIM_ADVANCE, boundary_evttim
<1> QED BY <1>1, <1>2, <1>4, <1>5, <1>6, <1>7 DEF y, R

\* tmevtb_register, of an event with the time v
LEMMA Registering ==
    ASSUME NEW x, Sound(x), NEW e \in Event \ Registered(x), NEW v \in EVTTIM,
           EVTTIM_ADVANCE(x, v) - behind(x) < EVTTIM_SPAN - 2 * TMAX_ADJTIM
    PROVE  LET y == tmevtb_insert([x EXCEPT !.evttim[e] = v], e) IN
           /\ Sound(y) /\ SameClocks(x, y) /\ SameTimer(x, y) /\ SameFlags(x, y)
           /\ Registered(y) = Registered(x) \cup {e}
           /\ Key(y)[e] = EVTTIM_ADVANCE(x, v)
           /\ \A o \in Event \ {e} : Key(y)[o] = Key(x)[o]
           /\ \A d : Late(x, d) /\ x.since + MaxDelay <= EVTTIM_ADVANCE(x, v) + d
                       => Late(y, d)
<1> DEFINE w == [x EXCEPT !.evttim[e] = v]
           y == tmevtb_insert(w, e)
           R == Registered(x)
<1>1. x \in TimeState /\ Heap(Core(x), R, Key(x)) BY DEF Sound
<1>2. /\ w \in TimeState /\ Heap(Core(w), Registered(w), Key(w))
      /\ SameClocks(x, w) /\ SameTimer(x, w) /\ SameFlags(x, w) /\ Registered(w) = R
      /\ Key(w)[e] = EVTTIM_ADVANCE(x, v)
      /\ \A o \in Event \ {e} : Key(w)[o] = Key(x)[o]
  BY <1>1, Retimed
<1> HIDE DEF w
<1>3. /\ y \in TimeState /\ Heap(Core(y), Registered(y), Key(y))
      /\ SameClocks(w, y) /\ SameTimer(w, y) /\ SameFlags(w, y) /\ y.evttim = w.evttim
      /\ Registered(y) = R \cup {e}
  BY <1>2, Inserted
<1> HIDE DEF y
<1>4. Key(y) = Key(w) BY <1>3, SameKeys DEF SameClocks
<1>5. SameClocks(x, y) /\ SameTimer(x, y) /\ SameFlags(x, y)
  BY <1>2, <1>3 DEF SameClocks, SameTimer, SameFlags
<1>6. behind(y) = behind(x) BY <1>1, <1>5, ClocksSame
<1>7. R \subseteq Event /\ e \notin R BY DEF Registered
<1>8. \A o \in R : Key(y)[o] = Key(x)[o] BY <1>2, <1>4, <1>7
<1>9. y.since = x.since /\ y.cnt = x.cnt /\ y.current_hrtcnt = x.current_hrtcnt
  BY <1>5 DEF SameClocks, SameTimer
<1>10. Sound(y) BY <1>2, <1>3, <1>4, <1>6, <1>8, <1>9 DEF Sound
<1>11. \A d : Late(x, d) /\ x.since + MaxDelay <= EVTTIM_ADVANCE(x, v) + d => Late(y, d)
  BY <1>2, <1>3, <1>4, <1>8, <1>9 DEF Late
<1> QED BY <1>2, <1>3, <1>4, <1>5, <1>10, <1>11 DEF y, w

LEMMA Deleting ==
    ASSUME NEW x, Sound(x), NEW e \in Registered(x)
    PROVE  LET y == tmevtb_delete(x, e) IN
           /\ Sound(y) /\ SameClocks(x, y) /\ SameTimer(x, y) /\ SameFlags(x, y)
           /\ Registered(y) = Registered(x) \ {e} /\ Key(y) = Key(x)
           /\ y.evttim = x.evttim
           /\ Armed(x) => Armed(y)
           /\ \A d : Late(x, d) => Late(y, d)
<1> DEFINE y == tmevtb_delete(x, e)
           R == Registered(x)
<1>1. x \in TimeState /\ Heap(Core(x), R, Key(x)) BY DEF Sound
<1>2. /\ y \in TimeState /\ Heap(Core(y), Registered(y), Key(y))
      /\ SameClocks(x, y) /\ SameTimer(x, y) /\ SameFlags(x, y)
      /\ y.evttim = x.evttim /\ Registered(y) = R \ {e}
  BY <1>1, Deleted
<1> HIDE DEF y
<1>3. Key(y) = Key(x) BY <1>2, SameKeys DEF SameClocks
<1>4. behind(y) = behind(x) BY <1>1, <1>2, ClocksSame
<1>5. /\ y.since = x.since /\ y.cnt = x.cnt /\ y.current_hrtcnt = x.current_hrtcnt
      /\ y.cmp = x.cmp /\ y.intreq = x.intreq
  BY <1>2 DEF SameClocks, SameTimer
<1>6. Sound(y) BY <1>2, <1>3, <1>4, <1>5 DEF Sound
<1>7. \A d : Late(x, d) => Late(y, d) BY <1>2, <1>3, <1>5 DEF Late
<1>8. ahead(y) = ahead(x) BY <1>5 DEF ahead
<1>9. Armed(x) => Armed(y) BY <1>2, <1>3, <1>5, <1>8 DEF Armed
<1> QED BY <1>2, <1>3, <1>6, <1>7, <1>9 DEF y

LEMMA TopDeleted ==
    ASSUME NEW x, Sound(x), not_empty(x)
    PROVE  tmevtb_delete_top(x) = tmevtb_delete(x, x.tmevt_heap[1])
<1>1. x.p_tmevtn[x.tmevt_heap[1]] = 1 BY Tops DEF Sound
<1>2. ~(x.p_tmevtn[x.tmevt_heap[1]] > 1) BY <1>1
<1> QED BY <1>1, <1>2 DEF tmevtb_delete_top, tmevtb_delete

-----------------------------------------------------------------------------
(* From x to y the clocks are brought up to date, with s the time since    *)
(* the last reading, or they are left alone, with s = 0. So are the events *)
(* but those of E.                                                         *)
Moves(x, y, s, E) ==
    /\ s \in {0, x.since} /\ y.since = x.since - s /\ Clocks(x, y, s)
    /\ \A o \in Registered(x) \ E : o \in Registered(y) /\ Key(y)[o] = Key(x)[o] - s
    /\ \A o \in Registered(y) \ E : o \in Registered(x)

LEMMA Compose ==
    ASSUME NEW x, NEW y, NEW z, NEW d \in 0 .. MaxDelay, NEW s, NEW r, NEW E,
           Sound(x), Late(x, d), Sound(y), Moves(x, y, s, E), Moves(y, z, r, E)
    PROVE  Moves(x, z, s + r, E)
<1>1. /\ x.since \in Nat /\ x.since < EVTTIM_SPAN /\ s \in Nat /\ r \in Nat
      /\ s + r <= x.since /\ x \in TimeState /\ y \in TimeState
  BY Reading DEF Moves, Sound
<1>2. s + r \in {0, x.since} /\ z.since = x.since - (s + r) BY <1>1 DEF Moves
<1>3. Clocks(x, z, s + r)
  <2>1. s + r < EVTTIM_SPAN BY <1>1, Spans
  <2> QED BY <1>1, <2>1, ClocksTrans DEF Moves
<1>4. ASSUME NEW o \in Registered(x) \ E
      PROVE  o \in Registered(z) /\ Key(z)[o] = Key(x)[o] - (s + r)
  <2>1. Key(x)[o] \in Nat BY <1>1, TimeKeys
  <2>2. /\ o \in Registered(y) \ E /\ Key(y)[o] = Key(x)[o] - s
        /\ o \in Registered(z) /\ Key(z)[o] = Key(y)[o] - r
    BY DEF Moves
  <2> QED BY <1>1, <2>1, <2>2
<1>5. \A o \in Registered(z) \ E : o \in Registered(x) BY DEF Moves
<1> QED BY <1>2, <1>3, <1>4, <1>5 DEF Moves

(* What keeps the clocks and the heap moves nothing.                       *)
LEMMA Stand ==
    ASSUME NEW x \in TimeState, NEW y, SameClocks(x, y), NEW E,
           \A o \in Registered(x) \ E : Key(y)[o] = Key(x)[o],
           Registered(y) \cup E = Registered(x) \cup E
    PROVE  Moves(x, y, 0, E)
<1>1. Clocks(x, y, 0) BY ClocksSame
<1>2. y.since = x.since - 0 BY DEF SameClocks, TimeState
<1>3. \A o \in Registered(x) \ E : Key(y)[o] = Key(x)[o] - 0 BY TimeKeys
<1> QED BY <1>1, <1>2, <1>3 DEF Moves

LEMMA UpdateMoves ==
    ASSUME NEW x, NEW y, Updated(x, y), x.since \in Nat, NEW E
    PROVE  Moves(x, y, x.since, E)
<1>1. Registered(y) = Registered(x) BY SameRegistered DEF Updated
<1> QED BY <1>1 DEF Updated, Moves

(* With the clocks up to date, a timer that was armed still is.            *)
LEMMA UpdateArmed ==
    ASSUME NEW x, NEW y, Sound(x), Updated(x, y), Armed(x)
    PROVE  Armed(y)
<1>1. /\ x \in TimeState /\ x.since \in Nat /\ Registered(y) = Registered(x)
  BY SameRegistered DEF Updated, Sound, TimeState
<1>2. ahead(y) = ahead(x) /\ y.intreq = x.intreq /\ y.since = 0
  BY DEF Updated, SameTimer, ahead
<1>3. ahead(x) \in Nat
  <2>1. x.cmp \in Int /\ x.cnt \in Int /\ TCYC_HRTCNT \in Nat /\ TCYC_HRTCNT # 0
    BY <1>1, Spans DEF TimeState, HRTCNT
  <2> QED BY <2>1 DEF ahead
<1>4. ASSUME ~x.intreq, NEW e \in Registered(x)
      PROVE  ahead(y) + BOUNDARY_MARGIN + y.since <= Key(y)[e] + MaxDelay
  <2>1. Key(x)[e] \in Nat BY <1>1, TimeKeys
  <2>2. Key(y)[e] = Key(x)[e] - x.since BY DEF Updated
  <2>3. ahead(x) + BOUNDARY_MARGIN + x.since <= Key(x)[e] + MaxDelay BY <1>4 DEF Armed
  <2> QED BY <1>1, <1>2, <1>3, <2>1, <2>2, <2>3, Spans
<1>5. ~x.intreq => y.since + ahead(y) <= HRTCNT_BOUND + MaxDelay
  <2>1. ~x.intreq => x.since + ahead(x) <= HRTCNT_BOUND + MaxDelay BY DEF Armed
  <2> QED BY <1>1, <1>2, <1>3, <2>1, Spans
<1> QED BY <1>1, <1>2, <1>4, <1>5 DEF Armed

\* that set_hrt_event leaves the events and the clocks alone
LEMMA Setting ==
    ASSUME NEW x, Sound(x)
    PROVE  LET y == set_hrt_event(x) IN
           /\ Sound(y) /\ SameClocks(x, y) /\ SameFlags(x, y)
           /\ Registered(y) = Registered(x) /\ Key(y) = Key(x)
           /\ x.intreq => y.intreq
           /\ \A d : Late(x, d) => Late(y, d)
           /\ x.since <= MaxDelay => Armed(y)
<1> DEFINE y == set_hrt_event(x)
<1>1. x.intreq => y.intreq
  BY DEF Sound, TimeState, set_hrt_event, target_hrt_set_event, target_hrt_raise_event
<1>2. /\ y \in TimeState /\ SameHeap(x, y) /\ SameClocks(x, y) /\ SameFlags(x, y)
      /\ y.cnt = x.cnt /\ (x.since <= MaxDelay => Armed(y))
  BY SetTimer
<1> HIDE DEF y
<1> QED BY <1>1, <1>2, StaysSound DEF y

LEMMA Enqueue ==
    ASSUME TimesFit, NEW x, NEW d \in 0 .. MaxDelay, Sound(x), Late(x, d),
           NEW e \in Event \ Registered(x), NEW w \in Nat,
           TSTEP_HRTCNT + w + 2 * TMAX_ADJTIM + BOUNDARY_MARGIN < EVTTIM_SPAN
    PROVE  LET y == tmevtb_enqueue(x, e, w) IN
           /\ Sound(y) /\ Late(y, d) /\ SameFlags(x, y) /\ y.since = 0
           /\ Moves(x, y, x.since, {e})
           /\ Registered(y) = Registered(x) \cup {e}
           /\ Key(y)[e] = BOUNDARY_MARGIN + TSTEP_HRTCNT + w
           /\ x.intreq => y.intreq
           /\ ~x.in_signal_time /\ Armed(x) => Armed(y)
<1> DEFINE u == update_current_evttim(x)
           v == (u.current_evttim + TSTEP_HRTCNT + w) % EVTTIM_SPAN
           z == tmevtb_insert([u EXCEPT !.evttim[e] = v], e)
           y == IF ~z.in_signal_time /\ z.p_tmevtn[e] = 1 THEN set_hrt_event(z) ELSE z
           k == BOUNDARY_MARGIN + TSTEP_HRTCNT + w
           R == Registered(x)
<1>1. tmevtb_enqueue(x, e, w) = y BY DEF tmevtb_enqueue
<1>2. Sound(u) /\ Late(u, d) /\ Updated(x, u) BY Update
<1>3. u \in TimeState /\ u.current_evttim \in EVTTIM /\ u.current_evttim \in Int
  BY <1>2, Spans DEF Sound, TimeState, EVTTIM
<1>4. Registered(u) = R /\ u.since = 0 /\ SameFlags(x, u) /\ u.intreq = x.intreq
  BY <1>2, SameRegistered DEF Updated, SameTimer
<1> HIDE DEF u
<1>5. v \in EVTTIM /\ EVTTIM_ADVANCE(u, v) = k
  <2> DEFINE i == TSTEP_HRTCNT + w
  <2>1. i \in Int /\ 0 <= BOUNDARY_MARGIN + i /\ BOUNDARY_MARGIN + i < EVTTIM_SPAN BY Spans
  <2>2. v = (u.current_evttim + i) % EVTTIM_SPAN BY <1>3, Spans
  <2>3. k = BOUNDARY_MARGIN + i BY Spans
  <2> HIDE DEF i, v, k
  <2> QED BY <1>3, <2>1, <2>2, <2>3, FromNow
<1> HIDE DEF v
<1>6. behind(u) \in Nat BY <1>3, ClockValues, Spans
<1>7. k \in Nat /\ k - behind(u) < EVTTIM_SPAN - 2 * TMAX_ADJTIM BY <1>6, Spans
<1>8. u.since + MaxDelay <= k + d BY <1>4, Spans DEF TimesFit
<1>9. /\ Sound(z) /\ SameClocks(u, z) /\ SameTimer(u, z) /\ SameFlags(u, z)
      /\ Registered(z) = R \cup {e} /\ Key(z)[e] = k
      /\ \A o \in Event \ {e} : Key(z)[o] = Key(u)[o]
      /\ Late(z, d)
  <2>1. e \in Event \ Registered(u) BY <1>4
  <2> HIDE DEF k, R
  <2>2. EVTTIM_ADVANCE(u, v) - behind(u) < EVTTIM_SPAN - 2 * TMAX_ADJTIM BY <1>5, <1>7
  <2>3. /\ Sound(z) /\ SameClocks(u, z) /\ SameTimer(u, z) /\ SameFlags(u, z)
        /\ Registered(z) = Registered(u) \cup {e}
        /\ Key(z)[e] = EVTTIM_ADVANCE(u, v)
        /\ \A o \in Event \ {e} : Key(z)[o] = Key(u)[o]
        /\ Late(u, d) /\ u.since + MaxDelay <= EVTTIM_ADVANCE(u, v) + d => Late(z, d)
    BY <1>2, <1>5, <2>1, <2>2, Registering
  <2> HIDE DEF z
  <2> QED BY <1>2, <1>4, <1>5, <1>8, <2>3
<1> HIDE DEF z
<1>10. /\ z.since = 0 /\ SameFlags(x, z) /\ z.intreq = x.intreq
       /\ z.in_signal_time = x.in_signal_time /\ R \subseteq Event /\ e \notin R
  BY <1>4, <1>9 DEF SameClocks, SameFlags, SameTimer, Registered
<1>11. /\ Sound(y) /\ SameClocks(z, y) /\ SameFlags(z, y) /\ Key(y) = Key(z)
       /\ Registered(y) = R \cup {e} /\ Late(y, d) /\ (z.intreq => y.intreq)
       /\ ~z.in_signal_time /\ z.p_tmevtn[e] = 1 => Armed(y)
       /\ ~(~z.in_signal_time /\ z.p_tmevtn[e] = 1) => y = z
  <2>1. CASE ~z.in_signal_time /\ z.p_tmevtn[e] = 1
    <3>1. y = set_hrt_event(z) BY <2>1
    <3>2. z.since <= MaxDelay BY <1>10, Spans
    <3> HIDE DEF y
    <3> QED BY <1>9, <2>1, <3>1, <3>2, Setting
  <2>2. CASE ~(~z.in_signal_time /\ z.p_tmevtn[e] = 1)
    <3>1. y = z BY <2>2
    <3> HIDE DEF y
    <3> QED BY <1>9, <2>2, <3>1 DEF SameClocks, SameFlags
  <2> QED BY <2>1, <2>2
<1> HIDE DEF y
<1>12. SameClocks(u, y) /\ SameFlags(x, y) /\ y.since = 0 /\ (x.intreq => y.intreq)
  BY <1>9, <1>10, <1>11 DEF SameClocks, SameFlags
<1>13. \A o \in Registered(u) \ {e} : Key(y)[o] = Key(u)[o]
  BY <1>4, <1>9, <1>10, <1>11
<1>14. Moves(u, y, 0, {e}) BY <1>3, <1>4, <1>11, <1>12, <1>13, Stand
<1>15. x.since \in Nat /\ Moves(x, u, x.since, {e})
  <2>1. x.since \in Nat BY DEF Sound, TimeState
  <2> QED BY <1>2, <2>1, UpdateMoves
<1>16. Moves(x, y, x.since, {e})
  <2>1. Moves(x, y, x.since + 0, {e}) BY <1>2, <1>14, <1>15, Compose
  <2> QED BY <1>15, <2>1
<1>17. ASSUME ~x.in_signal_time, Armed(x) PROVE Armed(y)
  <2>1. CASE z.p_tmevtn[e] = 1 BY <1>10, <1>11, <1>17, <2>1
  <2>2. CASE z.p_tmevtn[e] # 1
    <3>1. y = z BY <1>11, <2>2
    <3>2. Armed(u) BY <1>2, <1>17, UpdateArmed
    <3>3. ahead(z) = ahead(u) /\ z.intreq = u.intreq /\ z.since = u.since
      BY <1>9 DEF SameTimer, SameClocks, ahead
    <3>4. z \in TimeState /\ Heap(Core(z), Registered(z), Key(z)) BY <1>9 DEF Sound
    <3> DEFINE top == z.tmevt_heap[1]
    <3>5. /\ top \in R \cup {e} /\ z.p_tmevtn[top] = 1 /\ Key(z)[top] <= Key(z)[e]
      BY <1>9, <3>4, Tops
    <3> HIDE DEF top
    <3>6. top \in R /\ top # e BY <2>2, <3>5
    <3>7. Key(z)[top] = Key(u)[top] BY <1>9, <1>10, <3>6
    <3>8. ASSUME ~z.intreq, NEW o \in Registered(z)
          PROVE  ahead(z) + BOUNDARY_MARGIN + z.since <= Key(z)[o] + MaxDelay
      <4>1. CASE o # e
        <5>1. o \in R /\ Key(z)[o] = Key(u)[o] BY <1>9, <1>10, <4>1
        <5> QED BY <1>4, <3>2, <3>3, <3>8, <5>1 DEF Armed
      <4>2. CASE o = e
        <5>1. ahead(z) + BOUNDARY_MARGIN + z.since <= Key(z)[top] + MaxDelay
          BY <1>4, <3>2, <3>3, <3>6, <3>7, <3>8 DEF Armed
        <5>2. Key(z)[top] \in Nat /\ Key(z)[e] \in Nat /\ ahead(z) \in Int
          <6>1. Key(z)[top] \in Nat /\ Key(z)[e] \in Nat BY <1>10, <3>4, <3>6, TimeKeys
          <6>2. z.cmp \in Int /\ z.cnt \in Int /\ TCYC_HRTCNT \in Nat /\ TCYC_HRTCNT # 0
            BY <3>4, Spans DEF TimeState, HRTCNT
          <6> QED BY <6>1, <6>2 DEF ahead
        <5> QED BY <1>10, <3>5, <4>2, <5>1, <5>2, Spans
      <4> QED BY <4>1, <4>2
    <3>9. ~z.intreq => z.since + ahead(z) <= HRTCNT_BOUND + MaxDelay
      BY <3>2, <3>3 DEF Armed
    <3> QED BY <3>1, <3>8, <3>9 DEF Armed
  <2> QED BY <2>1, <2>2
<1>18. Key(y)[e] = k BY <1>9, <1>11
<1> QED BY <1>1, <1>11, <1>12, <1>16, <1>17, <1>18 DEF y, k

LEMMA Dequeue ==
    ASSUME NEW x, NEW d \in 0 .. MaxDelay, Sound(x), Late(x, d), NEW e \in Registered(x)
    PROVE  LET y == tmevtb_dequeue(x, e) IN
           /\ Sound(y) /\ Late(y, d) /\ SameFlags(x, y)
           /\ \E s : Moves(x, y, s, {e})
           /\ Registered(y) = Registered(x) \ {e}
           /\ x.intreq => y.intreq
           /\ ~x.in_signal_time /\ Armed(x) => Armed(y)
<1> DEFINE u == tmevtb_delete(x, e)
           y == IF ~x.in_signal_time /\ x.p_tmevtn[e] = 1
                THEN set_hrt_event(update_current_evttim(u)) ELSE u
           R == Registered(x)
<1>1. tmevtb_dequeue(x, e) = y BY DEF tmevtb_dequeue
<1>2. /\ Sound(u) /\ SameClocks(x, u) /\ SameTimer(x, u) /\ SameFlags(x, u)
      /\ Registered(u) = R \ {e} /\ Key(u) = Key(x) /\ Late(u, d)
      /\ Armed(x) => Armed(u)
  BY Deleting
<1> HIDE DEF u
<1>3. x \in TimeState BY DEF Sound
<1>4. Moves(x, u, 0, {e}) BY <1>2, <1>3, Stand
<1>5. CASE ~(~x.in_signal_time /\ x.p_tmevtn[e] = 1)
  <2>1. y = u BY <1>5
  <2> HIDE DEF y
  <2> QED BY <1>1, <1>2, <1>4, <2>1 DEF SameTimer
<1>6. CASE ~x.in_signal_time /\ x.p_tmevtn[e] = 1
  <2> DEFINE z == update_current_evttim(u)
  <2>1. Sound(z) /\ Late(z, d) /\ Updated(u, z) BY <1>2, Update
  <2>2. y = set_hrt_event(z) BY <1>6
  <2> HIDE DEF z
  <2>3. /\ z.since = 0 /\ SameFlags(u, z) /\ z.intreq = u.intreq
        /\ Registered(z) = R \ {e}
    BY <1>2, <2>1, SameRegistered DEF Updated, SameTimer
  <2>4. /\ Sound(y) /\ SameClocks(z, y) /\ SameFlags(z, y)
        /\ Registered(y) = R \ {e} /\ Key(y) = Key(z)
        /\ (z.intreq => y.intreq) /\ Late(y, d) /\ Armed(y)
    BY <2>1, <2>2, <2>3, Setting, Spans
  <2> HIDE DEF y
  <2>5. Moves(u, z, u.since, {e})
    <3>1. u.since \in Nat BY <1>2 DEF Sound, TimeState
    <3> QED BY <2>1, <3>1, UpdateMoves
  <2>6. Moves(z, y, 0, {e})
    <3>1. z \in TimeState BY <2>1 DEF Sound
    <3> QED BY <2>3, <2>4, <3>1, Stand
  <2>7. Moves(x, z, 0 + u.since, {e}) BY <1>2, <1>4, <2>5, Compose
  <2>8. Moves(x, y, 0 + u.since + 0, {e}) BY <2>1, <2>6, <2>7, Compose
  <2>9. SameFlags(x, y) BY <1>2, <2>3, <2>4 DEF SameFlags
  <2>10. x.intreq => y.intreq BY <1>2, <2>3, <2>4 DEF SameTimer
  <2> QED BY <1>1, <2>4, <2>8, <2>9, <2>10
<1> QED BY <1>5, <1>6

-----------------------------------------------------------------------------
(* The inductive invariant.                                                *)
Flags ==
    /\ \A e \in Event : t.sta[e] <=> e \in Registered(t)
    /\ signal \in {"off", "loop", "handler"} /\ callflag \in BOOLEAN
    /\ delay \in 0 .. MaxDelay
    /\ t.in_signal_time <=> signal # "off"
    /\ ~busy => delay = 0

TimeInv ==
    /\ Sound(t) /\ Late(t, delay) /\ Flags
    /\ signal = "off" => Armed(t)
    /\ signal # "off" => t.since <= delay

(* The steps that start and stop events, for the refinement and for the    *)
(* system time.                                                            *)
Restarts(e, k) ==
    \E s : /\ Moves(t, t', s, {e}) /\ t'.since = 0
           /\ e \in Registered(t') /\ Key(t')[e] = BOUNDARY_MARGIN + k
Stops(e) == e \notin Registered(t') /\ \E s : Moves(t, t', s, {e})

\* [x EXCEPT !.sta[e] = b]
LEMMA Flagged ==
    ASSUME NEW x, Sound(x), NEW e \in Event, NEW b \in BOOLEAN
    PROVE  LET y == [x EXCEPT !.sta[e] = b] IN
           /\ Sound(y) /\ SameHeap(x, y) /\ SameClocks(x, y) /\ SameTimer(x, y)
           /\ Registered(y) = Registered(x) /\ Key(y) = Key(x)
           /\ y.in_signal_time = x.in_signal_time
           /\ \A o \in Event : y.sta[o] = IF o = e THEN b ELSE x.sta[o]
           /\ Armed(x) => Armed(y)
           /\ \A d : Late(x, d) => Late(y, d)
           /\ Moves(x, y, 0, {e})
<1> DEFINE y == [x EXCEPT !.sta[e] = b]
<1>1. x \in TimeState BY DEF Sound
<1>2. /\ y \in TimeState /\ SameHeap(x, y) /\ SameClocks(x, y) /\ SameTimer(x, y)
      /\ y.in_signal_time = x.in_signal_time
      /\ \A o \in Event : y.sta[o] = IF o = e THEN b ELSE x.sta[o]
  BY <1>1 DEF TimeState, SameHeap, SameClocks, SameTimer
<1> HIDE DEF y
<1>3. y.cnt = x.cnt /\ y.cmp = x.cmp /\ y.intreq = x.intreq /\ y.since = x.since
  BY <1>2 DEF SameTimer, SameClocks
<1>4. /\ Sound(y) /\ Registered(y) = Registered(x) /\ Key(y) = Key(x)
      /\ \A d : Late(x, d) => Late(y, d)
  BY <1>2, <1>3, StaysSound
<1>5. Armed(x) => Armed(y) BY <1>3, <1>4 DEF Armed, ahead
<1>6. Moves(x, y, 0, {e}) BY <1>1, <1>2, <1>4, Stand
<1> QED BY <1>2, <1>4, <1>5, <1>6 DEF y

\* what stopped makes of an event that is not registered
LEMMA Stopped ==
    ASSUME NEW x, Sound(x), NEW e \in Event \ Registered(x)
    PROVE  LET y == stopped(x, e) IN
           /\ Sound(y) /\ SameClocks(x, y) /\ SameTimer(x, y)
           /\ Registered(y) = Registered(x)
           /\ \A o \in Registered(x) : Key(y)[o] = Key(x)[o]
           /\ y.in_signal_time = x.in_signal_time
           /\ \A o \in Event : y.sta[o] = IF o = e THEN FALSE ELSE x.sta[o]
           /\ Armed(x) => Armed(y)
           /\ \A d : Late(x, d) => Late(y, d)
           /\ Moves(x, y, 0, {e})
<1> DEFINE z == [x EXCEPT !.evttim[e] = 0]
           y == [z EXCEPT !.sta[e] = FALSE]
           R == Registered(x)
<1>1. x \in TimeState /\ 0 \in EVTTIM /\ R \subseteq Event /\ e \notin R
  BY Spans DEF Sound, EVTTIM, Registered
<1>2. stopped(x, e) = y BY <1>1 DEF stopped, TimeState
<1>3. /\ z \in TimeState /\ Heap(Core(z), Registered(z), Key(z))
      /\ SameClocks(x, z) /\ SameTimer(x, z) /\ SameFlags(x, z) /\ Registered(z) = R
      /\ \A o \in Event \ {e} : Key(z)[o] = Key(x)[o]
  BY <1>1, Retimed DEF Sound
<1> HIDE DEF z
<1>4. \A o \in R : Key(z)[o] = Key(x)[o] BY <1>1, <1>3
<1>5. behind(z) = behind(x) BY <1>1, <1>3, ClocksSame
<1>6. /\ z.since = x.since /\ z.cnt = x.cnt /\ z.current_hrtcnt = x.current_hrtcnt
      /\ z.cmp = x.cmp /\ z.intreq = x.intreq
  BY <1>3 DEF SameClocks, SameTimer
<1>7. Sound(z) BY <1>3, <1>4, <1>5, <1>6 DEF Sound
<1>8. \A d : Late(x, d) => Late(z, d) BY <1>3, <1>4, <1>6 DEF Late
<1>9. Armed(x) => Armed(z) BY <1>3, <1>4, <1>6 DEF Armed, ahead
<1>10. /\ Sound(y) /\ SameHeap(z, y) /\ SameClocks(z, y) /\ SameTimer(z, y)
       /\ Registered(y) = R /\ Key(y) = Key(z)
       /\ y.in_signal_time = z.in_signal_time
       /\ \A o \in Event : y.sta[o] = IF o = e THEN FALSE ELSE z.sta[o]
       /\ Armed(z) => Armed(y)
       /\ \A d : Late(z, d) => Late(y, d)
  BY <1>3, <1>7, Flagged
<1> HIDE DEF y
<1>11. SameClocks(x, y) /\ SameTimer(x, y) BY <1>3, <1>10 DEF SameClocks, SameTimer
<1>12. Moves(x, y, 0, {e})
  <2>1. \A o \in R \ {e} : Key(y)[o] = Key(x)[o] BY <1>4, <1>10
  <2> QED BY <1>1, <1>10, <1>11, <2>1, Stand
<1>13. y.in_signal_time = x.in_signal_time /\ z.sta = x.sta
  BY <1>3, <1>10 DEF SameFlags
<1> QED BY <1>2, <1>4, <1>8, <1>9, <1>10, <1>11, <1>12, <1>13

\* a step during which signal_time stays where it is
LEMMA Goes ==
    ASSUME TimeInv, UNCHANGED <<signal, callflag, delay>>,
           Sound(t'), Late(t', delay), \A e \in Event : t'.sta[e] <=> e \in Registered(t'),
           t'.in_signal_time = t.in_signal_time, t.intreq => t'.intreq,
           ~t.in_signal_time /\ Armed(t) => Armed(t'),
           t.in_signal_time => t'.since = 0 \/ t'.since = t.since
    PROVE  TimeInv'
<1>1. Flags' BY DEF TimeInv, Flags, busy
<1>2. (signal = "off" => Armed(t))' BY DEF TimeInv, Flags
<1>3. (signal # "off" => t.since <= delay)'
  <2>1. delay \in Nat BY Spans DEF TimeInv, Flags
  <2> QED BY <2>1 DEF TimeInv, Flags
<1> QED BY <1>1, <1>2, <1>3 DEF TimeInv

LEMMA Starting ==
    ASSUME TimesFit, TimeInv, CHECK_UNL, NEW e \in Event, NEW w \in Nat,
           TSTEP_HRTCNT + w + 2 * TMAX_ADJTIM + BOUNDARY_MARGIN < EVTTIM_SPAN,
           t' = tmevtb_enqueue(IF t.sta[e] THEN tmevtb_dequeue(t, e)
                               ELSE [t EXCEPT !.sta[e] = TRUE], e, w)
    PROVE  TimeInv' /\ Restarts(e, TSTEP_HRTCNT + w)
<1> DEFINE x == IF t.sta[e] THEN tmevtb_dequeue(t, e) ELSE [t EXCEPT !.sta[e] = TRUE]
           R == Registered(t)
<1>1. /\ Sound(t) /\ Late(t, delay) /\ delay \in 0 .. MaxDelay /\ R \subseteq Event
      /\ t.in_signal_time \in BOOLEAN /\ \A o \in Event : t.sta[o] <=> o \in R
      /\ \A o \in Event : t.sta[o] \in BOOLEAN
  BY DEF TimeInv, Flags, Registered, Sound, TimeState
<1>2. /\ Sound(x) /\ Late(x, delay) /\ Registered(x) = R \ {e}
      /\ x.in_signal_time = t.in_signal_time
      /\ \A o \in Event : x.sta[o] = IF o = e THEN TRUE ELSE t.sta[o]
      /\ t.intreq => x.intreq
      /\ ~t.in_signal_time /\ Armed(t) => Armed(x)
      /\ \E s : Moves(t, x, s, {e})
  <2>1. CASE t.sta[e]
    <3>1. x = tmevtb_dequeue(t, e) /\ e \in R BY <1>1, <2>1
    <3> HIDE DEF x
    <3>2. /\ Sound(x) /\ Late(x, delay) /\ SameFlags(t, x)
          /\ \E s : Moves(t, x, s, {e})
          /\ Registered(x) = R \ {e} /\ (t.intreq => x.intreq)
          /\ ~t.in_signal_time /\ Armed(t) => Armed(x)
      BY <1>1, <3>1, Dequeue
    <3>3. t.sta[e] = TRUE BY <1>1, <2>1
    <3>4. x.sta = t.sta /\ x.in_signal_time = t.in_signal_time BY <3>2 DEF SameFlags
    <3> QED BY <3>2, <3>3, <3>4
  <2>2. CASE ~t.sta[e]
    <3> DEFINE y == [t EXCEPT !.sta[e] = TRUE]
    <3>1. x = y /\ e \notin R BY <1>1, <2>2
    <3>2. /\ Sound(y) /\ SameTimer(t, y) /\ Registered(y) = R
          /\ y.in_signal_time = t.in_signal_time
          /\ \A o \in Event : y.sta[o] = IF o = e THEN TRUE ELSE t.sta[o]
          /\ Armed(t) => Armed(y)
          /\ Late(t, delay) => Late(y, delay)
          /\ Moves(t, y, 0, {e})
      BY <1>1, Flagged
    <3> HIDE DEF x, y
    <3> QED BY <1>1, <3>1, <3>2 DEF SameTimer
  <2> QED BY <2>1, <2>2
<1>3. t' = tmevtb_enqueue(x, e, w) OBVIOUS
<1> HIDE DEF x
<1>4. e \in Event \ Registered(x) BY <1>2
<1> DEFINE y == tmevtb_enqueue(x, e, w)
<1>10. /\ Sound(y) /\ Late(y, delay) /\ SameFlags(x, y) /\ y.since = 0
       /\ Moves(x, y, x.since, {e})
       /\ Registered(y) = Registered(x) \cup {e}
       /\ Key(y)[e] = BOUNDARY_MARGIN + TSTEP_HRTCNT + w
       /\ x.intreq => y.intreq
       /\ ~x.in_signal_time /\ Armed(x) => Armed(y)
  BY <1>1, <1>2, <1>4, Enqueue
<1> HIDE DEF y
<1>5. /\ Sound(t') /\ Late(t', delay) /\ SameFlags(x, t') /\ t'.since = 0
      /\ Moves(x, t', x.since, {e})
      /\ Registered(t') = Registered(x) \cup {e}
      /\ Key(t')[e] = BOUNDARY_MARGIN + TSTEP_HRTCNT + w
      /\ x.intreq => t'.intreq
      /\ ~x.in_signal_time /\ Armed(x) => Armed(t')
  <2>1. t' = y BY <1>3 DEF y
  <2> QED BY <1>10, <2>1
<1>6. \A o \in Event : t'.sta[o] <=> o \in Registered(t')
  <2>1. t'.sta = x.sta BY <1>5 DEF SameFlags
  <2> QED BY <1>1, <1>2, <1>5, <2>1
<1>7. t'.in_signal_time = t.in_signal_time BY <1>2, <1>5 DEF SameFlags
<1>8. TimeInv' BY <1>2, <1>5, <1>6, <1>7, Goes DEF CHECK_UNL
<1>9. Restarts(e, TSTEP_HRTCNT + w)
  <2>1. PICK s : Moves(t, x, s, {e}) BY <1>2
  <2>2. Moves(t, t', s + x.since, {e}) BY <1>1, <1>2, <1>5, <2>1, Compose
  <2>3. Key(t')[e] = BOUNDARY_MARGIN + (TSTEP_HRTCNT + w) BY <1>5, Spans
  <2> QED BY <1>5, <2>2, <2>3 DEF Restarts
<1> QED BY <1>8, <1>9

LEMMA Stopping ==
    ASSUME TimeInv, CHECK_UNL, NEW e \in Event, t.sta[e],
           t' = stopped(tmevtb_dequeue(t, e), e)
    PROVE  TimeInv' /\ Stops(e)
<1> DEFINE x == tmevtb_dequeue(t, e)
           R == Registered(t)
<1>1. /\ Sound(t) /\ Late(t, delay) /\ delay \in 0 .. MaxDelay /\ R \subseteq Event
      /\ e \in R /\ \A o \in Event : t.sta[o] <=> o \in R
  BY DEF TimeInv, Flags, Registered
<1>2. t' = stopped(x, e) OBVIOUS
<1>3. /\ Sound(x) /\ Late(x, delay) /\ SameFlags(t, x)
      /\ \E s : Moves(t, x, s, {e})
      /\ Registered(x) = R \ {e} /\ (t.intreq => x.intreq)
      /\ ~t.in_signal_time /\ Armed(t) => Armed(x)
  BY <1>1, Dequeue
<1> HIDE DEF x
<1>4. e \in Event \ Registered(x) BY <1>3
<1> DEFINE y == stopped(x, e)
<1>12. /\ Sound(y) /\ SameClocks(x, y) /\ SameTimer(x, y)
       /\ Registered(y) = Registered(x)
       /\ y.in_signal_time = x.in_signal_time
       /\ \A o \in Event : y.sta[o] = IF o = e THEN FALSE ELSE x.sta[o]
       /\ Armed(x) => Armed(y)
       /\ Late(y, delay)
       /\ Moves(x, y, 0, {e})
  BY <1>3, <1>4, Stopped
<1> HIDE DEF y
<1>5. /\ Sound(t') /\ SameClocks(x, t') /\ SameTimer(x, t')
      /\ Registered(t') = Registered(x)
      /\ t'.in_signal_time = x.in_signal_time
      /\ \A o \in Event : t'.sta[o] = IF o = e THEN FALSE ELSE x.sta[o]
      /\ Armed(x) => Armed(t')
      /\ Late(t', delay)
      /\ Moves(x, t', 0, {e})
  <2>1. t' = y BY <1>2 DEF y
  <2> QED BY <1>12, <2>1
<1>6. PICK s : Moves(t, x, s, {e}) BY <1>3
<1>7. Moves(t, t', s + 0, {e}) BY <1>1, <1>3, <1>5, <1>6, Compose
<1>8. \A o \in Event : t'.sta[o] <=> o \in Registered(t')
  <2>1. x.sta = t.sta BY <1>3 DEF SameFlags
  <2> QED BY <1>1, <1>3, <1>5, <2>1
<1>9. /\ t'.in_signal_time = t.in_signal_time /\ (t.intreq => t'.intreq)
      /\ ~t.in_signal_time /\ Armed(t) => Armed(t')
  BY <1>3, <1>5 DEF SameFlags, SameTimer
<1>10. t'.since = 0 \/ t'.since = t.since
  <2>1. t.since \in Nat BY <1>1 DEF Sound, TimeState
  <2> QED BY <1>6, <1>7, <2>1 DEF Moves
<1>11. TimeInv' BY <1>5, <1>8, <1>9, <1>10, Goes DEF CHECK_UNL
<1> QED BY <1>3, <1>5, <1>7, <1>11 DEF Stops

LEMMA Looking ==
    ASSUME TimeInv, CHECK_TSKCTX_UNL, t' = update_current_evttim(t)
    PROVE  TimeInv' /\ Moves(t, t', t.since, {}) /\ t'.since = 0
<1>1. /\ Sound(t) /\ Late(t, delay) /\ delay \in 0 .. MaxDelay /\ t.since \in Nat
      /\ \A e \in Event : t.sta[e] <=> e \in Registered(t)
  BY DEF TimeInv, Flags, Sound, TimeState
<1>2. Sound(t') /\ Late(t', delay) /\ Updated(t, t') BY <1>1, Update
<1>3. /\ Registered(t') = Registered(t) /\ t'.sta = t.sta /\ t'.since = 0
      /\ t'.in_signal_time = t.in_signal_time /\ t'.intreq = t.intreq
  BY <1>2, SameRegistered DEF Updated, SameFlags, SameTimer
<1>4. Armed(t) => Armed(t') BY <1>1, <1>2, UpdateArmed
<1>5. TimeInv' BY <1>1, <1>2, <1>3, <1>4, Goes DEF CHECK_TSKCTX_UNL, CHECK_UNL
<1>6. Moves(t, t', t.since, {}) BY <1>1, <1>2, UpdateMoves
<1> QED BY <1>3, <1>5, <1>6

LEMMA HandlerReturns ==
    ASSUME TimeInv, handler_returns
    PROVE  TimeInv'
<1>1. t' = t /\ delay' = delay /\ callflag' = callflag /\ signal = "handler" /\ signal' = "loop"
  BY DEF handler_returns
<1>2. Flags' BY <1>1 DEF TimeInv, Flags, busy
<1> QED BY <1>1, <1>2 DEF TimeInv

LEMMA SignalStarts ==
    ASSUME TimeInv, signal_start
    PROVE  TimeInv' /\ Moves(t, t', t.since, {}) /\ t'.since = 0
<1> DEFINE x == [t EXCEPT !.intreq = FALSE, !.in_signal_time = TRUE]
<1>1. /\ Sound(t) /\ Late(t, delay) /\ delay \in 0 .. MaxDelay /\ t.since \in Nat
      /\ t \in TimeState /\ \A e \in Event : t.sta[e] <=> e \in Registered(t)
  BY DEF TimeInv, Flags, Sound, TimeState
<1>2. /\ x \in TimeState /\ SameHeap(t, x) /\ SameClocks(t, x) /\ x.cnt = t.cnt
      /\ x.in_signal_time = TRUE /\ x.sta = t.sta
  BY <1>1 DEF TimeState, SameHeap, SameClocks
<1>3. t' = update_current_evttim(x) BY DEF signal_start
<1> HIDE DEF x
<1>4. Sound(x) /\ Registered(x) = Registered(t) /\ Key(x) = Key(t) /\ Late(x, delay)
  BY <1>1, <1>2, StaysSound
<1>5. Sound(t') /\ Late(t', delay) /\ Updated(x, t') BY <1>1, <1>3, <1>4, Update
<1>6. /\ Registered(t') = Registered(t) /\ t'.sta = t.sta /\ t'.since = 0
      /\ t'.in_signal_time = TRUE
  BY <1>2, <1>4, <1>5, SameRegistered DEF Updated, SameFlags
<1>7. signal' = "loop" /\ callflag' = FALSE /\ delay' = delay BY DEF signal_start
<1>8. Flags' BY <1>1, <1>6, <1>7 DEF Flags, busy
<1>9. delay >= 0 BY <1>1, Spans
<1>10. TimeInv' BY <1>5, <1>6, <1>7, <1>8, <1>9 DEF TimeInv
<1>11. Moves(t, x, 0, {}) BY <1>1, <1>2, <1>4, Stand
<1>12. x.since = t.since BY <1>2 DEF SameClocks
<1>13. Moves(x, t', x.since, {}) BY <1>1, <1>5, <1>12, UpdateMoves
<1>14. Moves(t, t', 0 + t.since, {}) BY <1>1, <1>4, <1>11, <1>12, <1>13, Compose
<1> QED BY <1>1, <1>6, <1>10, <1>14

LEMMA SignalAgain ==
    ASSUME TimeInv, signal_again
    PROVE  TimeInv' /\ Moves(t, t', t.since, {}) /\ t'.since = 0
<1>1. /\ Sound(t) /\ Late(t, delay) /\ delay \in 0 .. MaxDelay /\ t.since \in Nat
      /\ \A e \in Event : t.sta[e] <=> e \in Registered(t)
      /\ t.in_signal_time <=> signal # "off"
  BY DEF TimeInv, Flags, Sound, TimeState
<1>2. /\ t' = update_current_evttim(t) /\ signal = "loop" /\ signal' = "loop"
      /\ callflag' = FALSE /\ delay' = delay
  BY DEF signal_again
<1>3. Sound(t') /\ Late(t', delay) /\ Updated(t, t') BY <1>1, <1>2, Update
<1>4. /\ Registered(t') = Registered(t) /\ t'.sta = t.sta /\ t'.since = 0
      /\ t'.in_signal_time = t.in_signal_time
  BY <1>3, SameRegistered DEF Updated, SameFlags
<1>5. Flags' BY <1>1, <1>2, <1>4 DEF Flags, busy
<1>6. delay >= 0 BY <1>1, Spans
<1>7. TimeInv' BY <1>2, <1>3, <1>4, <1>5, <1>6 DEF TimeInv
<1>8. Moves(t, t', t.since, {}) BY <1>1, <1>3, UpdateMoves
<1> QED BY <1>4, <1>7, <1>8

(* At its end signal_time sets the timer anew; nothing is due then, so that*)
(* what comes next may be late again.                                      *)
LEMMA SignalEnds ==
    ASSUME TimesFit, TimeInv, signal_end
    PROVE  TimeInv' /\ Moves(t, t', 0, {})
<1> DEFINE x == set_hrt_event(t)
           y == [x EXCEPT !.in_signal_time = FALSE]
           R == Registered(t)
<1>1. /\ Sound(t) /\ Late(t, delay) /\ delay \in 0 .. MaxDelay /\ t.since \in Nat
      /\ t \in TimeState /\ \A e \in Event : t.sta[e] <=> e \in R
      /\ t.since <= delay
  BY DEF TimeInv, Flags, Sound, TimeState, signal_end
<1>2. t.since <= MaxDelay BY <1>1, Spans
<1>3. /\ Sound(x) /\ SameClocks(t, x) /\ SameFlags(t, x)
      /\ Registered(x) = R /\ Key(x) = Key(t)
      /\ Late(x, delay) /\ Armed(x)
  BY <1>1, <1>2, Setting
<1>4. t' = y BY DEF signal_end
<1> HIDE DEF x
<1>5. /\ y \in TimeState /\ SameHeap(x, y) /\ SameClocks(x, y) /\ SameTimer(x, y)
      /\ y.in_signal_time = FALSE /\ y.sta = x.sta
  BY <1>3 DEF Sound, TimeState, SameHeap, SameClocks, SameTimer
<1> HIDE DEF y
<1>6. y.cnt = x.cnt /\ y.cmp = x.cmp /\ y.intreq = x.intreq /\ y.since = x.since
  BY <1>5 DEF SameTimer, SameClocks
<1>7. Sound(y) /\ Registered(y) = R /\ Key(y) = Key(t) BY <1>3, <1>5, <1>6, StaysSound
<1>8. Armed(y) BY <1>3, <1>6, <1>7 DEF Armed, ahead
<1>9. y.since = t.since /\ y.sta = t.sta BY <1>3, <1>5 DEF SameClocks, SameFlags
<1>10. Late(y, 0)
  <2>1. ASSUME NEW e \in R PROVE y.since + MaxDelay <= Key(y)[e] + 0
    <3> DEFINE k == Key(t)[t.tmevt_heap[1]]
    <3>1. /\ not_empty(t) /\ k <= Key(t)[e]
          /\ EVTTIM_ADVANCE(t, top_evttim(t)) = k /\ t.tmevt_heap[1] \in R
      BY <1>1, Tops DEF Sound
    <3>2. EVTTIM_ADVANCE(t, t.current_evttim) = BOUNDARY_MARGIN
      BY <1>1, TimeKeys, Now
    <3>3. k \in Nat /\ Key(t)[e] \in Nat BY <1>1, <3>1, TimeKeys
    <3>4. ~(k <= BOUNDARY_MARGIN) BY <3>1, <3>2 DEF signal_end, event_due, EVTTIM_LE
    <3> HIDE DEF k
    <3>5. 2 * MaxDelay <= BOUNDARY_MARGIN BY DEF TimesFit
    <3> QED BY <1>1, <1>2, <1>7, <1>9, <3>1, <3>3, <3>4, <3>5, Spans
  <2>2. y.since <= HRTCNT_BOUND + MaxDelay + 0 BY <1>1, <1>2, <1>9, Spans
  <2> QED BY <1>7, <2>1, <2>2 DEF Late
<1>11. signal' = "off" /\ delay' = 0 /\ callflag' = callflag BY DEF signal_end
<1>12. Flags'
  <2>1. 0 \in 0 .. MaxDelay BY Spans
  <2>2. callflag \in BOOLEAN BY DEF TimeInv, Flags
  <2> QED BY <1>1, <1>4, <1>5, <1>7, <1>9, <1>11, <2>1, <2>2 DEF Flags, busy
<1>13. TimeInv' BY <1>4, <1>7, <1>8, <1>10, <1>11, <1>12 DEF TimeInv
<1>14. SameClocks(t, y) BY <1>3, <1>5 DEF SameClocks
<1>15. Moves(t, y, 0, {}) BY <1>1, <1>7, <1>14, Stand
<1> QED BY <1>4, <1>13, <1>15

(* The first event occurs.                                                 *)
Occurs(e) ==
    /\ e \in Registered(t) /\ Key(t)[e] <= BOUNDARY_MARGIN
    /\ \A o \in Registered(t) : Key(t)[e] <= Key(t)[o]
    /\ Moves(t, t', 0, {e})
    /\ IF e \in Cyclic THEN e \in Registered(t') /\ Key(t')[e] = Key(t)[e] + cyctim[e]
       ELSE e \notin Registered(t')

LEMMA SignalCalls ==
    ASSUME TimesFit, TimeInv, signal_call
    PROVE  TimeInv' /\ \E e \in Event : Occurs(e)
<1> DEFINE e == t.tmevt_heap[1]
           x == tmevtb_delete_top(t)
           R == Registered(t)
           k == Key(t)[e]
<1>1. /\ Sound(t) /\ Late(t, delay) /\ delay \in 0 .. MaxDelay /\ t.since \in Nat
      /\ t \in TimeState /\ R \subseteq Event
      /\ \A o \in Event : t.sta[o] <=> o \in R
      /\ \A o \in Event : t.sta[o] \in BOOLEAN
      /\ t.since <= delay /\ t.in_signal_time
  BY DEF TimeInv, Flags, Sound, TimeState, signal_call, Registered
<1>2. /\ not_empty(t) /\ e \in R /\ EVTTIM_ADVANCE(t, top_evttim(t)) = k
      /\ \A o \in R : k <= Key(t)[o]
  BY <1>1, Tops DEF Sound, signal_call, event_due
<1>3. k <= BOUNDARY_MARGIN /\ k \in Nat /\ k \in EVTTIM
  <2>1. EVTTIM_ADVANCE(t, t.current_evttim) = BOUNDARY_MARGIN
    BY <1>1, TimeKeys, Now
  <2>2. k \in Nat /\ k \in EVTTIM BY <1>1, <1>2, TimeKeys
  <2> QED BY <1>2, <2>1, <2>2 DEF signal_call, event_due, EVTTIM_LE
<1>4. x = tmevtb_delete(t, e) BY <1>1, <1>2, TopDeleted
<1> HIDE DEF e, x
<1>5. /\ Sound(x) /\ SameClocks(t, x) /\ SameTimer(t, x) /\ SameFlags(t, x)
      /\ Registered(x) = R \ {e} /\ Key(x) = Key(t) /\ x.evttim = t.evttim
      /\ Late(x, delay)
  BY <1>1, <1>2, <1>4, Deleting
<1>6. /\ t' = IF e \in Alarm THEN stopped(x, e)
              ELSE tmevtb_insert([x EXCEPT !.evttim[e] = (@ + cyctim[e]) % EVTTIM_SPAN], e)
      /\ signal' = "handler" /\ callflag' = TRUE /\ delay' = delay
  BY DEF signal_call, call_alarm, call_cyclic, tmevtb_register, e, x
<1>7. e \in Event \ Registered(x) /\ x.sta = t.sta /\ x.in_signal_time = t.in_signal_time
  BY <1>1, <1>2, <1>5 DEF SameFlags
<1>8. Moves(t, x, 0, {e}) BY <1>1, <1>5, Stand
<1>9. e \in Alarm <=> e \notin Cyclic BY <1>7, NotifyAssumption
<1>10. /\ Sound(t') /\ Late(t', delay) /\ t'.since = t.since
       /\ \A o \in Event : t'.sta[o] <=> o \in Registered(t')
       /\ t'.in_signal_time = t.in_signal_time /\ Occurs(e)
  <2>1. CASE e \in Alarm
    <3> DEFINE y == stopped(x, e)
    <3>1. /\ Sound(y) /\ SameClocks(x, y) /\ Registered(y) = R \ {e}
          /\ y.in_signal_time = x.in_signal_time
          /\ \A o \in Event : y.sta[o] = IF o = e THEN FALSE ELSE x.sta[o]
          /\ Late(y, delay) /\ Moves(x, y, 0, {e})
      BY <1>5, <1>7, Stopped
    <3>2. t' = y BY <1>6, <2>1
    <3> HIDE DEF y
    <3>3. Moves(t, y, 0 + 0, {e}) BY <1>1, <1>5, <1>8, <3>1, Compose
    <3>4. y.since = t.since BY <1>5, <3>1 DEF SameClocks
    <3>5. \A o \in Event : y.sta[o] <=> o \in Registered(y) BY <1>1, <1>7, <3>1
    <3>6. e \notin Registered(y) BY <3>1
    <3>7. Occurs(e) BY <1>2, <1>3, <1>9, <2>1, <3>2, <3>3, <3>6 DEF Occurs
    <3> QED BY <1>7, <3>1, <3>2, <3>4, <3>5, <3>7
  <2>2. CASE e \notin Alarm
    <3> DEFINE w == t.evttim[e]
               v == (w + cyctim[e]) % EVTTIM_SPAN
               y == tmevtb_insert([x EXCEPT !.evttim[e] = v], e)
               p == cyctim[e]
    <3>1. e \in Cyclic /\ p \in Nat BY <1>9, <2>2, NotifyAssumption
    <3>2. p + 2 * TMAX_ADJTIM + BOUNDARY_MARGIN < EVTTIM_SPAN BY <3>1 DEF TimesFit
    <3>3. /\ w \in EVTTIM /\ k = EVTTIM_ADVANCE(t, w) /\ t.current_evttim \in EVTTIM
      BY <1>1, <1>7, TimeKeys
    <3>4. k + p < EVTTIM_SPAN - 2 * TMAX_ADJTIM BY <1>3, <3>1, <3>2, Spans
    <3>5. v \in EVTTIM /\ EVTTIM_ADVANCE(t, v) = k + p
      <4>1. EVTTIM_ADVANCE(t, w) + p < EVTTIM_SPAN BY <1>3, <3>1, <3>3, <3>4, Spans
      <4> HIDE DEF w, p, k
      <4> QED BY <3>1, <3>3, <4>1, Later DEF p
    <3>6. EVTTIM_ADVANCE(x, v) = k + p
      <4>1. x.current_evttim = t.current_evttim BY <1>5 DEF SameClocks
      <4> QED BY <3>5, <4>1 DEF EVTTIM_ADVANCE, boundary_evttim
    <3>7. x.evttim[e] = w BY <1>5
    <3>8. [x EXCEPT !.evttim[e] = (@ + cyctim[e]) % EVTTIM_SPAN] = [x EXCEPT !.evttim[e] = v]
      BY <3>7
    <3>9. t' = y BY <1>6, <2>2, <3>8
    <3> HIDE DEF v, k
    <3>10. behind(x) \in Nat
      <4>1. x \in TimeState BY <1>5 DEF Sound
      <4> QED BY <4>1, ClockValues, Spans
    <3>11. EVTTIM_ADVANCE(x, v) - behind(x) < EVTTIM_SPAN - 2 * TMAX_ADJTIM
      BY <1>3, <3>1, <3>4, <3>6, <3>10, Spans
    <3>12. /\ Sound(y) /\ SameClocks(x, y) /\ SameFlags(x, y)
           /\ Registered(y) = Registered(x) \cup {e}
           /\ Key(y)[e] = EVTTIM_ADVANCE(x, v)
           /\ \A o \in Event \ {e} : Key(y)[o] = Key(x)[o]
           /\ Late(x, delay) /\ x.since + MaxDelay <= EVTTIM_ADVANCE(x, v) + delay
                => Late(y, delay)
      BY <1>5, <1>7, <3>5, <3>11, Registering
    <3> HIDE DEF y
    <3>13. x.since = t.since /\ y.since = t.since BY <1>5, <3>12 DEF SameClocks
    <3>14. Late(y, delay)
      <4>1. t.since + MaxDelay <= k + delay BY <1>1, <1>2 DEF Late, k
      <4>2. x.since + MaxDelay <= k + p + delay BY <1>1, <1>3, <3>1, <3>13, <4>1, Spans
      <4> QED BY <1>5, <3>6, <3>12, <4>2
    <3>15. Moves(x, y, 0, {e})
      <4>1. x \in TimeState /\ Registered(x) \subseteq Event BY <1>5 DEF Sound, Registered
      <4> QED BY <3>12, <4>1, Stand
    <3>16. Moves(t, y, 0 + 0, {e}) BY <1>1, <1>5, <1>8, <3>15, Compose
    <3>17. \A o \in Event : y.sta[o] <=> o \in Registered(y)
      BY <1>1, <1>2, <1>5, <1>7, <3>12 DEF SameFlags
    <3>18. y.in_signal_time = t.in_signal_time BY <1>7, <3>12 DEF SameFlags
    <3>19. e \in Registered(y) /\ Key(y)[e] = k + cyctim[e] BY <3>6, <3>12
    <3>20. Occurs(e) BY <1>2, <1>3, <3>1, <3>9, <3>16, <3>19 DEF Occurs, k
    <3> QED BY <3>9, <3>12, <3>13, <3>14, <3>17, <3>18, <3>20
  <2> QED BY <2>1, <2>2
<1>11. Flags' BY <1>1, <1>6, <1>10 DEF Flags, busy
<1>12. TimeInv' BY <1>1, <1>6, <1>10, <1>11 DEF TimeInv
<1> QED BY <1>7, <1>10, <1>12

(* A count: the interrupt is one count nearer, or it is one count later.   *)
LEMMA Ticks ==
    ASSUME TimesFit, TimeInv, tick
    PROVE  /\ TimeInv' /\ t'.since = t.since + 1 /\ Registered(t') = Registered(t)
           /\ Key(t') = Key(t) /\ Clocks(t, t', 0)
<1> DEFINE T == TCYC_HRTCNT
           R == Registered(t)
           s == t.since
           c == t.cnt
           c1 == (c + 1) % T
           y == hrt_tick(t)
           fired == t.intreq \/ c1 = t.cmp
<1>1. /\ Sound(t) /\ Late(t, delay) /\ delay \in 0 .. MaxDelay /\ s \in Nat
      /\ t \in TimeState /\ \A e \in Event : t.sta[e] <=> e \in R
      /\ c \in Nat /\ c < T /\ t.cmp \in Nat /\ t.cmp < T /\ T \in Nat /\ t.intreq \in BOOLEAN
      /\ delay \in Nat /\ MaxDelay \in Nat
  BY Spans DEF TimeInv, Flags, Sound, TimeState, HRTCNT
<1>2. \A i, j \in 0 .. T - 1 : (i - j) % T = IF i < j THEN i - j + T ELSE i - j
  <2> TAKE i, j \in 0 .. T - 1
  <2>1. i \in Int /\ j \in Int /\ i - j \in Int /\ -T <= i - j /\ i - j < 2 * T /\ T \in Int
    BY <1>1
  <2> QED BY ONLY <2>1, NearTcyc
<1>3. c1 = IF c + 1 < T THEN c + 1 ELSE 0
  <2> DEFINE i == c + 1
  <2>1. i \in Int /\ -T <= i /\ i < 2 * T /\ 0 <= i /\ T \in Int /\ T > 0 /\ i <= T BY <1>1
  <2> HIDE DEF i
  <2>2. i % T = IF i < T THEN i ELSE i - T BY ONLY <2>1, NearTcyc
  <2>3. i % T = IF i < T THEN i ELSE 0 BY <2>1, <2>2
  <2> HIDE DEF c
  <2> QED BY <2>3 DEF i
<1>4. c1 \in Nat /\ c1 < T BY <1>1, <1>3
<1>5. t' = y /\ signal' = signal /\ callflag' = callflag
      /\ delay' = IF busy THEN delay + 1 ELSE 0
  BY DEF tick
<1>6. /\ y \in TimeState /\ SameHeap(t, y) /\ SameFlags(t, y) /\ y.since = s + 1
      /\ y.cnt = c1 /\ y.cmp = t.cmp /\ y.intreq = fired
      /\ y.current_evttim = t.current_evttim /\ y.current_hrtcnt = t.current_hrtcnt
      /\ y.monotonic_evttim = t.monotonic_evttim /\ y.systim_offset = t.systim_offset
  <2>1. c1 \in HRTCNT /\ s + 1 \in Nat /\ fired \in BOOLEAN BY <1>1, <1>4 DEF HRTCNT
  <2>2. y = [t EXCEPT !.cnt = c1, !.intreq = fired, !.since = s + 1] BY DEF hrt_tick
  <2> HIDE DEF c1, fired, y, s
  <2>3. /\ y \in TimeState /\ SameHeap(t, y) /\ SameFlags(t, y) /\ y.since = s + 1
        /\ y.cnt = c1 /\ y.cmp = t.cmp /\ y.intreq = fired
    BY <1>1, <2>1, <2>2 DEF TimeState, SameHeap, SameFlags
  <2>4. /\ y.current_evttim = t.current_evttim /\ y.current_hrtcnt = t.current_hrtcnt
        /\ y.monotonic_evttim = t.monotonic_evttim /\ y.systim_offset = t.systim_offset
    BY <1>1, <2>2 DEF TimeState
  <2> QED BY <2>3, <2>4
<1> HIDE DEF y
<1>7. Registered(y) = R /\ Key(y) = Key(t) BY <1>6, SameRegistered, SameKeys DEF SameHeap
<1>8. behind(y) = behind(t) /\ systim(y) = systim(t) BY <1>6 DEF behind, systim
<1>9. Clocks(t, y, 0)
  <2>1. SameClocks(t, [y EXCEPT !.since = t.since])
        /\ behind([y EXCEPT !.since = t.since]) = behind(y)
        /\ systim([y EXCEPT !.since = t.since]) = systim(y)
        /\ [y EXCEPT !.since = t.since].current_evttim = y.current_evttim
    BY <1>6 DEF SameClocks, behind, systim, TimeState
  <2>2. Clocks(t, [y EXCEPT !.since = t.since], 0) BY <1>1, <2>1, ClocksSame
  <2> QED BY <2>1, <2>2 DEF Clocks
<1>10. y.cnt = (y.current_hrtcnt + y.since) % T
  <2> DEFINE r == t.current_hrtcnt
             i == r + s
             j == i + 1
  <2>1. r \in Nat /\ r < T /\ s < T BY <1>1, Reading DEF TimeState, HRTCNT
  <2>2. c = i % T /\ j = r + (s + 1) BY <1>1, <2>1 DEF Sound
  <2>3. i \in Int /\ -T <= i /\ i < 2 * T /\ 0 <= i /\ T \in Int BY <1>1, <2>1
  <2> HIDE DEF i, j
  <2>4. i % T = IF i < T THEN i ELSE i - T BY ONLY <2>3, NearTcyc
  <2>5. j = i + 1 /\ j <= 2 * T - 1 BY <1>1, <2>1 DEF j, i
  <2>6. j \in Int /\ -T <= j /\ j < 2 * T /\ 0 <= j /\ T \in Int BY <1>1, <2>3, <2>5
  <2>7. j % T = IF j < T THEN j ELSE j - T BY ONLY <2>6, NearTcyc
  <2> HIDE DEF c, c1
  <2>8. c1 = j % T BY <1>1, <1>3, <2>2, <2>3, <2>4, <2>5, <2>7
  <2> QED BY <1>6, <2>2, <2>8
<1>11. Sound(y)
  <2>1. \A e \in R : Key(y)[e] = Key(t)[e] - 0 BY <1>1, <1>7, TimeKeys
  <2>2. Heap(Core(y), Registered(y), Key(y)) BY <1>1, <1>6, <2>1, SameOrder DEF Sound
  <2> QED BY <1>1, <1>6, <1>7, <1>8, <1>10, <2>2 DEF Sound
<1> DEFINE a == ahead(t)
<1>12. a \in Nat /\ a >= 1 /\ (c1 # t.cmp => ahead(y) = a - 1)
  <2>1. c \in 0 .. T - 1 /\ c1 \in 0 .. T - 1 /\ t.cmp \in 0 .. T - 1 BY <1>1, <1>4
  <2> DEFINE m == t.cmp
             a0 == (m - c) % T
             a1 == (m - c1) % T
  <2>2. a = (IF m = c THEN T ELSE a0) /\ ahead(y) = IF m = c1 THEN T ELSE a1
    BY <1>6 DEF ahead
  <2>3. /\ a0 = (IF m < c THEN m - c + T ELSE m - c)
        /\ a1 = (IF m < c1 THEN m - c1 + T ELSE m - c1)
    BY <1>2, <2>1
  <2> HIDE DEF a, a0, a1, c1, c, m
  <2>4. m \in Nat /\ m < T /\ c \in Nat /\ c < T /\ T \in Nat BY <1>1 DEF m
  <2>5. c1 # m => ahead(y) = a - 1 BY <1>3, <2>2, <2>3, <2>4
  <2> QED BY <2>2, <2>3, <2>4, <2>5 DEF m
<1>13. ASSUME signal = "off" PROVE Armed(y)
  <2>1. Armed(t) BY <1>13 DEF TimeInv
  <2> SUFFICES ASSUME ~y.intreq PROVE Armed(y) BY DEF Armed
  <2>2. ~t.intreq /\ ahead(y) = a - 1 BY <1>1, <1>6, <1>12
  <2>3. s + a <= HRTCNT_BOUND + MaxDelay
        /\ \A e \in R : a + BOUNDARY_MARGIN + s <= Key(t)[e] + MaxDelay
    BY <2>1, <2>2 DEF Armed
  <2> HIDE DEF a, s
  <2>4. y.since + ahead(y) <= HRTCNT_BOUND + MaxDelay
    BY <1>1, <1>6, <1>12, <2>2, <2>3, Spans
  <2>5. \A e \in R : ahead(y) + BOUNDARY_MARGIN + y.since <= Key(y)[e] + MaxDelay
    <3> TAKE e \in R
    <3>1. Key(t)[e] \in Nat BY <1>1, TimeKeys
    <3>2. a + BOUNDARY_MARGIN + s <= Key(t)[e] + MaxDelay BY <2>3
    <3> QED BY <1>1, <1>6, <1>7, <1>12, <2>2, <3>1, <3>2, Spans
  <2> QED BY <1>7, <2>4, <2>5 DEF Armed
<1>14. Late(y, delay') /\ delay' \in 0 .. MaxDelay
  <2>1. CASE busy
    <3>1. delay' = delay + 1 /\ delay < MaxDelay BY <1>5, <2>1 DEF tick
    <3>2. ASSUME NEW e \in R PROVE y.since + MaxDelay <= Key(y)[e] + delay'
      <4>1. s + MaxDelay <= Key(t)[e] + delay BY <1>1 DEF Late
      <4>2. Key(t)[e] \in Nat BY <1>1, TimeKeys
      <4> HIDE DEF s
      <4> QED BY <1>1, <1>6, <1>7, <3>1, <4>1, <4>2
    <3>3. y.since <= HRTCNT_BOUND + MaxDelay + delay'
      <4>1. s <= HRTCNT_BOUND + MaxDelay + delay BY <1>1 DEF Late
      <4> HIDE DEF s
      <4> QED BY <1>1, <1>6, <3>1, <4>1, Spans
    <3> QED BY <1>1, <1>7, <3>1, <3>2, <3>3 DEF Late
  <2>2. CASE ~busy
    <3>1. delay' = 0 /\ ~t.intreq /\ signal = "off" BY <1>5, <2>2 DEF busy
    <3>2. s + a <= HRTCNT_BOUND + MaxDelay
          /\ \A e \in R : a + BOUNDARY_MARGIN + s <= Key(t)[e] + MaxDelay
      BY <3>1 DEF TimeInv, Armed
    <3> HIDE DEF a, s
    <3>3. ASSUME NEW e \in R PROVE y.since + MaxDelay <= Key(y)[e] + delay'
      <4>1. a + BOUNDARY_MARGIN + s <= Key(t)[e] + MaxDelay BY <3>2
      <4>2. Key(t)[e] \in Nat BY <1>1, TimeKeys
      <4>3. 2 * MaxDelay <= BOUNDARY_MARGIN BY DEF TimesFit
      <4> QED BY <1>1, <1>6, <1>7, <1>12, <3>1, <4>1, <4>2, <4>3, Spans
    <3>4. y.since <= HRTCNT_BOUND + MaxDelay + delay'
      BY <1>1, <1>6, <1>12, <3>1, <3>2, Spans
    <3> QED BY <1>1, <1>7, <3>1, <3>3, <3>4 DEF Late
  <2> QED BY <2>1, <2>2
<1>15. Flags'
  <2>1. ~(busy') => delay' = 0
    <3>1. t.intreq => y.intreq BY <1>6
    <3>2. busy => busy' BY <1>5, <3>1 DEF busy
    <3> QED BY <1>5, <3>2
  <2>2. y.sta = t.sta /\ y.in_signal_time = t.in_signal_time BY <1>6 DEF SameFlags
  <2>3. \A e \in Event : t'.sta[e] <=> e \in Registered(t') BY <1>1, <1>5, <1>7, <2>2
  <2> QED BY <1>5, <1>14, <2>1, <2>2, <2>3 DEF TimeInv, Flags
<1>16. signal # "off" => y.since <= delay'
  <2>1. signal # "off" => s <= delay /\ delay' = delay + 1 BY <1>5 DEF TimeInv, busy
  <2> QED BY <1>1, <1>6, <2>1
<1>17. TimeInv' BY <1>5, <1>11, <1>13, <1>14, <1>15, <1>16 DEF TimeInv
<1> QED BY <1>5, <1>6, <1>7, <1>9, <1>17

-----------------------------------------------------------------------------
(* The adjustment of the clock by a, without the setting of the timer.     *)
Adjusted(x, a) ==
    LET y == [x EXCEPT !.current_evttim = (@ + a) % EVTTIM_SPAN]
    IN  IF a > 0 THEN follow(y, x.current_evttim, a) ELSE y

\* back by d: monotonic_evttim, and so the system time, stay
LEMMA PutBack ==
    ASSUME NEW x \in TimeState, NEW y, NEW a \in Int, a <= 0, behind(x) - a < EVTTIM_SPAN,
           y.monotonic_evttim = x.monotonic_evttim, y.systim_offset = x.systim_offset,
           y.current_evttim = (x.current_evttim + a) % EVTTIM_SPAN
    PROVE  behind(y) = behind(x) - a /\ systim(y) = systim(x)
<1> DEFINE S == EVTTIM_SPAN
           c == x.current_evttim
           c1 == y.current_evttim
           m == x.monotonic_evttim
           B == behind(x)
<1>1. /\ c \in Nat /\ c < S /\ m \in Nat /\ m < S /\ S \in Nat /\ B \in Nat /\ B < S
      /\ S > 0 /\ -S < a
  BY ClockValues, Spans DEF TimeState, EVTTIM
<1>2. \A i, j \in 0 .. S - 1 : (i - j) % S = IF i < j THEN i - j + S ELSE i - j
  <2> TAKE i, j \in 0 .. S - 1
  <2>1. i \in Int /\ j \in Int /\ i - j \in Int /\ -S <= i - j /\ i - j < 2 * S /\ S \in Int
    BY <1>1
  <2> QED BY ONLY <2>1, NearSpan
<1>3. c1 = IF c + a < 0 THEN c + a + S ELSE c + a
  <2> DEFINE i == c + a
  <2>1. i \in Int /\ -S <= i /\ i < S /\ i < 2 * S /\ S \in Int BY <1>1
  <2> HIDE DEF i
  <2>2. i % S = IF i < 0 THEN i + S ELSE i BY ONLY <2>1, NearSpan
  <2>3. c1 = i % S BY DEF i
  <2> HIDE DEF c1, c
  <2> QED BY <2>2, <2>3 DEF i
<1>4. c \in 0 .. S - 1 /\ c1 \in 0 .. S - 1 /\ m \in 0 .. S - 1 BY <1>1, <1>3
<1> DEFINE b0 == (m - c) % S
           b1 == (m - c1) % S
<1>5. B = b0 /\ behind(y) = b1 BY DEF behind
<1>6. /\ b0 = (IF m < c THEN m - c + S ELSE m - c)
      /\ b1 = (IF m < c1 THEN m - c1 + S ELSE m - c1)
  BY <1>2, <1>4
<1>7. B - a < S OBVIOUS
<1> HIDE DEF S, c, c1, m, B, b0, b1
<1>8. b1 = B - a BY <1>1, <1>3, <1>5, <1>6, <1>7
<1> QED BY <1>5, <1>8 DEF systim, B

LEMMA Adjusting ==
    ASSUME TimesFit, NEW x, NEW d \in 0 .. MaxDelay, Sound(x), Late(x, d), x.since = 0,
           NEW a \in -TMAX_ADJTIM .. TMAX_ADJTIM, ~check_adjtim(x, a)
    PROVE  LET y == Adjusted(x, a) IN
           /\ Sound(y) /\ Late(y, d) /\ SameHeap(x, y) /\ SameTimer(x, y)
           /\ SameFlags(x, y) /\ y.since = 0
           /\ \A e \in Registered(x) : Key(y)[e] = Key(x)[e] - a
           /\ y.current_evttim = (x.current_evttim + a) % EVTTIM_SPAN
           /\ a > 0 => Clocks(x, y, a)
           /\ a <= 0 => systim(y) = systim(x)
<1> DEFINE S == EVTTIM_SPAN
           A == TMAX_ADJTIM
           M == BOUNDARY_MARGIN
           c == x.current_evttim
           v == (c + a) % S
           u == [x EXCEPT !.current_evttim = v]
           y == Adjusted(x, a)
           R == Registered(x)
           B == behind(x)
<1>1. /\ x \in TimeState /\ Heap(Core(x), R, Key(x)) /\ R \subseteq Event
      /\ c \in EVTTIM /\ c \in Nat /\ B \in Nat /\ B < S /\ B <= 2 * A
      /\ \A e \in R : Key(x)[e] - B < S - 2 * A
      /\ \A e \in R : Key(x)[e] \in Nat /\ Key(x)[e] < S
      /\ \A e \in R : MaxDelay <= Key(x)[e] + d
  <2>1. x \in TimeState BY DEF Sound
  <2>2. \A e \in R : x.since + MaxDelay <= Key(x)[e] + d BY DEF Late
  <2>3. Key(x) \in [Event -> EVTTIM] /\ R \subseteq Event /\ c \in EVTTIM BY <2>1, TimeKeys
  <2>4. \A e \in R : Key(x)[e] \in Nat /\ Key(x)[e] < S BY <2>3, Spans DEF EVTTIM
  <2>5. c \in Nat /\ B \in Nat /\ B < S BY <2>1, ClockValues, Spans
  <2> QED BY <2>1, <2>2, <2>3, <2>4, <2>5, Spans DEF Sound
<1>2. /\ S \in Nat /\ S > 0 /\ A \in Nat /\ M \in Nat /\ M < S /\ 2 * A + MaxDelay <= M
      /\ MaxDelay \in Nat /\ d \in Nat /\ a \in Int /\ -A <= a /\ a <= A
      /\ -S < a /\ a < S
  BY Spans DEF TimesFit
<1>3. v \in EVTTIM BY <1>1, <1>2 DEF EVTTIM
<1>4. /\ u \in TimeState /\ SameHeap(x, u) /\ SameTimer(x, u) /\ SameFlags(x, u)
      /\ u.current_evttim = v /\ u.current_hrtcnt = x.current_hrtcnt /\ u.since = 0
      /\ u.monotonic_evttim = x.monotonic_evttim /\ u.systim_offset = x.systim_offset
  <2> HIDE DEF v
  <2> QED BY <1>1, <1>3 DEF TimeState, SameHeap, SameTimer, SameFlags
<1>5. y = IF a > 0 THEN follow(u, c, a) ELSE u BY DEF Adjusted
<1> HIDE DEF u, y
<1>6. /\ y \in TimeState /\ SameHeap(x, y) /\ SameTimer(x, y) /\ SameFlags(x, y)
      /\ y.current_evttim = v /\ y.current_hrtcnt = x.current_hrtcnt /\ y.since = 0
      /\ systim(y) = IF a > 0 THEN (systim(x) + gains(x, a)) % SYSTIM_SPAN ELSE systim(x)
      /\ a > 0 => behind(y) = IF B < a THEN 0 ELSE B - a
      /\ a <= 0 => behind(y) = B - a /\ (a = 0 \/ B < A)
  <2>1. CASE a > 0
    <3>1. a \in 0 .. S - 1 BY <1>2, <2>1
    <3>2. y = follow(u, c, a) BY <1>5, <2>1
    <3>3. /\ y \in TimeState /\ SameHeap(u, y) /\ SameTimer(u, y) /\ SameFlags(u, y)
          /\ y.current_evttim = u.current_evttim /\ y.current_hrtcnt = u.current_hrtcnt
          /\ y.since = u.since
          /\ behind(y) = (IF behind(x) < a THEN 0 ELSE behind(x) - a)
          /\ systim(y) = (systim(x) + gains(x, a)) % SYSTIM_SPAN
      BY <1>1, <1>4, <3>1, <3>2, Follow
    <3> HIDE DEF v
    <3> QED BY <1>2, <1>4, <2>1, <3>3 DEF SameHeap, SameTimer, SameFlags
  <2>2. CASE a <= 0
    <3>1. y = u BY <1>2, <1>5, <2>2
    <3>2. a = 0 \/ B < A
      <4>1. ~(a < 0 /\ B >= A) BY <1>2, <2>2 DEF check_adjtim, behind
      <4> HIDE DEF B, A
      <4> QED BY <1>1, <1>2, <2>2, <4>1
    <3>3. B - a < S
      <4> HIDE DEF B, A, S
      <4>1. A < S BY <1>2
      <4> QED BY <1>1, <1>2, <2>2, <3>2
    <3>4. behind(u) = B - a /\ systim(u) = systim(x)
      BY <1>1, <1>2, <1>4, <2>2, <3>3, PutBack
    <3>5. ~(a > 0) BY <1>2, <2>2
    <3> HIDE DEF v
    <3> QED BY <1>4, <3>1, <3>2, <3>4, <3>5
  <2> QED BY <1>2, <2>1, <2>2
<1>7. a > 0 => \A e \in R : M - A < Key(x)[e]
  <2> SUFFICES ASSUME a > 0, NEW e \in R PROVE M - A < Key(x)[e] OBVIOUS
  <2> DEFINE w == (c - A) % S
             k == Key(x)[x.tmevt_heap[1]]
  <2>1. /\ not_empty(x) /\ EVTTIM_ADVANCE(x, top_evttim(x)) = k /\ k <= Key(x)[e]
        /\ x.tmevt_heap[1] \in R
    BY <1>1, Tops
  <2>2. EVTTIM_ADVANCE(x, w) = M - A
    <3> DEFINE n == -A
    <3>1. n \in Int /\ 0 <= M + n /\ M + n < S BY <1>2
    <3>2. w = (c + n) % S BY <1>1, <1>2
    <3> HIDE DEF n, w
    <3>3. EVTTIM_ADVANCE(x, w) = M + n BY <1>1, <3>1, <3>2, FromNow
    <3> QED BY <1>2, <3>3 DEF n
  <2>3. ~(k <= M - A) BY <1>2, <2>1, <2>2 DEF check_adjtim, EVTTIM_LE
  <2>4. k \in Nat /\ Key(x)[e] \in Nat BY <1>1, <2>1
  <2> QED BY <1>2, <2>1, <2>3, <2>4
<1>8. \A e \in R : 0 <= Key(x)[e] - a /\ Key(x)[e] - a < S
                   /\ MaxDelay <= Key(x)[e] - a + d
                   /\ (Key(x)[e] - a) - behind(y) < S - 2 * A
  <2> TAKE e \in R
  <2> DEFINE k == Key(x)[e]
  <2>1. k \in Nat /\ k < S /\ MaxDelay <= k + d /\ k - B < S - 2 * A BY <1>1
  <2>2. a > 0 => M - A < k BY <1>7
  <2> HIDE DEF k, B, S, A, M
  <2>3. a > 0 => behind(y) = IF B < a THEN 0 ELSE B - a BY <1>6
  <2>4. a <= 0 => behind(y) = B - a /\ (a = 0 \/ B < A) BY <1>6
  <2>5. a > 0 => /\ 0 <= k - a /\ k - a < S /\ MaxDelay <= k - a + d
                 /\ (k - a) - behind(y) < S - 2 * A
    BY <1>1, <1>2, <2>1, <2>2, <2>3
  <2>6. a <= 0 => /\ 0 <= k - a /\ k - a < S /\ MaxDelay <= k - a + d
                  /\ (k - a) - behind(y) < S - 2 * A
    BY <1>1, <1>2, <2>1, <2>4
  <2> QED BY <1>2, <2>5, <2>6 DEF k
<1>9. \A e \in R : Key(y)[e] = Key(x)[e] - a
  <2> TAKE e \in R
  <2> DEFINE w == x.evttim[e]
  <2>1. /\ e \in Event /\ w \in EVTTIM /\ y.evttim = x.evttim
        /\ Key(x)[e] = EVTTIM_ADVANCE(x, w)
        /\ Key(y)[e] = EVTTIM_ADVANCE(y, y.evttim[e])
    BY <1>1, <1>6, TimeKeys DEF SameHeap
  <2>2. /\ 0 <= EVTTIM_ADVANCE(x, w) - a /\ EVTTIM_ADVANCE(x, w) - a < EVTTIM_SPAN
        /\ a \in Int /\ -EVTTIM_SPAN < a /\ a < EVTTIM_SPAN /\ x.current_evttim \in EVTTIM
        /\ y.current_evttim = (x.current_evttim + a) % EVTTIM_SPAN
    BY <1>1, <1>2, <1>6, <1>8, <2>1
  <2> HIDE DEF w
  <2>3. EVTTIM_ADVANCE(y, w) = EVTTIM_ADVANCE(x, w) - a BY ONLY <2>1, <2>2, Passes
  <2> QED BY <2>1, <2>3 DEF w
<1>10. Registered(y) = R BY <1>6, SameRegistered
<1>11. Sound(y)
  <2>1. Heap(Core(y), R, Key(y)) BY <1>1, <1>2, <1>6, <1>9, <1>10, SameOrder
  <2>2. y.cnt = (y.current_hrtcnt + y.since) % TCYC_HRTCNT
    <3>1. y.cnt = x.cnt /\ y.current_hrtcnt = x.current_hrtcnt /\ y.since = x.since
      BY <1>6 DEF SameTimer
    <3> QED BY <3>1 DEF Sound
  <2>3. behind(y) <= 2 * A
    <3> HIDE DEF B, A, S
    <3>1. a > 0 => behind(y) = IF B < a THEN 0 ELSE B - a BY <1>6
    <3>2. a <= 0 => behind(y) = B - a /\ (a = 0 \/ B < A) BY <1>6
    <3> QED BY <1>1, <1>2, <3>1, <3>2
  <2>4. \A e \in R : Key(y)[e] - behind(y) < S - 2 * A BY <1>8, <1>9
  <2> QED BY <1>6, <1>10, <2>1, <2>2, <2>3, <2>4 DEF Sound
<1>12. Late(y, d)
  <2>1. \A e \in R : y.since + MaxDelay <= Key(y)[e] + d BY <1>2, <1>6, <1>8, <1>9
  <2> QED BY <1>2, <1>6, <1>10, <2>1, Spans DEF Late
<1>13. /\ y.current_evttim = (x.current_evttim + a) % EVTTIM_SPAN
       /\ a > 0 => systim(y) = (systim(x) + gains(x, a)) % SYSTIM_SPAN
       /\ a <= 0 => systim(y) = systim(x)
       /\ a > 0 => behind(y) = IF behind(x) < a THEN 0 ELSE behind(x) - a
  BY <1>2, <1>6
<1>14. a > 0 => Clocks(x, y, a) BY <1>13 DEF Clocks
<1> QED BY <1>6, <1>9, <1>11, <1>12, <1>13, <1>14 DEF y

\* what adj_tim comes to, for the refinement and for the system time
Adjusts(a) ==
    /\ t'.since = 0 /\ Registered(t') = Registered(t)
    /\ \A e \in Registered(t) : Key(t')[e] = Key(t)[e] - t.since - a
    /\ \E x : /\ Sound(x) /\ Clocks(t, x, t.since)
              /\ t'.current_evttim = (x.current_evttim + a) % EVTTIM_SPAN
              /\ a > 0 => Clocks(x, t', a)
              /\ a <= 0 => systim(t') = systim(x)

LEMMA AdjTims ==
    ASSUME TimesFit, TimeInv, NEW a \in AdjTim, adj_tim(a)
    PROVE  TimeInv' /\ (Adjusts(a) \/ (Moves(t, t', t.since, {}) /\ t'.since = 0))
<1> DEFINE x == update_current_evttim(t)
           y == Adjusted(x, a)
           R == Registered(t)
<1>1. /\ Sound(t) /\ Late(t, delay) /\ delay \in 0 .. MaxDelay /\ t.since \in Nat
      /\ t \in TimeState /\ \A e \in Event : t.sta[e] <=> e \in R
      /\ a \in -TMAX_ADJTIM .. TMAX_ADJTIM
  BY NotifyAssumption DEF TimeInv, Flags, Sound, TimeState
<1>2. Sound(x) /\ Late(x, delay) /\ Updated(t, x) BY <1>1, Update
<1>3. t' = (IF check_adjtim(x, a) THEN x ELSE set_hrt_event(y))
      /\ UNCHANGED <<signal, callflag, delay>>
  BY DEF adj_tim, Adjusted, CHECK_UNL
<1> HIDE DEF x
<1>4. /\ Registered(x) = R /\ x.sta = t.sta /\ x.since = 0
      /\ x.in_signal_time = t.in_signal_time /\ x.intreq = t.intreq
      /\ Clocks(t, x, t.since) /\ \A e \in R : Key(x)[e] = Key(t)[e] - t.since
  BY <1>2, SameRegistered DEF Updated, SameFlags, SameTimer
<1>5. CASE check_adjtim(x, a)
  <2>1. t' = x BY <1>3, <1>5
  <2>2. Armed(t) => Armed(x) BY <1>1, <1>2, UpdateArmed
  <2>3. TimeInv' BY <1>1, <1>2, <1>3, <1>4, <2>1, <2>2, Goes
  <2>4. Moves(t, x, t.since, {}) BY <1>1, <1>2, UpdateMoves
  <2> QED BY <1>4, <2>1, <2>3, <2>4
<1>6. CASE ~check_adjtim(x, a)
  <2>1. t' = set_hrt_event(y) BY <1>3, <1>6
  <2>2. /\ Sound(y) /\ Late(y, delay) /\ SameHeap(x, y) /\ SameTimer(x, y)
        /\ SameFlags(x, y) /\ y.since = 0
        /\ \A e \in Registered(x) : Key(y)[e] = Key(x)[e] - a
        /\ y.current_evttim = (x.current_evttim + a) % EVTTIM_SPAN
        /\ a > 0 => Clocks(x, y, a)
        /\ a <= 0 => systim(y) = systim(x)
    BY <1>1, <1>2, <1>4, <1>6, Adjusting
  <2> HIDE DEF y
  <2> DEFINE z == set_hrt_event(y)
  <2>3. y.since <= MaxDelay BY <2>2, Spans
  <2>4. /\ Sound(z) /\ SameClocks(y, z) /\ SameFlags(y, z)
        /\ Registered(z) = Registered(y) /\ Key(z) = Key(y)
        /\ (y.intreq => z.intreq) /\ Late(z, delay) /\ Armed(z)
    BY <2>2, <2>3, Setting
  <2>5. t' = z BY <2>1
  <2> HIDE DEF z
  <2>6. Registered(y) = R BY <1>4, <2>2, SameRegistered
  <2>7. /\ t'.since = 0 /\ Registered(t') = R /\ t'.sta = t.sta
        /\ t'.in_signal_time = t.in_signal_time /\ (t.intreq => t'.intreq)
        /\ Key(t') = Key(y) /\ t'.current_evttim = y.current_evttim
        /\ Sound(t') /\ Late(t', delay) /\ Armed(t')
    BY <1>4, <2>2, <2>4, <2>5, <2>6 DEF SameFlags, SameTimer, SameClocks
  <2>8. TimeInv' BY <1>1, <1>3, <2>7, Goes
  <2>9. systim(t') = systim(y) /\ behind(t') = behind(y)
    <3>1. y \in TimeState BY <2>2 DEF Sound
    <3>2. systim(z) = systim(y) /\ behind(z) = behind(y) BY <2>4, <3>1, ClocksSame
    <3> QED BY <2>5, <3>2
  <2>10. \A e \in R : Key(t')[e] = Key(t)[e] - t.since - a BY <1>4, <2>2, <2>7
  <2>11. a > 0 => Clocks(x, t', a) BY <2>2, <2>7, <2>9 DEF Clocks
  <2>12. t'.current_evttim = (x.current_evttim + a) % EVTTIM_SPAN BY <2>2, <2>7
  <2>13. a <= 0 => systim(t') = systim(x) BY <2>2, <2>9
  <2>14. Adjusts(a) BY <1>2, <1>4, <2>7, <2>10, <2>11, <2>12, <2>13 DEF Adjusts
  <2> QED BY <2>8, <2>14
<1> QED BY <1>5, <1>6

LEMMA SetTims ==
    ASSUME TimeInv, NEW s \in SetTim, set_tim(s)
    PROVE  /\ TimeInv' /\ systim(t') = s /\ t'.since = 0 /\ Registered(t') = Registered(t)
           /\ \A e \in Registered(t) : Key(t')[e] = Key(t)[e] - t.since
<1> DEFINE x == update_current_evttim(t)
           m == x.monotonic_evttim
           o == (s - m) % SYSTIM_SPAN
           y == [x EXCEPT !.systim_offset = o]
           R == Registered(t)
           SS == SYSTIM_SPAN
<1>1. /\ Sound(t) /\ Late(t, delay) /\ delay \in 0 .. MaxDelay /\ t.since \in Nat
      /\ t \in TimeState /\ \A e \in Event : t.sta[e] <=> e \in R
      /\ s \in Nat /\ s < SS
  BY NotifyAssumption, Spans DEF TimeInv, Flags, Sound, TimeState
<1>2. Sound(x) /\ Late(x, delay) /\ Updated(t, x) BY <1>1, Update
<1>3. t' = y /\ UNCHANGED <<signal, callflag, delay>>
  BY DEF set_tim, CHECK_TSKCTX_UNL, CHECK_UNL
<1> HIDE DEF x
<1>4. /\ Registered(x) = R /\ x.sta = t.sta /\ x.since = 0
      /\ x.in_signal_time = t.in_signal_time /\ x.intreq = t.intreq
      /\ \A e \in R : Key(x)[e] = Key(t)[e] - t.since
      /\ Armed(t) => Armed(x)
  BY <1>1, <1>2, SameRegistered, UpdateArmed DEF Updated, SameFlags, SameTimer
<1>5. x \in TimeState /\ m \in Nat /\ m < SS /\ SS \in Nat /\ SS > 0
  BY <1>2, Spans DEF Sound, TimeState, EVTTIM
<1> HIDE DEF m
<1>6. o = IF s < m THEN s - m + SS ELSE s - m
  <2> DEFINE i == s - m
  <2>1. i \in Int /\ -SS <= i /\ i < 2 * SS /\ i < SS /\ SS \in Int BY <1>1, <1>5
  <2> HIDE DEF i
  <2>2. i % SS = IF i < 0 THEN i + SS ELSE i BY ONLY <2>1, NearSystim
  <2> QED BY <1>1, <1>5, <2>2 DEF i
<1>7. o \in 0 .. SS - 1 BY <1>1, <1>5, <1>6
<1>8. /\ y \in TimeState /\ SameHeap(x, y) /\ SameTimer(x, y) /\ SameFlags(x, y)
      /\ y.current_evttim = x.current_evttim /\ y.current_hrtcnt = x.current_hrtcnt
      /\ y.monotonic_evttim = m /\ y.systim_offset = o /\ y.since = x.since
  <2> HIDE DEF o
  <2> QED BY <1>5, <1>7 DEF TimeState, SameHeap, SameTimer, SameFlags, m
<1> HIDE DEF y
<1>9. systim(y) = s
  <2> DEFINE i == o + m
  <2>1. systim(y) = i % SS BY <1>8 DEF systim
  <2>2. i \in Int /\ 0 <= i /\ -SS <= i /\ i < 2 * SS /\ SS \in Int BY <1>1, <1>5, <1>6
  <2>3. i = IF s < m THEN s + SS ELSE s BY <1>1, <1>5, <1>6
  <2> HIDE DEF i
  <2>4. i % SS = IF i < SS THEN i ELSE i - SS BY ONLY <2>2, NearSystim
  <2> QED BY <1>1, <1>5, <2>1, <2>3, <2>4
<1>10. behind(y) = behind(x) BY <1>8 DEF behind, m
<1>11. Registered(y) = R /\ Key(y) = Key(x)
  BY <1>4, <1>8, SameRegistered, SameKeys DEF SameHeap
<1>12. \A e \in R : Key(y)[e] = Key(x)[e] - 0 BY <1>4, <1>5, <1>11, TimeKeys
<1>13. Heap(Core(y), Registered(y), Key(y))
  BY <1>2, <1>4, <1>5, <1>8, <1>12, SameOrder DEF Sound
<1>14. Sound(y) BY <1>2, <1>4, <1>8, <1>10, <1>11, <1>13 DEF Sound, SameTimer
<1>15. Late(y, delay) BY <1>2, <1>4, <1>8, <1>11 DEF Late
<1>16. Armed(x) => Armed(y) BY <1>4, <1>8, <1>11 DEF Armed, SameTimer, ahead
<1>17. TimeInv'
  <2>1. /\ y.sta = t.sta /\ y.in_signal_time = t.in_signal_time /\ y.intreq = t.intreq
        /\ y.since = 0
    BY <1>4, <1>8 DEF SameFlags, SameTimer
  <2> QED BY <1>1, <1>3, <1>4, <1>11, <1>14, <1>15, <1>16, <2>1, Goes
<1> QED BY <1>3, <1>4, <1>8, <1>9, <1>11, <1>17

-----------------------------------------------------------------------------
(* initialize_cyclic has started the first cyclic notifications of the     *)
(* order.                                                                  *)
Begun(x, order) ==
    /\ Sound(x) /\ x.p_last <= Cardinality(TA_STA)
    /\ Registered(x) = {order[j] : j \in 1 .. x.p_last}
    /\ x.current_evttim = 0 /\ x.monotonic_evttim = 0 /\ x.since = 0
    /\ x.current_hrtcnt = 0 /\ x.cnt = 0 /\ ~x.in_signal_time
    /\ \A e \in Event : x.sta[e] <=> e \in Registered(x)
    /\ \A e \in Registered(x) : Key(x)[e] = BOUNDARY_MARGIN + cycphs[e]

LEMMA Orders ==
    ASSUME NEW order \in [1 .. Cardinality(TA_STA) -> TA_STA],
           \A e \in TA_STA : \E i \in DOMAIN order : order[i] = e
    PROVE  /\ Cardinality(TA_STA) \in Nat /\ TA_STA \subseteq Event /\ TA_STA \subseteq Cyclic
           /\ \A i, j \in 1 .. Cardinality(TA_STA) : order[i] = order[j] => i = j
<1> DEFINE n == Cardinality(TA_STA)
<1>1. TA_STA \subseteq Cyclic /\ TA_STA \subseteq Event BY NotifyAssumption
<1>2. IsFiniteSet(TA_STA) BY <1>1, HeapAssumption, FS_Subset
<1>3. n \in Nat BY <1>2, FS_CardinalityType
<1>4. IsFiniteSet(1 .. n) /\ Cardinality(1 .. n) = n BY <1>3, FS_Interval
<1>5. order \in Surjection(1 .. n, TA_STA) BY DEF Surjection
<1>6. order \in Injection(1 .. n, TA_STA) BY <1>4, <1>5, FS_Surjection
<1>7. \A i, j \in 1 .. n : order[i] = order[j] => i = j BY <1>6 DEF Injection, IsInjective
<1> QED BY <1>1, <1>3, <1>7

LEMMA TmevtBegun ==
    ASSUME NEW order
    PROVE  initialize_tmevt \in TimeState /\ Begun(initialize_tmevt, order)
           /\ initialize_tmevt.p_last = 0
<1> DEFINE x == initialize_tmevt
<1>1. 0 \in EVTTIM /\ 0 \in HRTCNT /\ TCYC_HRTCNT - 1 \in HRTCNT /\ 0 \in 0 .. SYSTIM_SPAN - 1
  BY Spans DEF EVTTIM, HRTCNT
<1>2. x \in TimeState BY <1>1 DEF initialize_tmevt, TimeState
<1>3. /\ x.p_last = 0 /\ x.p_tmevtn = [e \in Event |-> 0] /\ x.current_evttim = 0
      /\ x.monotonic_evttim = 0 /\ x.since = 0 /\ x.current_hrtcnt = 0 /\ x.cnt = 0
      /\ x.in_signal_time = FALSE /\ x.sta = [e \in Event |-> FALSE]
  BY DEF initialize_tmevt
<1> HIDE DEF x
<1>4. Registered(x) = {} BY <1>3 DEF Registered
<1>5. behind(x) = 0 BY <1>3, Spans DEF behind
<1>6. x.cnt = (x.current_hrtcnt + x.since) % TCYC_HRTCNT
  <2>1. TCYC_HRTCNT \in Nat \ {0} BY Spans
  <2>2. 0 % TCYC_HRTCNT = 0 /\ 0 + 0 = 0 BY <2>1
  <2> QED BY <1>3, <2>2
<1>7. Core(x).p_last = 0 BY <1>3 DEF Core
<1>8. Heap(Core(x), Registered(x), Key(x))
  <2>1. Core(x) \in HeapState BY <1>2, TimeKeys
  <2> QED BY <1>4, <1>7, <2>1 DEF Heap
<1>9. Sound(x) BY <1>2, <1>4, <1>5, <1>6, <1>8, Spans DEF Sound
<1>10. Cardinality(TA_STA) >= 0
  <2>1. IsFiniteSet(TA_STA) BY NotifyAssumption, HeapAssumption, FS_Subset
  <2> QED BY <2>1, FS_CardinalityType
<1>11. {order[j] : j \in 1 .. 0} = {} OBVIOUS
<1>12. Begun(x, order) BY <1>3, <1>4, <1>9, <1>10, <1>11 DEF Begun
<1> QED BY <1>2, <1>3, <1>12 DEF x

LEMMA Begins ==
    ASSUME TimesFit, NEW order \in [1 .. Cardinality(TA_STA) -> TA_STA],
           \A e \in TA_STA : \E i \in DOMAIN order : order[i] = e,
           NEW x, Begun(x, order), x.p_last < Cardinality(TA_STA)
    PROVE  LET e == order[x.p_last + 1]
               y == tmevtb_register([x EXCEPT !.evttim[e] = cycphs[e], !.sta[e] = TRUE], e)
           IN  y \in TimeState /\ Begun(y, order) /\ y.p_last = x.p_last + 1
<1> DEFINE n  == Cardinality(TA_STA)
           i  == x.p_last + 1
           e  == order[i]
           c  == cycphs[e]
           x1 == [x EXCEPT !.sta[e] = TRUE]
           y  == tmevtb_register([x EXCEPT !.evttim[e] = c, !.sta[e] = TRUE], e)
           R  == Registered(x)
<1>1. /\ n \in Nat /\ TA_STA \subseteq Event /\ TA_STA \subseteq Cyclic
      /\ \A j, k \in 1 .. n : order[j] = order[k] => j = k
  BY Orders
<1>2. /\ Sound(x) /\ x \in TimeState /\ R = {order[j] : j \in 1 .. x.p_last}
      /\ \A o \in Event : x.sta[o] <=> o \in R
      /\ \A o \in R : Key(x)[o] = BOUNDARY_MARGIN + cycphs[o]
      /\ x.current_evttim = 0 /\ x.monotonic_evttim = 0
      /\ x.since = 0 /\ x.current_hrtcnt = 0 /\ x.cnt = 0 /\ ~x.in_signal_time
  BY DEF Begun, Sound
<1>3. x.p_last \in Nat /\ x.p_last < n BY <1>2, Nodes DEF TimeState
<1>4. i \in 1 .. n /\ e \in TA_STA /\ e \in Event /\ e \in Cyclic
  <2>1. i \in 1 .. n BY <1>1, <1>3
  <2> HIDE DEF i
  <2> QED BY <1>1, <2>1
<1>5. e \notin R
  <2>1. \A j \in 1 .. x.p_last : j \in 1 .. n /\ j # i BY <1>1, <1>3
  <2> HIDE DEF i
  <2> QED BY <1>1, <1>2, <1>4, <2>1
<1>6. c \in Nat /\ BOUNDARY_MARGIN + c < EVTTIM_SPAN - 2 * TMAX_ADJTIM
  <2>1. c \in Nat BY <1>4, NotifyAssumption
  <2>2. TSTEP_HRTCNT + c + 2 * TMAX_ADJTIM + BOUNDARY_MARGIN < EVTTIM_SPAN
    BY <1>4 DEF TimesFit
  <2> HIDE DEF c
  <2> QED BY <2>1, <2>2, Spans
<1> HIDE DEF i, e, c
<1>7. c \in EVTTIM BY <1>6, Spans DEF EVTTIM
<1>8. /\ Sound(x1) /\ SameHeap(x, x1) /\ SameClocks(x, x1) /\ SameTimer(x, x1)
      /\ Registered(x1) = R /\ Key(x1) = Key(x) /\ x1.in_signal_time = x.in_signal_time
      /\ \A o \in Event : x1.sta[o] = IF o = e THEN TRUE ELSE x.sta[o]
  BY <1>2, <1>4, Flagged
<1>9. [x EXCEPT !.evttim[e] = c, !.sta[e] = TRUE] = [x1 EXCEPT !.evttim[e] = c]
  BY <1>2, <1>4 DEF TimeState
<1> HIDE DEF x1
<1>10. y = tmevtb_insert([x1 EXCEPT !.evttim[e] = c], e) BY <1>9 DEF tmevtb_register
<1>11. behind(x1) = 0 /\ x1.current_evttim = 0 BY <1>2, <1>8, Spans DEF SameClocks, behind
<1>12. EVTTIM_ADVANCE(x1, c) = BOUNDARY_MARGIN + c
  <2>1. x1.current_evttim \in EVTTIM BY <1>11, Spans DEF EVTTIM
  <2>2. 0 <= BOUNDARY_MARGIN + c /\ BOUNDARY_MARGIN + c < EVTTIM_SPAN /\ c \in Int
    BY <1>6, Spans
  <2>3. EVTTIM_ADVANCE(x1, (x1.current_evttim + c) % EVTTIM_SPAN) = BOUNDARY_MARGIN + c
    BY <2>1, <2>2, FromNow
  <2>4. (0 + c) % EVTTIM_SPAN = c BY <1>6, <1>7, Spans DEF EVTTIM
  <2> QED BY <1>11, <2>3, <2>4
<1>13. /\ Sound(y) /\ SameClocks(x1, y) /\ SameTimer(x1, y) /\ SameFlags(x1, y)
       /\ Registered(y) = R \cup {e} /\ Key(y)[e] = BOUNDARY_MARGIN + c
       /\ \A o \in Event \ {e} : Key(y)[o] = Key(x)[o]
  <2>1. EVTTIM_ADVANCE(x1, c) - behind(x1) < EVTTIM_SPAN - 2 * TMAX_ADJTIM
    BY <1>6, <1>11, <1>12, Spans
  <2>2. e \in Event \ Registered(x1) BY <1>4, <1>5, <1>8
  <2> DEFINE z == tmevtb_insert([x1 EXCEPT !.evttim[e] = c], e)
  <2>3. /\ Sound(z) /\ SameClocks(x1, z) /\ SameTimer(x1, z) /\ SameFlags(x1, z)
        /\ Registered(z) = Registered(x1) \cup {e}
        /\ Key(z)[e] = EVTTIM_ADVANCE(x1, c)
        /\ \A o \in Event \ {e} : Key(z)[o] = Key(x1)[o]
    BY <1>7, <1>8, <2>1, <2>2, Registering
  <2>4. y = z BY <1>10
  <2> HIDE DEF y, z
  <2> QED BY <1>8, <1>12, <2>3, <2>4
<1> HIDE DEF y
<1>14. y \in TimeState BY <1>13 DEF Sound
<1>15. y.p_last = x.p_last + 1
  <2>1. \A z : Sound(z) => IsFiniteSet(Registered(z)) /\ Cardinality(Registered(z)) = z.p_last
    <3> TAKE z
    <3> HAVE Sound(z)
    <3>1. Core(z).p_last = z.p_last BY DEF Core
    <3> QED BY <3>1, HeapCard DEF Sound
  <2>2. IsFiniteSet(R) /\ Cardinality(R) = x.p_last /\ e \notin R BY <1>2, <1>5, <2>1
  <2>3. Cardinality(Registered(y)) = y.p_last BY <1>13, <2>1
  <2>4. Registered(y) = R \cup {e} BY <1>13
  <2> HIDE DEF R
  <2>5. Cardinality(R \cup {e}) = Cardinality(R) + 1 BY <2>2, FS_AddElement
  <2> QED BY <2>2, <2>3, <2>4, <2>5
<1>16. Registered(y) = {order[j] : j \in 1 .. y.p_last}
  <2>1. 1 .. x.p_last + 1 = (1 .. x.p_last) \cup {i} BY <1>3 DEF i
  <2>2. e = order[i] /\ y.p_last = x.p_last + 1 BY <1>15 DEF e
  <2>3. Registered(y) = {order[j] : j \in 1 .. x.p_last} \cup {e} BY <1>2, <1>13
  <2> QED BY ONLY <2>1, <2>2, <2>3
<1>17. \A o \in Event : y.sta[o] <=> o \in Registered(y)
  BY <1>2, <1>8, <1>13 DEF SameFlags
<1>18. \A o \in Registered(y) : Key(y)[o] = BOUNDARY_MARGIN + cycphs[o]
  <2>1. R \subseteq Event BY DEF Registered
  <2>2. c = cycphs[e] BY DEF c
  <2> QED BY <1>2, <1>5, <1>13, <2>1, <2>2
<1>19. y.p_last <= n BY <1>1, <1>3, <1>15
<1>20. /\ y.current_evttim = 0 /\ y.monotonic_evttim = 0
       /\ y.since = 0 /\ y.current_hrtcnt = 0 /\ y.cnt = 0 /\ ~y.in_signal_time
  BY <1>2, <1>8, <1>13 DEF SameClocks, SameTimer, SameFlags
<1>21. Begun(y, order) BY <1>13, <1>16, <1>17, <1>18, <1>19, <1>20 DEF Begun
<1> QED BY <1>14, <1>15, <1>21 DEF y, e, i, c

LEMMA CyclicBegun ==
    ASSUME TimesFit, NEW order \in [1 .. Cardinality(TA_STA) -> TA_STA],
           \A e \in TA_STA : \E i \in DOMAIN order : order[i] = e
    PROVE  LET x == initialize_cyclic(initialize_tmevt, order)
           IN  Begun(x, order) /\ x.p_last = Cardinality(TA_STA)
<1> DEFINE n  == Cardinality(TA_STA)
           t0 == initialize_tmevt
           step(x, e) == tmevtb_register([x EXCEPT !.evttim[e] = cycphs[e], !.sta[e] = TRUE], e)
           S  == {x \in TimeState : Begun(x, order)}
           f  == [x \in S |-> IF x.p_last < n THEN step(x, order[x.p_last + 1]) ELSE x]
           after[i \in 0 .. Cardinality(TA_STA)] ==
             IF i = 0 THEN t0
             ELSE LET e == order[i]
                  IN  tmevtb_register([after[i - 1] EXCEPT !.evttim[e] = cycphs[e],
                                                           !.sta[e] = TRUE], e)
           body(g) == [i \in 0 .. Cardinality(TA_STA) |->
             IF i = 0 THEN t0
             ELSE LET e == order[i]
                  IN  tmevtb_register([g[i - 1] EXCEPT !.evttim[e] = cycphs[e],
                                                       !.sta[e] = TRUE], e)]
<1>1. after = CHOOSE g : g = body(g) BY Zenon
<1>2. initialize_cyclic(initialize_tmevt, order) = after[Cardinality(TA_STA)]
  BY Zenon DEF initialize_cyclic
<1> HIDE DEF after
<1>3. n \in Nat BY Orders
<1>4. t0 \in S /\ t0.p_last = 0 BY TmevtBegun
<1> HIDE DEF t0
<1>5. ASSUME NEW x \in S, x.p_last < n
      PROVE  LET y == step(x, order[x.p_last + 1])
             IN  y \in S /\ y.p_last = x.p_last + 1
  BY <1>5, Begins
<1> HIDE DEF S, step, n
<1>6. f \in [S -> S] BY <1>5
<1>7. PICK g : Iterates(g, n, S, t0, f) BY <1>3, <1>4, <1>6, Iterate
<1>8. /\ g \in [0 .. n -> S] /\ g[0] = t0 /\ \A i \in 0 .. n - 1 : g[i + 1] = f[g[i]]
  BY <1>7 DEF Iterates
<1> DEFINE P == {i \in 0 .. n : g[i].p_last = i}
<1>9. ASSUME NEW i \in 0 .. n - 1, i \in P
      PROVE  i + 1 \in P /\ g[i + 1] = step(g[i], order[i + 1])
  <2>1. /\ i \in 0 .. n /\ i + 1 \in 0 .. n /\ g[i] \in S /\ g[i].p_last = i /\ i < n
    BY <1>3, <1>8, <1>9
  <2>2. g[i + 1] = step(g[i], order[i + 1]) BY <2>1, <1>8
  <2>3. g[i + 1].p_last = i + 1 BY <1>5, <2>1, <2>2
  <2> QED BY <2>1, <2>2, <2>3
<1>10. \A i \in 0 .. n : i \in P
  <2>1. 0 \in P BY <1>3, <1>4, <1>8
  <2> HIDE DEF P
  <2> QED BY <1>3, <1>9, <2>1, Induct
<1> HIDE DEF P
<1>11. \A i \in 1 .. n : g[i] = step(g[i - 1], order[i])
  <2> TAKE i \in 1 .. n
  <2>1. i - 1 \in 0 .. n - 1 /\ i - 1 \in 0 .. n /\ (i - 1) + 1 = i BY <1>3
  <2>2. g[(i - 1) + 1] = step(g[i - 1], order[(i - 1) + 1]) BY <1>9, <1>10, <2>1
  <2> QED BY <2>1, <2>2
<1>12. \A k : body(k) = [i \in 0 .. n |-> IF i = 0 THEN t0 ELSE step(k[i - 1], order[i])]
  BY Zenon DEF step, n
<1> HIDE DEF body
<1>13. g = body(g)
  <2>1. \A i \in 0 .. n : i # 0 => i \in 1 .. n BY <1>3
  <2>2. \A i \in 0 .. n : g[i] = IF i = 0 THEN t0 ELSE step(g[i - 1], order[i])
    BY <1>8, <1>11, <2>1
  <2>3. g = [i \in 0 .. n |-> g[i]] BY <1>8
  <2>4. body(g) = [i \in 0 .. n |-> IF i = 0 THEN t0 ELSE step(g[i - 1], order[i])]
    BY <1>12
  <2> QED BY <2>2, <2>3, <2>4
<1>14. after = body(after) BY <1>1, <1>13
<1>15. /\ after[0] = t0
       /\ \A i \in 1 .. n : after[i] = step(after[i - 1], order[i])
  <2>1. after = [i \in 0 .. n |-> IF i = 0 THEN t0 ELSE step(after[i - 1], order[i])]
    BY <1>12, <1>14
  <2>2. 0 \in 0 .. n /\ \A i \in 1 .. n : i \in 0 .. n /\ i # 0 BY <1>3
  <2> QED BY <2>1, <2>2
<1> DEFINE Q == {i \in 0 .. n : after[i] = g[i]}
<1>16. \A i \in 0 .. n : i \in Q
  <2>1. 0 \in Q BY <1>3, <1>8, <1>15
  <2>2. ASSUME NEW i \in 0 .. n - 1, i \in Q PROVE i + 1 \in Q
    <3>1. i + 1 \in 1 .. n /\ i + 1 \in 0 .. n /\ (i + 1) - 1 = i /\ after[i] = g[i]
      BY <1>3, <2>2
    <3>2. after[i + 1] = step(after[i], order[i + 1]) BY <1>15, <3>1
    <3>3. g[i + 1] = step(g[i], order[i + 1]) BY <1>11, <3>1
    <3> QED BY <3>1, <3>2, <3>3
  <2> HIDE DEF Q
  <2> QED BY <1>3, <2>1, <2>2, Induct
<1>17. n \in 0 .. n BY <1>3
<1>18. after[n] \in S /\ after[n].p_last = n BY <1>8, <1>10, <1>16, <1>17 DEF P
<1> QED BY <1>2, <1>18 DEF S, n

LEMMA TimeInvInit ==
    ASSUME TimesFit, TimeInit
    PROVE  /\ TimeInv /\ t.since = 0
           /\ \A e \in Registered(t) : e \in Cyclic /\ Key(t)[e] = BOUNDARY_MARGIN + cycphs[e]
<1>1. PICK order \in [1 .. Cardinality(TA_STA) -> TA_STA], cnt \in HRTCNT :
        /\ \A e \in TA_STA : \E i \in DOMAIN order : order[i] = e
        /\ t = set_hrt_event([initialize_cyclic(initialize_tmevt, order) EXCEPT
                                  !.cnt = cnt, !.current_hrtcnt = cnt])
  BY DEF TimeInit
<1> DEFINE x == initialize_cyclic(initialize_tmevt, order)
           y == [x EXCEPT !.cnt = cnt, !.current_hrtcnt = cnt]
           z == set_hrt_event(y)
           R == Registered(x)
<1>2. Begun(x, order) BY <1>1, CyclicBegun
<1>3. t = z BY <1>1
<1> HIDE DEF x
<1>4. /\ Sound(x) /\ x \in TimeState /\ R = {order[j] : j \in 1 .. x.p_last}
      /\ x.p_last <= Cardinality(TA_STA) /\ x.since = 0 /\ ~x.in_signal_time
      /\ \A e \in Event : x.sta[e] <=> e \in R
      /\ \A e \in R : Key(x)[e] = BOUNDARY_MARGIN + cycphs[e]
  BY <1>2 DEF Begun, Sound
<1>5. /\ y \in TimeState /\ SameHeap(x, y) /\ SameFlags(x, y)
      /\ y.current_evttim = x.current_evttim /\ y.monotonic_evttim = x.monotonic_evttim
      /\ y.since = 0 /\ y.cnt = cnt /\ y.current_hrtcnt = cnt
  BY <1>1, <1>4 DEF TimeState, SameHeap, SameFlags
<1> HIDE DEF y
<1>6. Registered(y) = R /\ Key(y) = Key(x) BY <1>5, SameRegistered, SameKeys DEF SameHeap
<1>7. R \subseteq Cyclic
  <2>1. Cardinality(TA_STA) \in Nat /\ TA_STA \subseteq Cyclic BY <1>1, Orders
  <2>2. x.p_last \in Nat BY <1>4, Nodes DEF TimeState
  <2>3. \A j \in 1 .. x.p_last : j \in 1 .. Cardinality(TA_STA) BY <1>4, <2>1, <2>2
  <2> QED BY <1>1, <1>4, <2>1, <2>3
<1>8. \A e \in R : cycphs[e] \in Nat BY <1>7, NotifyAssumption
<1>9. Sound(y)
  <2>1. \A e \in R : Key(y)[e] = Key(x)[e] - 0 BY <1>4, <1>6, TimeKeys
  <2>2. Heap(Core(x), Registered(x), Key(x)) BY <1>4 DEF Sound
  <2>3. behind(y) = behind(x) BY <1>5 DEF behind
  <2>5. Heap(Core(y), Registered(y), Key(y))
    <3>1. \A e \in Registered(x) : Key(y)[e] = Key(x)[e] - 0 BY <2>1
    <3>2. x \in TimeState /\ y \in TimeState /\ SameHeap(x, y) /\ 0 \in Int BY <1>4, <1>5
    <3> QED BY ONLY <2>2, <3>1, <3>2, SameOrder
  <2>4. cnt = (cnt + 0) % TCYC_HRTCNT
    <3>1. cnt \in Nat /\ TCYC_HRTCNT \in Nat \ {0} /\ cnt < TCYC_HRTCNT
      BY <1>1, Spans DEF HRTCNT
    <3> QED BY <3>1
  <2> QED BY <1>4, <1>5, <1>6, <2>3, <2>4, <2>5 DEF Sound
<1>10. y.since <= MaxDelay BY <1>5, Spans
<1>11. Late(y, 0)
  <2>1. \A e \in R : y.since + MaxDelay <= Key(y)[e] + 0
    <3> TAKE e \in R
    <3>1. cycphs[e] \in Nat /\ Key(y)[e] = BOUNDARY_MARGIN + cycphs[e] BY <1>4, <1>6, <1>8
    <3>2. MaxDelay <= BOUNDARY_MARGIN BY Spans DEF TimesFit
    <3> QED BY <1>5, <3>1, <3>2, Spans
  <2>2. y.since <= HRTCNT_BOUND + MaxDelay + 0 BY <1>5, Spans
  <2> QED BY <1>6, <2>1, <2>2 DEF Late
<1>12. /\ Sound(z) /\ SameClocks(y, z) /\ SameFlags(y, z)
       /\ Registered(z) = R /\ Key(z) = Key(x) /\ Late(z, 0) /\ Armed(z)
  BY <1>6, <1>9, <1>10, <1>11, Setting
<1> HIDE DEF z
<1>13. z.sta = x.sta /\ z.in_signal_time = x.in_signal_time /\ z.since = 0
  BY <1>5, <1>12 DEF SameFlags, SameClocks
<1>14. signal = "off" /\ callflag = FALSE /\ delay = 0 /\ 0 \in 0 .. MaxDelay
  BY Spans DEF TimeInit
<1>15. Flags
  <2>1. t.in_signal_time = FALSE
    <3>1. z.in_signal_time \in BOOLEAN BY <1>12 DEF Sound, TimeState
    <3> QED BY <1>3, <1>4, <1>13, <3>1
  <2> QED BY <1>3, <1>4, <1>12, <1>13, <1>14, <2>1 DEF Flags
<1>16. TimeInv BY <1>3, <1>12, <1>14, <1>15 DEF TimeInv
<1>17. Registered(t) = R /\ Key(t) = Key(x) /\ t.since = 0 BY <1>3, <1>12, <1>13
<1> HIDE DEF R
<1> QED BY <1>4, <1>7, <1>16, <1>17

-----------------------------------------------------------------------------
(* What a step of the system comes to.                                     *)
Asked == RelTim \cup {cycphs[e] : e \in Cyclic}

Done ==
    \/ /\ t'.since = t.since + 1 /\ Registered(t') = Registered(t)
       /\ Key(t') = Key(t) /\ Clocks(t, t', 0)
    \/ \E s : Moves(t, t', s, {})
    \/ \E e \in Event : Occurs(e) \/ Stops(e) \/ \E d \in Asked : Restarts(e, TSTEP_HRTCNT + d)
    \/ \E a \in AdjTim : Adjusts(a)
    \/ \E s \in SetTim :
         /\ set_tim(s) /\ systim(t') = s /\ t'.since = 0 /\ Registered(t') = Registered(t)
         /\ \A e \in Registered(t) : Key(t')[e] = Key(t)[e] - t.since

LEMMA TimeInvNext ==
    ASSUME TimesFit, TimeInv, [TimeNext]_time_vars
    PROVE  TimeInv' /\ Done
<1>1. \A d \in Asked : d \in Nat /\ TSTEP_HRTCNT + d + 2 * TMAX_ADJTIM + BOUNDARY_MARGIN
                                      < EVTTIM_SPAN
  BY NotifyAssumption DEF TimesFit, Asked
<1>2. \A e \in Alarm \cup Cyclic : e \in Event BY NotifyAssumption
<1>3. t \in TimeState BY DEF TimeInv, Sound
<1>4. CASE tick BY <1>4, Ticks DEF Done
<1>5. CASE signal_time
  <2>1. CASE signal_start BY <2>1, SignalStarts DEF Done
  <2>2. CASE signal_call BY <2>2, SignalCalls DEF Done
  <2>3. CASE handler_returns
    <3>1. t' = t BY <2>3 DEF handler_returns
    <3>2. Moves(t, t, 0, {}) BY <1>3, Stand DEF SameClocks
    <3>3. TimeInv' BY <2>3, HandlerReturns
    <3> QED BY <3>1, <3>2, <3>3 DEF Done
  <2>4. CASE signal_again BY <2>4, SignalAgain DEF Done
  <2>5. CASE signal_end BY <2>5, SignalEnds DEF Done
  <2> QED BY <1>5, <2>1, <2>2, <2>3, <2>4, <2>5 DEF signal_time
<1>6. CASE get_tim
  <2>1. CHECK_TSKCTX_UNL /\ t' = update_current_evttim(t) BY <1>6 DEF get_tim
  <2> QED BY <2>1, Looking DEF Done
<1>7. ASSUME NEW e \in Alarm, stp_alm(e) PROVE TimeInv' /\ Done
  <2>1. CHECK_UNL /\ t.sta[e] /\ t' = stopped(tmevtb_dequeue(t, e), e) BY <1>7 DEF stp_alm
  <2> QED BY <1>2, <2>1, Stopping DEF Done
<1>8. ASSUME NEW e \in Alarm, NEW almtim \in RelTim, sta_alm(e, almtim) PROVE TimeInv' /\ Done
  <2>1. CHECK_UNL /\ t' = tmevtb_enqueue(IF t.sta[e] THEN tmevtb_dequeue(t, e)
                                         ELSE [t EXCEPT !.sta[e] = TRUE], e, almtim)
    BY <1>8 DEF sta_alm
  <2>2. almtim \in Asked BY DEF Asked
  <2>3. TimeInv' /\ Restarts(e, TSTEP_HRTCNT + almtim) BY <1>1, <1>2, <2>1, <2>2, Starting
  <2> QED BY <1>2, <2>2, <2>3 DEF Done
<1>9. ASSUME NEW e \in Cyclic, sta_cyc(e) PROVE TimeInv' /\ Done
  <2>1. CHECK_UNL /\ t' = tmevtb_enqueue(IF t.sta[e] THEN tmevtb_dequeue(t, e)
                                         ELSE [t EXCEPT !.sta[e] = TRUE], e, cycphs[e])
    BY <1>9 DEF sta_cyc, CHECK_TSKCTX_UNL
  <2>2. cycphs[e] \in Asked BY DEF Asked
  <2>3. TimeInv' /\ Restarts(e, TSTEP_HRTCNT + cycphs[e]) BY <1>1, <1>2, <2>1, <2>2, Starting
  <2> QED BY <1>2, <2>2, <2>3 DEF Done
<1>10. ASSUME NEW e \in Cyclic, stp_cyc(e) PROVE TimeInv' /\ Done
  <2>1. CHECK_UNL /\ t.sta[e] /\ t' = stopped(tmevtb_dequeue(t, e), e)
    BY <1>10 DEF stp_cyc, CHECK_TSKCTX_UNL
  <2> QED BY <1>2, <2>1, Stopping DEF Done
<1>11. ASSUME NEW a \in AdjTim, adj_tim(a) PROVE TimeInv' /\ Done
  BY <1>11, AdjTims DEF Done
<1>12. ASSUME NEW s \in SetTim, set_tim(s) PROVE TimeInv' /\ Done
  BY <1>12, SetTims DEF Done
<1>13. CASE UNCHANGED time_vars
  <2>1. t' = t /\ signal' = signal /\ callflag' = callflag /\ delay' = delay
    BY <1>13 DEF time_vars
  <2>2. Moves(t, t, 0, {}) BY <1>3, Stand DEF SameClocks
  <2>3. TimeInv' BY <2>1 DEF TimeInv, Flags, busy
  <2> QED BY <2>1, <2>2, <2>3 DEF Done
<1>14. CASE \E e \in Alarm : stp_alm(e) \/ \E almtim \in RelTim : sta_alm(e, almtim)
  BY <1>7, <1>8, <1>14, Zenon
<1>15. CASE \E e \in Cyclic : sta_cyc(e) \/ stp_cyc(e) BY <1>9, <1>10, <1>15, Zenon
<1>16. CASE \E a \in AdjTim : adj_tim(a) BY <1>11, <1>16, Zenon
<1>17. CASE \E s \in SetTim : set_tim(s) BY <1>12, <1>17, Zenon
<1> QED BY <1>4, <1>5, <1>6, <1>13, <1>14, <1>15, <1>16, <1>17, Zenon DEF TimeNext

-----------------------------------------------------------------------------
(* The time left for each event, as the service counts it.                 *)
left(x) == [e \in Event |-> IF e \in Registered(x) THEN Key(x)[e] - BOUNDARY_MARGIN ELSE NONE]

LEMMA Lefts ==
    ASSUME TimeInv
    PROVE  /\ [e \in Event |-> time_left(e)] = left(t)
           /\ \A e \in Registered(t) : left(t)[e] \in Int /\ left(t)[e] # NONE
           /\ t.since \in Nat /\ Registered(t) \subseteq Event
<1>1. t \in TimeState BY DEF TimeInv, Sound
<1>2. \A e \in Event : Key(t)[e] = EVTTIM_ADVANCE(t, t.evttim[e]) /\ Key(t)[e] \in Nat
  BY <1>1, TimeKeys
<1>3. \A e \in Event : time_left(e) = IF e \in Registered(t) THEN Key(t)[e] - BOUNDARY_MARGIN
                                      ELSE NONE
  BY <1>2 DEF time_left, Registered
<1>4. \A e \in Registered(t) : left(t)[e] \in Int /\ left(t)[e] # NONE
  BY <1>2, Spans, NotifyAssumption DEF left, Registered
<1> QED BY <1>1, <1>3, <1>4 DEF left, Registered, TimeState

LEMMA PrimedLefts ==
    ASSUME TimeInv'
    PROVE  /\ [e \in Event |-> time_left(e)]' = left(t')
           /\ \A e \in Registered(t') : left(t')[e] \in Int /\ left(t')[e] # NONE
<1>1. t' \in TimeState BY DEF TimeInv, Sound
<1>2. \A e \in Event : Key(t')[e] = EVTTIM_ADVANCE(t', t'.evttim[e]) /\ Key(t')[e] \in Nat
  BY <1>1, TimeKeys
<1>3. \A e \in Event : time_left(e)' = IF e \in Registered(t')
                                       THEN Key(t')[e] - BOUNDARY_MARGIN ELSE NONE
  BY <1>2 DEF time_left, Registered
<1>4. \A e \in Registered(t') : left(t')[e] \in Int /\ left(t')[e] # NONE
  BY <1>2, Spans, NotifyAssumption DEF left, Registered
<1> QED BY <1>3, <1>4 DEF left

(* Each step of the system is one of the service, or none.                 *)
LEMMA ServiceStep ==
    ASSUME TimesFit, TimeInv, [TimeNext]_time_vars
    PROVE  [Service!ServiceNext]_(Service!service_vars)
<1> DEFINE L  == left(t)
           L1 == left(t')
           R  == Registered(t)
           M  == BOUNDARY_MARGIN
<1>1. TimeInv' /\ Done BY TimeInvNext
<1>2. /\ [e \in Event |-> time_left(e)] = L /\ [e \in Event |-> time_left(e)]' = L1
      /\ \A e \in R : L[e] \in Int /\ L[e] # NONE
      /\ t.since \in Nat /\ R \subseteq Event
  BY <1>1, Lefts, PrimedLefts
<1>3. \A e \in R : Key(t)[e] \in Int
  <2>1. Key(t) \in [Event -> Nat] BY TimeKeys DEF TimeInv, Sound
  <2> QED BY <1>2, <2>1
<1>4. /\ \A e \in Event : L[e] = IF e \in R THEN Key(t)[e] - M ELSE NONE
      /\ \A e \in Event : L1[e] = IF e \in Registered(t') THEN Key(t')[e] - M ELSE NONE
      /\ L = [e \in Event |-> L[e]] /\ L1 = [e \in Event |-> L1[e]]
      /\ Registered(t') \subseteq Event
  BY DEF left, Registered
<1> DEFINE read(s) == [e \in Event |-> IF L[e] = NONE THEN NONE ELSE L[e] - t.since - s]
<1> HIDE DEF L, L1, R, M
<1>5. ASSUME NEW e \in Event, NEW s \in Int
      PROVE  read(s)[e] = IF e \in R THEN Key(t)[e] - t.since - s - M ELSE NONE
  <2>1. read(s)[e] = IF L[e] = NONE THEN NONE ELSE L[e] - t.since - s OBVIOUS
  <2> HIDE DEF read
  <2>2. CASE e \in R
    <3>1. L[e] # NONE /\ L[e] = Key(t)[e] - M BY <1>2, <1>4, <2>2
    <3>2. Key(t)[e] \in Int /\ M \in Int /\ t.since \in Int BY <1>2, <1>3, <2>2, Spans DEF M
    <3> QED BY <2>1, <2>2, <3>1, <3>2
  <2>3. CASE e \notin R BY <1>4, <2>1, <2>3
  <2> QED BY <2>2, <2>3
<1>6. ASSUME NEW s, NEW E, Moves(t, t', s, E)
      PROVE  \/ s = t.since /\ t'.since = 0 /\ \A e \in Event \ E : L1[e] = read(0)[e]
             \/ t'.since = t.since /\ \A e \in Event \ E : L1[e] = L[e]
  <2>1. /\ s = 0 \/ s = t.since
        /\ t'.since = t.since - s
        /\ \A o \in Event \ E : o \in Registered(t') <=> o \in R
        /\ \A o \in R \ E : Key(t')[o] = Key(t)[o] - s
    BY <1>2, <1>4, <1>6 DEF Moves, R
  <2>2. CASE s = 0
    <3>1. t'.since = t.since BY <1>2, <2>1, <2>2
    <3>2. \A o \in R \ E : Key(t')[o] = Key(t)[o] BY <1>3, <2>1, <2>2
    <3> QED BY <1>4, <2>1, <3>1, <3>2
  <2>3. CASE s = t.since
    <3>1. t'.since = 0 BY <1>2, <2>1, <2>3
    <3>2. ASSUME NEW e \in Event \ E PROVE L1[e] = read(0)[e]
      <4>1. read(0)[e] = IF e \in R THEN Key(t)[e] - t.since - 0 - M ELSE NONE BY <1>5
      <4>2. e \in R => Key(t)[e] \in Int /\ Key(t')[e] = Key(t)[e] - t.since
        BY <1>3, <2>1, <2>3
      <4>3. L1[e] = IF e \in R THEN Key(t')[e] - M ELSE NONE BY <1>4, <2>1
      <4> HIDE DEF read
      <4> QED BY <1>2, <4>1, <4>2, <4>3, Spans DEF M
    <3> QED BY <2>3, <3>1, <3>2
  <2> QED BY <2>1, <2>2, <2>3
<1> HIDE DEF read
<1>7. \A s : Service!Read(s) = read(s) BY <1>2 DEF Service!Read, read
<1>8. \A s : read(s) = [e \in Event |-> read(s)[e]] BY DEF read
<1>9. CASE /\ t'.since = t.since + 1 /\ Registered(t') = Registered(t)
           /\ Key(t') = Key(t) /\ Clocks(t, t', 0)
  <2>1. L1 = L BY <1>4, <1>9 DEF R
  <2>2. Service!Tick BY <1>2, <1>9, <2>1 DEF Service!Tick
  <2> QED BY <2>2 DEF Service!ServiceNext
<1>10. CASE \E s : Moves(t, t', s, {})
  <2>1. PICK s : Moves(t, t', s, {}) BY <1>10
  <2>2. CASE t'.since = 0 /\ \A e \in Event : L1[e] = read(0)[e]
    <3>1. L1 = read(0) BY <1>4, <1>8, <2>2
    <3>2. Service!Look BY <1>2, <1>7, <2>2, <3>1 DEF Service!Look
    <3> QED BY <3>2 DEF Service!ServiceNext
  <2>3. CASE t'.since = t.since /\ \A e \in Event : L1[e] = L[e]
    <3>1. L1 = L BY <1>4, <2>3
    <3> QED BY <1>2, <2>3, <3>1 DEF Service!service_vars
  <2> QED BY <1>6, <2>1, <2>2, <2>3
<1>11. ASSUME NEW e \in Event, Occurs(e) PROVE Service!ServiceNext
  <2>1. /\ e \in R /\ Key(t)[e] <= M /\ \A o \in R : Key(t)[e] <= Key(t)[o]
        /\ Moves(t, t', 0, {e})
        /\ IF e \in Cyclic THEN e \in Registered(t') /\ Key(t')[e] = Key(t)[e] + cyctim[e]
           ELSE e \notin Registered(t')
    BY <1>11 DEF Occurs, R, M
  <2>2. t'.since = t.since BY <1>2, <2>1 DEF Moves
  <2>3. ASSUME NEW o \in Event \ {e} PROVE L1[o] = L[o]
    <3>1. o \in Registered(t') <=> o \in R BY <1>4, <2>1 DEF Moves, R
    <3>2. o \in R => Key(t')[o] = Key(t)[o] - 0 BY <2>1 DEF Moves, R
    <3>3. o \in R => Key(t')[o] = Key(t)[o] BY <1>3, <3>2
    <3> QED BY <1>4, <3>1, <3>3
  <2>4. DOMAIN cyctim = Cyclic /\ (e \in Cyclic => cyctim[e] \in Int) BY NotifyAssumption
  <2>5. L1[e] = IF e \in DOMAIN cyctim THEN L[e] + cyctim[e] ELSE NONE
    <3>1. CASE e \in Cyclic
      <4>1. L1[e] = (Key(t)[e] + cyctim[e]) - M BY <1>4, <2>1, <3>1
      <4>2. L[e] = Key(t)[e] - M /\ Key(t)[e] \in Int /\ M \in Int
        BY <1>3, <1>4, <2>1, Spans DEF M
      <4>3. (Key(t)[e] + cyctim[e]) - M = (Key(t)[e] - M) + cyctim[e]
        BY <2>4, <3>1, <4>2
      <4> QED BY <2>4, <3>1, <4>1, <4>2, <4>3
    <3>2. CASE e \notin Cyclic BY <1>4, <2>1, <2>4, <3>2
    <3> QED BY <3>1, <3>2
  <2>6. L1 = [L EXCEPT ![e] = IF e \in DOMAIN cyctim THEN @ + cyctim[e] ELSE NONE]
    BY <1>4, <2>3, <2>5
  <2>7. L[e] # NONE /\ L[e] <= 0
    <3>1. L[e] = Key(t)[e] - M /\ Key(t)[e] \in Int /\ M \in Int
      BY <1>3, <1>4, <2>1, Spans DEF M
    <3> QED BY <1>2, <2>1, <3>1
  <2>8. \A o \in Event : L[o] # NONE => L[e] <= L[o]
    <3> SUFFICES ASSUME NEW o \in Event, L[o] # NONE PROVE L[e] <= L[o] OBVIOUS
    <3>1. o \in R BY <1>4
    <3>2. /\ L[e] = Key(t)[e] - M /\ Key(t)[e] \in Int /\ M \in Int
          /\ L[o] = Key(t)[o] - M /\ Key(t)[o] \in Int
      BY <1>3, <1>4, <2>1, <3>1, Spans DEF M
    <3> QED BY <2>1, <3>1, <3>2
  <2>9. Service!Occur(e) BY <1>2, <2>2, <2>6, <2>7, <2>8 DEF Service!Occur
  <2> QED BY <2>9 DEF Service!ServiceNext
<1>12. ASSUME NEW e \in Event, Stops(e) PROVE Service!ServiceNext
  <2>1. PICK s : Moves(t, t', s, {e}) BY <1>12 DEF Stops
  <2>2. L1[e] = NONE BY <1>4, <1>12 DEF Stops
  <2>3. CASE t'.since = 0 /\ \A o \in Event \ {e} : L1[o] = read(0)[o]
    <3>1. L1 = [read(0) EXCEPT ![e] = NONE] BY <1>4, <1>8, <2>2, <2>3
    <3> QED BY <1>2, <1>7, <2>3, <3>1 DEF Service!Stop, Service!ServiceNext
  <2>4. CASE t'.since = t.since /\ \A o \in Event \ {e} : L1[o] = L[o]
    <3>1. L1 = [L EXCEPT ![e] = NONE] BY <1>4, <2>2, <2>4
    <3> QED BY <1>2, <2>4, <3>1 DEF Service!Stop, Service!ServiceNext
  <2> QED BY <1>6, <2>1, <2>3, <2>4
<1>13. ASSUME NEW e \in Event, NEW d \in Asked, Restarts(e, TSTEP_HRTCNT + d)
       PROVE  Service!ServiceNext
  <2>1. PICK s : /\ Moves(t, t', s, {e}) /\ t'.since = 0
                 /\ e \in Registered(t') /\ Key(t')[e] = M + (TSTEP_HRTCNT + d)
    BY <1>13 DEF Restarts, M
  <2>2. L1[e] = TSTEP_HRTCNT + d
    <3>1. d \in Int /\ TSTEP_HRTCNT \in Int /\ M \in Int
      BY Spans, NotifyAssumption DEF Asked, M
    <3>2. L1[e] = (M + (TSTEP_HRTCNT + d)) - M BY <1>4, <2>1
    <3> QED BY <3>1, <3>2
  <2>3. \A o \in Event \ {e} : L1[o] = read(0)[o]
    <3>1. CASE \A o \in Event \ {e} : L1[o] = read(0)[o] BY <3>1
    <3>2. CASE t'.since = t.since /\ \A o \in Event \ {e} : L1[o] = L[o]
      <4>1. t.since = 0 BY <2>1, <3>2
      <4>2. ASSUME NEW o \in Event \ {e} PROVE L[o] = read(0)[o]
        <5>1. read(0)[o] = IF o \in R THEN Key(t)[o] - 0 - 0 - M ELSE NONE BY <1>5, <4>1
        <5>2. o \in R => Key(t)[o] - 0 - 0 = Key(t)[o] BY <1>3
        <5> QED BY <1>4, <5>1, <5>2
      <4> QED BY <3>2, <4>2
    <3> QED BY <1>6, <2>1, <3>1, <3>2
  <2>4. L1 = [read(0) EXCEPT ![e] = TSTEP_HRTCNT + d] BY <1>4, <1>8, <2>2, <2>3
  <2>5. TSTEP_HRTCNT + d \in {TSTEP_HRTCNT + x : x \in Asked} OBVIOUS
  <2>6. Service!Start(e)
    BY <1>2, <1>7, <2>1, <2>4, <2>5, Zenon DEF Service!Start, Asked
  <2> QED BY <2>6 DEF Service!ServiceNext
<1>14. ASSUME NEW a \in AdjTim, Adjusts(a) PROVE Service!ServiceNext
  <2>1. /\ t'.since = 0 /\ Registered(t') = R
        /\ \A e \in R : Key(t')[e] = Key(t)[e] - t.since - a
    BY <1>14 DEF Adjusts, R
  <2>2. a \in Int BY NotifyAssumption
  <2>3. ASSUME NEW e \in Event PROVE L1[e] = read(a)[e]
    <3>1. read(a)[e] = IF e \in R THEN Key(t)[e] - t.since - a - M ELSE NONE BY <1>5, <2>2
    <3> QED BY <1>4, <2>1, <3>1
  <2>4. L1 = read(a) BY <1>4, <1>8, <2>3
  <2>5. Service!Adjust BY <1>2, <1>7, <2>1, <2>4 DEF Service!Adjust
  <2> QED BY <2>5 DEF Service!ServiceNext
<1>15. ASSUME NEW s \in SetTim, t'.since = 0, Registered(t') = Registered(t),
              \A e \in Registered(t) : Key(t')[e] = Key(t)[e] - t.since
       PROVE  Service!ServiceNext
  <2>1. ASSUME NEW e \in Event PROVE L1[e] = read(0)[e]
    <3>1. read(0)[e] = IF e \in R THEN Key(t)[e] - t.since - 0 - M ELSE NONE BY <1>5
    <3>2. e \in R => Key(t)[e] - t.since - 0 = Key(t)[e] - t.since BY <1>2, <1>3
    <3>3. L1[e] = IF e \in R THEN Key(t)[e] - t.since - M ELSE NONE BY <1>4, <1>15 DEF R
    <3> QED BY <3>1, <3>2, <3>3
  <2>2. L1 = read(0) BY <1>4, <1>8, <2>1
  <2>3. Service!Look BY <1>2, <1>7, <1>15, <2>2 DEF Service!Look
  <2> QED BY <2>3 DEF Service!ServiceNext
<1> QED BY <1>1, <1>9, <1>10, <1>11, <1>12, <1>13, <1>14, <1>15 DEF Done

LEMMA ServiceStart ==
    ASSUME TimesFit, TimeInit
    PROVE  Service!ServiceInit
<1>1. /\ TimeInv /\ t.since = 0
      /\ \A e \in Registered(t) : e \in Cyclic /\ Key(t)[e] = BOUNDARY_MARGIN + cycphs[e]
  BY TimeInvInit
<1>2. [e \in Event |-> time_left(e)] = left(t) BY <1>1, Lefts
<1>3. \A e \in Registered(t) : left(t)[e] \in {cycphs[x] : x \in Cyclic}
  <2> TAKE e \in Registered(t)
  <2>1. e \in Cyclic /\ e \in Event /\ Key(t)[e] = BOUNDARY_MARGIN + cycphs[e]
    BY <1>1 DEF Registered
  <2>2. cycphs[e] \in Int /\ BOUNDARY_MARGIN \in Int BY <2>1, Spans, NotifyAssumption
  <2>3. left(t)[e] = (BOUNDARY_MARGIN + cycphs[e]) - BOUNDARY_MARGIN BY <2>1 DEF left
  <2>4. left(t)[e] = cycphs[e] BY <2>2, <2>3
  <2> QED BY <2>1, <2>4
<1>4. left(t) \in [Event -> {cycphs[e] : e \in Cyclic} \cup {NONE}] BY <1>3 DEF left
<1> QED BY <1>1, <1>2, <1>4 DEF Service!ServiceInit

-----------------------------------------------------------------------------
(* The system time. How far the current time has gone on is read off it.   *)
LEMMA GoneOn ==
    ASSUME TimesFit, NEW x \in TimeState, NEW c, NEW d \in Int,
           -TMAX_ADJTIM <= d, d + TMAX_ADJTIM < EVTTIM_SPAN,
           c = (x.current_evttim + d) % EVTTIM_SPAN
    PROVE  ((c - x.current_evttim + TMAX_ADJTIM) % EVTTIM_SPAN) - TMAX_ADJTIM = d
<1> DEFINE S == EVTTIM_SPAN
           A == TMAX_ADJTIM
           b == x.current_evttim
           i == b + d
           j == c - b + A
<1>1. /\ S \in Nat /\ A \in Nat /\ S > 0 /\ b \in Nat /\ b < S /\ S \in Int /\ A < S
      /\ -A <= d /\ d + A < S
  <2>1. A < S BY Spans DEF TimesFit
  <2> QED BY <2>1, ClockValues, Spans
<1> HIDE DEF b, S, A
<1>2. i \in Int /\ -S <= i /\ i < 2 * S /\ S \in Int BY <1>1
<1>3. c = i % S BY DEF b, S
<1> HIDE DEF i
<1>4. i % S = IF i < 0 THEN i + S ELSE IF i < S THEN i ELSE i - S
  BY ONLY <1>2, NearSpan DEF S
<1>5. j \in Int /\ -S <= j /\ j < 2 * S /\ S \in Int BY <1>1, <1>2, <1>3, <1>4 DEF i
<1>6. j = d + A \/ j = d + A + S \/ j = d + A - S BY <1>1, <1>2, <1>3, <1>4 DEF i
<1> HIDE DEF j
<1>7. j % S = IF j < 0 THEN j + S ELSE IF j < S THEN j ELSE j - S
  BY ONLY <1>5, NearSpan DEF S
<1>8. j % S = d + A BY <1>1, <1>5, <1>6, <1>7
<1>9. (j % S) - A = d BY <1>1, <1>8
<1> QED BY <1>9 DEF j, S, A, b

(* So far the system time goes on, if it is not set.                       *)
gone == ((t'.current_evttim - t.current_evttim + TMAX_ADJTIM) % EVTTIM_SPAN) - TMAX_ADJTIM
peak == IF t'.since = 0 /\ t.since > gone THEN t.since ELSE gone

LEMMA GoesOn ==
    ASSUME TimesFit, TimeInv, NEW s \in Nat, s <= t.since, Clocks(t, t', s),
           t'.since = 0 => s = t.since
    PROVE  peak = s
<1>1. t \in TimeState /\ t.since \in Nat /\ t.since < TCYC_HRTCNT
  BY Reading DEF TimeInv, Sound, Flags
<1>2. /\ -TMAX_ADJTIM <= s /\ s + TMAX_ADJTIM < EVTTIM_SPAN
  BY <1>1, Spans DEF TimesFit
<1>3. gone = s BY <1>1, <1>2, GoneOn DEF Clocks, gone
<1> QED BY <1>1, <1>3 DEF peak

LEMMA GainsBehind ==
    ASSUME NEW x \in TimeState, NEW d \in Int
    PROVE  gains(x, d) = IF d > behind(x) THEN d - behind(x) ELSE 0
<1>1. behind(x) \in Int BY ClockValues, Spans
<1> QED BY <1>1 DEF gains

LEMMA SystemStep ==
    ASSUME TimesFit, TimeInv, [TimeNext]_time_vars
    PROVE  \/ systim(t') = (systim(t) + gains(t, peak)) % SYSTIM_SPAN
           \/ \E s \in SetTim : set_tim(s) /\ systim(t') = s
<1>1. Done BY TimeInvNext
<1>2. /\ t \in TimeState /\ t.since \in Nat /\ t.since < TCYC_HRTCNT
      /\ TCYC_HRTCNT + 2 * TMAX_ADJTIM <= EVTTIM_SPAN
  BY Reading DEF TimeInv, Sound, Flags, TimesFit
<1>3. ASSUME NEW s, s \in {0, t.since}, Clocks(t, t', s), t'.since = 0 => s = t.since
      PROVE  systim(t') = (systim(t) + gains(t, peak)) % SYSTIM_SPAN
  <2>1. s \in Nat /\ s <= t.since BY <1>2, <1>3
  <2>2. peak = s BY <1>3, <2>1, GoesOn
  <2> QED BY <1>3, <2>2 DEF Clocks
<1>4. ASSUME NEW s, NEW E, Moves(t, t', s, E)
      PROVE  systim(t') = (systim(t) + gains(t, peak)) % SYSTIM_SPAN
  <2>1. s \in {0, t.since} /\ t'.since = t.since - s /\ Clocks(t, t', s) BY <1>4 DEF Moves
  <2>2. t'.since = 0 => s = t.since BY <1>2, <2>1
  <2> QED BY <1>3, <2>1, <2>2
<1>5. ASSUME t'.since = t.since + 1, Clocks(t, t', 0)
      PROVE  systim(t') = (systim(t) + gains(t, peak)) % SYSTIM_SPAN
  <2>1. ~(t'.since = 0) BY <1>2, <1>5
  <2> QED BY <1>3, <1>5, <2>1
<1>6. ASSUME NEW a \in AdjTim, Adjusts(a)
      PROVE  systim(t') = (systim(t) + gains(t, peak)) % SYSTIM_SPAN
  <2> DEFINE S == EVTTIM_SPAN
             A == TMAX_ADJTIM
             s == t.since
  <2>1. PICK x : /\ Sound(x) /\ Clocks(t, x, s)
                 /\ t'.current_evttim = (x.current_evttim + a) % S
                 /\ a > 0 => Clocks(x, t', a)
                 /\ a <= 0 => systim(t') = systim(x)
    BY <1>6 DEF Adjusts
  <2>2. /\ t'.since = 0 /\ x \in TimeState /\ a \in Int /\ -A <= a /\ a <= A
        /\ S \in Nat /\ A \in Nat /\ s \in Nat /\ s + 2 * A < S
    BY <1>2, <1>6, <2>1, NotifyAssumption, Spans DEF Adjusts, Sound
  <2>3. t'.current_evttim = (t.current_evttim + (s + a)) % S
    <3> DEFINE c == t.current_evttim
               c1 == x.current_evttim
               c2 == t'.current_evttim
               i == c + s
               j == c1 + a
               k == c + (s + a)
    <3>1. c \in 0 .. S - 1 /\ c1 \in 0 .. S - 1 BY <1>2, <2>2, ClockValues
    <3>2. c1 = i % S /\ c2 = j % S BY <2>1 DEF Clocks
    <3> HIDE DEF c, c1, c2, S, A, s
    <3>3. /\ i \in Int /\ -S <= i /\ i < 2 * S /\ S \in Int
          /\ j \in Int /\ -S <= j /\ j < 2 * S
          /\ k \in Int /\ -S <= k /\ k < 2 * S
          /\ i = c + s /\ j = c1 + a /\ k = i + a
      BY <2>2, <3>1
    <3> HIDE DEF i, j, k
    <3>4. i % S = IF i < 0 THEN i + S ELSE IF i < S THEN i ELSE i - S
      BY ONLY <3>3, NearSpan DEF S
    <3>5. j % S = IF j < 0 THEN j + S ELSE IF j < S THEN j ELSE j - S
      BY ONLY <3>3, NearSpan DEF S
    <3>6. k % S = IF k < 0 THEN k + S ELSE IF k < S THEN k ELSE k - S
      BY ONLY <3>3, NearSpan DEF S
    <3>7. c2 = k % S BY <2>2, <3>1, <3>2, <3>3, <3>4, <3>5, <3>6
    <3> QED BY <3>7 DEF c, c2, k, S, s
  <2>4. gone = s + a
    <3>1. s + a \in Int /\ -A <= s + a /\ s + a + A < S BY <2>2
    <3> QED BY <1>2, <2>3, <3>1, GoneOn DEF gone
  <2>5. CASE a > 0
    <3>1. peak = s + a BY <2>2, <2>4, <2>5 DEF peak
    <3>2. a \in Nat /\ s + a < S BY <2>2, <2>5
    <3>3. Clocks(t, t', s + a)
      <4> DEFINE y == t'
      <4>1. Clocks(x, y, a) BY <2>1, <2>5
      <4> HIDE DEF y
      <4>2. Clocks(t, y, s + a) BY <1>2, <2>1, <2>2, <3>2, <4>1, ClocksTrans
      <4> QED BY <4>2 DEF y
    <3> QED BY <3>1, <3>3 DEF Clocks
  <2>6. CASE a <= 0
    <3>1. peak = s BY <2>2, <2>4, <2>6 DEF peak
    <3>2. systim(t') = systim(x) BY <2>1, <2>6
    <3> QED BY <2>1, <3>1, <3>2 DEF Clocks
  <2> QED BY <2>2, <2>5, <2>6
<1>7. CASE \E e \in Event : Occurs(e) \/ Stops(e) \/ \E d \in Asked : Restarts(e, TSTEP_HRTCNT + d)
  <2>1. \E s, E : Moves(t, t', s, E) BY <1>7 DEF Occurs, Stops, Restarts
  <2> QED BY <1>4, <2>1
<1> QED BY <1>1, <1>4, <1>5, <1>6, <1>7 DEF Done

-----------------------------------------------------------------------------
(* The theorems. TimesFit is all that they ask of the application.         *)
LEMMA TimeInvAlways ==
    ASSUME TimesFit
    PROVE  TimeSpec => []TimeInv
<1>1. TimeInit => TimeInv BY TimeInvInit
<1>2. TimeInv /\ [TimeNext]_time_vars => TimeInv' BY TimeInvNext
<1> QED BY <1>1, <1>2, PTL DEF TimeSpec

LEMMA InvEventsOK == TimeInv => EventsOK
<1> SUFFICES ASSUME TimeInv PROVE EventsOK OBVIOUS
<1>1. /\ t \in TimeState /\ t.since < TCYC_HRTCNT
      /\ Heap(Core(t), Registered(t), Key(t)) /\ \A e \in Event : t.sta[e] <=> e \in Registered(t)
  BY Reading DEF TimeInv, Sound, Flags
<1>2. HeapOrdered(Core(t)) BY <1>1, TimeKeys, Ordered
<1>3. HeapOrdered(t)
  <2>1. Registered(Core(t)) = Registered(t) BY <1>1, TimeKeys
  <2> QED BY <1>2, <2>1
          DEF HeapOrdered, Core, time_at, EVTTIM_LE, EVTTIM_ADVANCE, boundary_evttim
<1> QED BY <1>1, <1>3 DEF EventsOK

LEMMA InvArmedOK == TimeInv => ArmedOK
<1> SUFFICES ASSUME TimeInv, signal = "off", ~t.intreq, NEW e \in Registered(t)
             PROVE  to_interrupt <= time_left(e) - t.since + MaxDelay
  BY DEF ArmedOK
<1> DEFINE a == ahead(t)
           k == Key(t)[e]
<1>1. t \in TimeState /\ e \in Event /\ t.p_tmevtn[e] # 0 BY DEF TimeInv, Sound, Registered
<1>2. k \in Nat /\ time_left(e) = k - BOUNDARY_MARGIN
  <2>1. k = EVTTIM_ADVANCE(t, t.evttim[e]) /\ k \in Nat BY <1>1, TimeKeys
  <2> QED BY <1>1, <2>1 DEF time_left
<1>3. to_interrupt = a BY DEF to_interrupt, ahead
<1>4. a + BOUNDARY_MARGIN + t.since <= k + MaxDelay BY DEF TimeInv, Armed
<1>5. a \in Int /\ t.since \in Nat
  <2>1. t.cmp \in Int /\ t.cnt \in Int /\ t.since \in Nat BY <1>1, Spans DEF TimeState, HRTCNT
  <2> QED BY <2>1, Spans DEF ahead
<1> HIDE DEF a, k
<1> QED BY <1>2, <1>3, <1>4, <1>5, Spans

(* The count that is read is the true time, no cycle of it is missed, and  *)
(* the heap is one of just the events that are started, while the time that*)
(* it is compared by goes on, is put back and wraps around.                *)
THEOREM EventsCorrect ==
    ASSUME TimesFit
    PROVE  TimeSpec => []EventsOK
BY TimeInvAlways, InvEventsOK, PTL

(* Unless signal_time is about to look at them, the timer interrupt is set *)
(* for the first event or earlier: after each start, stop, adjustment and  *)
(* setting of the clock, in whatever order they come, and at the end of    *)
(* each signal_time with all that its handlers did.                        *)
THEOREM ArmedCorrect ==
    ASSUME TimesFit
    PROVE  TimeSpec => []ArmedOK
BY TimeInvAlways, InvArmedOK, PTL

(* The wrapping times in the heap implement due times on a clock that never*)
(* wraps (TimerService): no event occurs early or before one that was due  *)
(* earlier, and what is done to one event changes no other's time.         *)
THEOREM ServiceImplemented ==
    ASSUME TimesFit
    PROVE  TimeSpec => ImplementsService
<1>1. TimeInit => Service!ServiceInit BY ServiceStart
<1>2. TimeInv /\ [TimeNext]_time_vars => [Service!ServiceNext]_(Service!service_vars)
  BY ServiceStep
<1>3. TimeSpec => []TimeInv BY TimeInvAlways
<1> QED BY <1>1, <1>2, <1>3, PTL DEF TimeSpec, ImplementsService, Service!ServiceSpec

(* The system time goes on with the true time and the adjustments, stands  *)
(* still after one backwards until the current time has caught up, is      *)
(* carried into its upper half just when the lower half wraps, and jumps   *)
(* only where set_tim sets it.                                             *)
THEOREM SystemTimeCorrect ==
    ASSUME TimesFit
    PROVE  TimeSpec => SystemTime
<1> DEFINE step == \/ systim(t') = (systim(t) + IF peak > behind(t) THEN peak - behind(t) ELSE 0)
                                   % SYSTIM_SPAN
                   \/ \E s \in SetTim : set_tim(s) /\ systim(t') = s
<1>1. TimeInv /\ [TimeNext]_time_vars => step
  <2> SUFFICES ASSUME TimeInv, [TimeNext]_time_vars PROVE step OBVIOUS
  <2>1. t \in TimeState BY DEF TimeInv, Sound
  <2>2. t' \in TimeState BY TimeInvNext DEF TimeInv, Sound
  <2>3. t.current_evttim \in Int /\ t'.current_evttim \in Int /\ t.since \in Int
    BY <2>1, <2>2, Spans DEF TimeState, EVTTIM
  <2>4. gone \in Int BY <2>3, Spans DEF gone
  <2>5. peak \in Int BY <2>3, <2>4 DEF peak
  <2>6. gains(t, peak) = IF peak > behind(t) THEN peak - behind(t) ELSE 0
    BY <2>1, <2>5, GainsBehind
  <2> QED BY <2>6, SystemStep
<1>2. TimeInv /\ [TimeNext]_time_vars => [step]_time_vars BY <1>1
<1>3. TimeSpec => []TimeInv BY TimeInvAlways
<1>4. [][step]_time_vars => SystemTime BY DEF SystemTime, step, peak, gone
<1> HIDE DEF step
<1> QED BY <1>2, <1>3, <1>4, PTL DEF TimeSpec
=============================================================================
