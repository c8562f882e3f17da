----------------------------- MODULE DriftArith -----------------------------
(***************************************************************************)
(* The conversions between counts of the timer and event time with a drift *)
(* rate (extension/drift/kernel/time_event.c), as they are computed in 32  *)
(* bits, without USE_64BIT_OPS: the event time goes on by drift_rate       *)
(* millionths at each count, and a million is split into a thousand        *)
(* thousands so that no product leaves 32 bits.                            *)
(***************************************************************************)
EXTENDS Integers, TLAPS

CONSTANT Thousand       \* 1000 in the code

ASSUME DriftAssumption == Thousand \in Nat \ {0}

Million == Thousand * Thousand

(* update_current_evttim: what hrtcnt_advance counts add to the event time *)
(* and to its fraction, of which at most two carries are left to be done.  *)
s1(adv, rate) == (adv \div Million) * rate
s2(adv, rate) == ((adv % Million) \div Thousand) * rate
s3(adv, rate) == ((adv % Million) % Thousand) * rate

whole(adv, rate) == s1(adv, rate) + s2(adv, rate) \div Thousand + s3(adv, rate) \div Million

parts(adv, rate) == (s2(adv, rate) % Thousand) * Thousand + (s3(adv, rate) % Million)

\* mutant: one carry is taken for enough
Bug_carry(frac) == IF frac >= Million THEN 1 ELSE 0

carry(frac) == IF frac >= 2 * Million THEN 2 ELSE IF frac >= Million THEN 1 ELSE 0

(* set_hrt_event: the counts after which the event time has gone on by adv,*)
(* from a fraction of frac; by steps of a division by the rate.            *)
c1(adv, rate) == adv \div rate
r1(adv, rate) == (adv % rate) * Thousand
c2(adv, rate) == r1(adv, rate) \div rate
r2(adv, rate) == (r1(adv, rate) % rate) * Thousand + (rate - 1)

\* mutant: the fraction that has already passed is not subtracted
Bug_counts(adv, frac, rate) ==
    c1(adv, rate) * Million + c2(adv, rate) * Thousand + r2(adv, rate) \div rate

counts(adv, frac, rate) ==
    c1(adv, rate) * Million + c2(adv, rate) * Thousand +
        (IF r2(adv, rate) >= frac THEN (r2(adv, rate) - frac) \div rate ELSE -1)

hrtcnt(adv, frac, rate, bound) ==
    IF c1(adv, rate) > bound \div Million \/ counts(adv, frac, rate) > bound
    THEN bound ELSE counts(adv, frac, rate)

(* set_dft and calc_current_evttim_ub: a count ahead (the TSTEP_HRTCNT of  *)
(* the RZ/A1), rounded up.                                                 *)
step(rate)      == (rate + (Million - 1)) \div Million
step_frac(rate) == (rate + (Million - 1)) % Million

ahead(frac, rate) == step(rate) + (IF frac + step_frac(rate) >= Million THEN 1 ELSE 0)

-----------------------------------------------------------------------------
(* Proofs that the conversions are exact, whatever the drift rate, the     *)
(* counts and the fraction.                                                *)
LEMMA Base == Thousand \in Nat \ {0} /\ Million \in Nat \ {0} /\ Million = Thousand * Thousand
BY DriftAssumption DEF Million

LEMMA Divide ==
    ASSUME NEW a \in Nat, NEW b \in Nat \ {0}
    PROVE  /\ a \div b \in Nat /\ a % b \in 0 .. b - 1
           /\ a = (a \div b) * b + (a % b)
OBVIOUS

\* Products of sums, which the solver is not left to find.
LEMMA Split ==
    ASSUME NEW q \in Int, NEW m \in Int, NEW r \in Int, NEW n \in Int
    PROVE  (q * m + r) * n = (q * n) * m + r * n
OBVIOUS

LEMMA Distribute ==
    ASSUME NEW x \in Int, NEW y \in Int, NEW z \in Int
    PROVE  (x + y) * z = x * z + y * z
OBVIOUS

LEMMA Natural == \A x \in Nat : \A y \in Nat : x * y \in Nat
OBVIOUS

(* update_current_evttim is exact: event time and fraction together go on  *)
(* by drift_rate millionths for each count, and what is left of the        *)
(* fraction is less than one.                                              *)
THEOREM AdvanceExact ==
    ASSUME NEW adv \in Nat, NEW rate \in Nat, NEW frac \in 0 .. Million - 1
    PROVE  LET f == frac + parts(adv, rate)
               left == f - carry(f) * Million
           IN  /\ (whole(adv, rate) + carry(f)) * Million + left = frac + adv * rate
               /\ left \in 0 .. Million - 1
<1> DEFINE q == adv \div Million
           r == adv % Million
<1>1. q \in Nat /\ r \in 0 .. Million - 1 /\ adv = q * Million + r
  BY Base, Divide
<1> HIDE DEF q, r
<1> DEFINE b == r \div Thousand
           c == r % Thousand
<1>2. b \in Nat /\ c \in 0 .. Thousand - 1 /\ r = b * Thousand + c
  <2>1. r \in Nat
    BY <1>1, Base
  <2> QED BY <2>1, Base, Divide
<1> HIDE DEF b, c
<1> DEFINE S2 == b * rate
           S3 == c * rate
<1>3. S2 \in Nat /\ S3 \in Nat
  BY <1>2, Base, Natural
<1>4. adv * rate = (q * rate) * Million + r * rate
  BY <1>1, Base, Split
<1>5. r * rate = S2 * Thousand + S3
  BY <1>2, Base, Split
<1> HIDE DEF S2, S3
<1> DEFINE d2 == S2 \div Thousand
           m2 == S2 % Thousand
           d3 == S3 \div Million
           m3 == S3 % Million
<1>6. d2 \in Nat /\ m2 \in 0 .. Thousand - 1 /\ S2 = d2 * Thousand + m2
  BY Base, <1>3, Divide
<1>7. d3 \in Nat /\ m3 \in 0 .. Million - 1 /\ S3 = d3 * Million + m3
  BY Base, <1>3, Divide
<1> DEFINE W == q * rate
           P == m2 * Thousand
<1>8. whole(adv, rate) = W + d2 + d3 /\ parts(adv, rate) = P + m3
  BY DEF whole, parts, s1, s2, s3, q, r, b, c, S2, S3
<1> HIDE DEF d2, m2, d3, m3
<1>9. W \in Nat /\ P \in Nat
  BY <1>1, <1>6, Base, Natural
<1>10. S2 * Thousand = d2 * Million + P
  <2>1. S2 * Thousand = (d2 * Thousand) * Thousand + m2 * Thousand
    BY <1>6, Base, Split
  <2>2. (d2 * Thousand) * Thousand = d2 * (Thousand * Thousand)
    BY <1>6, Base
  <2> QED BY <2>1, <2>2, Base
<1>11. P <= Million - Thousand
  <2>1. m2 * Thousand <= (Thousand - 1) * Thousand
    BY <1>6, Base
  <2>2. (Thousand - 1) * Thousand = Thousand * Thousand - Thousand
    BY Base
  <2> QED BY <2>1, <2>2, Base
<1> HIDE DEF W, P
<1>12. (W + d2 + d3) * Million + P + m3 = adv * rate
  <2>1. ((W + d2) + d3) * Million = (W + d2) * Million + d3 * Million
    BY <1>9, <1>6, <1>7, Base, Distribute
  <2>2. (W + d2) * Million = W * Million + d2 * Million
    BY <1>9, <1>6, Base, Distribute
  <2>3. W * Million = (q * rate) * Million
    BY DEF W
  <2>4. /\ W * Million \in Int /\ d2 * Million \in Int /\ d3 * Million \in Int
        /\ r * rate \in Int /\ S2 * Thousand \in Int
    BY <1>9, <1>6, <1>7, <1>1, <1>3, Base
  <2> QED BY <2>1, <2>2, <2>3, <2>4, <1>4, <1>5, <1>10, <1>7, <1>9
<1> DEFINE f == frac + parts(adv, rate)
           w == W + d2 + d3
<1>13. f \in Nat /\ f < 3 * Million /\ f = frac + P + m3
  BY <1>8, <1>9, <1>11, <1>7, Base
<1>14. w \in Nat /\ whole(adv, rate) = w /\ w * Million + P + m3 = adv * rate
  BY <1>8, <1>9, <1>6, <1>7, <1>12
<1> HIDE DEF f, w
<1>15. carry(f) \in {0, 1, 2} /\ f - carry(f) * Million \in 0 .. Million - 1
  BY <1>13, Base DEF carry
<1>16. (w + carry(f)) * Million = w * Million + carry(f) * Million
  BY <1>14, <1>15, Base, Distribute
<1>17. w * Million \in Nat /\ carry(f) * Million \in Nat
  BY <1>14, <1>15, Base, Natural
<1>18. (whole(adv, rate) + carry(f)) * Million + (f - carry(f) * Million) = frac + adv * rate
  BY <1>13, <1>14, <1>16, <1>17, <1>9, <1>7
<1> QED
  BY <1>15, <1>18 DEF f

(* set_hrt_event is exact: after the counts that it computes the event time*)
(* has gone on by adv, and one count before it has not. (2 * rate: the     *)
(* drift is at most a tenth.)                                              *)
THEOREM CountsExact ==
    ASSUME NEW adv \in Nat \ {0}, NEW rate \in Nat \ {0}, NEW frac \in 0 .. Million - 1,
           Million <= 2 * rate
    PROVE  LET n == counts(adv, frac, rate)
           IN  n * rate + frac >= adv * Million /\ (n - 1) * rate + frac < adv * Million
<1> DEFINE q == adv \div rate
           r == adv % rate
<1>1. q \in Nat /\ r \in 0 .. rate - 1 /\ adv = q * rate + r
  BY Divide
<1> HIDE DEF q, r
<1> DEFINE S == r * Thousand
<1>2. S \in Nat
  BY <1>1, Base, Natural
<1>3. adv * Million = (q * Million) * rate + S * Thousand
  <2>1. adv * Million = (q * Million) * rate + r * Million
    BY <1>1, Base, Split
  <2>2. r * (Thousand * Thousand) = (r * Thousand) * Thousand
    BY <1>1, Base
  <2> QED BY <2>1, <2>2, Base
<1> HIDE DEF S
<1> DEFINE d == S \div rate
           m == S % rate
<1>4. d \in Nat /\ m \in 0 .. rate - 1 /\ S = d * rate + m
  BY <1>2, Divide
<1> HIDE DEF d, m
<1> DEFINE M == m * Thousand
           R == M + (rate - 1)
           e == IF R >= frac THEN (R - frac) \div rate ELSE -1
<1>5. S * Thousand = (d * Thousand) * rate + M
  BY <1>4, Base, Split
<1>6. M \in Nat /\ R \in Nat /\ R = M + (rate - 1)
  BY <1>4, Base, Natural
<1>7. counts(adv, frac, rate) = q * Million + d * Thousand + e
  BY DEF counts, c1, c2, r1, r2, q, r, S, d, m
<1> HIDE DEF M, R
<1>8. e \in Int /\ e * rate <= R - frac /\ R - frac < e * rate + rate
  <2>1. CASE R >= frac
    <3>1. R - frac \in Nat
      BY <2>1, <1>6, Base
    <3> DEFINE t == (R - frac) \div rate
               u == (R - frac) % rate
    <3>2. t \in Nat /\ u \in 0 .. rate - 1 /\ R - frac = t * rate + u
      BY <3>1, Divide
    <3>3. e = t
      BY <2>1
    <3> HIDE DEF e, t, u
    <3>4. t * rate \in Nat
      BY <3>2, Natural
    <3>5. R - frac >= t * rate /\ R - frac < t * rate + rate
      BY <3>2, <3>4, <3>1
    <3> QED BY <3>2, <3>3, <3>5
  <2>2. CASE R < frac
    <3>1. e = -1
      BY <2>2, <1>6, Base
    <3>2. e * rate = -rate
      BY <3>1
    <3> HIDE DEF e
    <3> QED BY <3>1, <3>2, <2>2, <1>6, Base
  <2> QED BY <2>1, <2>2, <1>6, Base
<1> HIDE DEF e
<1> DEFINE A == q * Million
           B == d * Thousand
           n == A + B + e
<1>9. A \in Nat /\ B \in Nat
  BY <1>1, <1>4, Base, Natural
<1>10. adv * Million = A * rate + B * rate + M
  BY <1>3, <1>5, <1>6, <1>9
<1>11. counts(adv, frac, rate) = n
  BY <1>7
<1> HIDE DEF A, B
<1>12. n * rate = A * rate + B * rate + e * rate
  <2>1. ((A + B) + e) * rate = (A + B) * rate + e * rate
    BY <1>9, <1>8, Distribute
  <2>2. (A + B) * rate = A * rate + B * rate
    BY <1>9, Distribute
  <2> QED BY <2>1, <2>2
<1>13. n \in Int
  BY <1>9, <1>8
<1> HIDE DEF n
<1>14. (n - 1) * rate = n * rate - rate
  BY <1>13
<1>15. A * rate \in Int /\ B * rate \in Int /\ e * rate \in Int
  BY <1>9, <1>8
<1> DEFINE ar == A * rate
           br == B * rate
           er == e * rate
<1>16. n * rate + frac >= adv * Million /\ (n - 1) * rate + frac < adv * Million
  BY <1>6, <1>8, <1>10, <1>12, <1>14, <1>15, Base
<1> QED
  BY <1>11, <1>16

(* The quick test for the bound agrees with the long way: the timer is set *)
(* for the counts to the event, or for the bound if that is less.          *)
THEOREM BoundExact ==
    ASSUME NEW adv \in Nat \ {0}, NEW rate \in Nat \ {0}, NEW frac \in 0 .. Million - 1,
           NEW bound \in Nat
    PROVE  hrtcnt(adv, frac, rate, bound) =
               IF counts(adv, frac, rate) > bound THEN bound ELSE counts(adv, frac, rate)
<1> DEFINE q == c1(adv, rate)
           d == c2(adv, rate)
           e == IF r2(adv, rate) >= frac THEN (r2(adv, rate) - frac) \div rate ELSE -1
           p == bound \div Million
           n == counts(adv, frac, rate)
<1>1. q \in Nat
  BY Divide DEF c1
<1>2. d \in Nat /\ r2(adv, rate) \in Nat
  <2>1. adv % rate \in Nat
    BY Divide
  <2>2. r1(adv, rate) \in Nat
    BY <2>1, Base, Natural DEF r1
  <2>3. r1(adv, rate) \div rate \in Nat /\ r1(adv, rate) % rate \in 0 .. rate - 1
    <3> DEFINE x == r1(adv, rate)
    <3>1. x \in Nat
      BY <2>2
    <3> HIDE DEF x
    <3>2. x \div rate \in Nat /\ x % rate \in 0 .. rate - 1
      BY <3>1, Divide
    <3> QED BY <3>2 DEF x
  <2>4. (r1(adv, rate) % rate) * Thousand \in Nat
    BY <2>3, Base, Natural
  <2> QED BY <2>3, <2>4 DEF c2, r2
<1>3. e \in Int /\ e >= -1
  <2>1. CASE r2(adv, rate) >= frac
    <3> DEFINE x == r2(adv, rate) - frac
    <3>1. x \in Nat
      BY <2>1, <1>2, Base
    <3>2. e = x \div rate
      BY <2>1
    <3> HIDE DEF e, x
    <3>3. x \div rate \in Nat
      BY <3>1, Divide
    <3> QED BY <3>2, <3>3
  <2>2. CASE ~(r2(adv, rate) >= frac)
    BY <2>2
  <2> QED BY <2>1, <2>2
<1>4. n = q * Million + d * Thousand + e
  BY DEF counts
<1>5. p \in Nat /\ bound % Million \in 0 .. Million - 1 /\ bound = p * Million + (bound % Million)
  BY Base, Divide
<1>6. hrtcnt(adv, frac, rate, bound) = IF q > p \/ n > bound THEN bound ELSE n
  BY DEF hrtcnt
<1> HIDE DEF q, d, e, p, n
<1>7. q * Million \in Nat /\ d * Thousand \in Nat /\ p * Million \in Nat
  BY <1>1, <1>2, <1>5, Base, Natural
<1>8. ASSUME q > p PROVE n >= bound
  <2>1. PICK j \in Nat : q = p + (1 + j)
    <3>1. q - p - 1 \in Nat /\ q = p + (1 + (q - p - 1))
      BY <1>8, <1>1, <1>5
    <3> QED BY <3>1
  <2>2. q * Million = p * Million + (1 + j) * Million
    BY <2>1, <1>5, Base, Distribute
  <2>3. (1 + j) * Million = Million + j * Million /\ j * Million \in Nat
    BY <2>1, Base, Natural
  <2>4. q * Million > bound
    BY <2>2, <2>3, <1>5, <1>7, Base
  <2> QED BY <2>4, <1>3, <1>4, <1>7
<1>9. n \in Int
  BY <1>3, <1>4, <1>7
<1> QED BY <1>6, <1>8, <1>9 DEF n

(* The due time of a new event is not earlier than one count from now, and *)
(* less than a unit later than that.                                       *)
THEOREM AheadExact ==
    ASSUME NEW rate \in Nat, NEW frac \in 0 .. Million - 1
    PROVE  /\ ahead(frac, rate) * Million >= frac + rate
           /\ ahead(frac, rate) * Million < frac + rate + Million
<1> DEFINE x == rate + (Million - 1)
<1>1. x \in Nat /\ step(rate) \in Nat /\ step_frac(rate) \in 0 .. Million - 1
      /\ x = step(rate) * Million + step_frac(rate)
  <2>1. x \in Nat
    BY Base
  <2>2. step(rate) = x \div Million /\ step_frac(rate) = x % Million
    BY DEF step, step_frac
  <2> HIDE DEF x
  <2>3. x \div Million \in Nat /\ x % Million \in 0 .. Million - 1
        /\ x = (x \div Million) * Million + (x % Million)
    BY <2>1, Base, Divide
  <2> QED BY <2>1, <2>2, <2>3
<1>2. CASE frac + step_frac(rate) >= Million
  <2>1. ahead(frac, rate) * Million = step(rate) * Million + Million
    BY <1>1, <1>2, Base, Distribute DEF ahead
  <2> QED BY <2>1, <1>1, <1>2, Base
<1>3. CASE frac + step_frac(rate) < Million
  <2>1. ahead(frac, rate) * Million = step(rate) * Million
    BY <1>1, <1>3, Base DEF ahead
  <2> QED BY <2>1, <1>1, <1>3, Base
<1> QED BY <1>1, <1>2, <1>3, Base

(* No intermediate value of the conversions is more than Thousand + 1      *)
(* times the rate, whatever the advance of the counter or of the event     *)
(* time: 32 bits do for every rate that set_dft admits (DriftConstants).   *)
THEOREM ProductsFit ==
    ASSUME NEW adv \in Nat, NEW rate \in Nat \ {0}, NEW frac \in 0 .. Million - 1
    PROVE  /\ s2(adv, rate) <= Thousand * rate /\ s3(adv, rate) <= Thousand * rate
           /\ r1(adv, rate) <= Thousand * rate /\ r2(adv, rate) <= (Thousand + 1) * rate
           /\ frac + parts(adv, rate) < 3 * Million
<1>1. \A x \in 0 .. Thousand - 1 : x * rate \in Nat /\ x * rate <= Thousand * rate
  BY Base
<1>2. \A x \in 0 .. rate - 1 : x * Thousand \in Nat /\ x * Thousand <= Thousand * rate
  BY Base
<1>3. s3(adv, rate) \in Nat /\ s3(adv, rate) <= Thousand * rate
  <2>1. adv % Million \in Nat
    BY Base, Divide
  <2>2. (adv % Million) % Thousand \in 0 .. Thousand - 1
    BY <2>1, Base, Divide
  <2> QED BY <2>2, <1>1 DEF s3
<1>4. s2(adv, rate) \in Nat /\ s2(adv, rate) <= Thousand * rate
  <2> DEFINE r == adv % Million
             b == r \div Thousand
  <2>1. r \in 0 .. Million - 1
    BY Base, Divide
  <2> HIDE DEF r
  <2>2. b \in Nat /\ r % Thousand \in 0 .. Thousand - 1 /\ r = b * Thousand + (r % Thousand)
    <3>1. r \in Nat
      BY <2>1, Base
    <3> QED BY <3>1, Base, Divide
  <2>3. b * Thousand < Thousand * Thousand
    BY <2>1, <2>2, Base
  <2>4. s2(adv, rate) = b * rate
    BY DEF s2, r
  <2> HIDE DEF b
  <2>5. b < Thousand
    <3>1. CASE b >= Thousand
      <4>1. b * Thousand >= Thousand * Thousand
        BY <3>1, <2>2, Base
      <4> QED BY <4>1, <2>3, <2>2, Base
    <3> QED BY <3>1, <2>2, Base
  <2> QED BY <2>2, <2>4, <2>5, <1>1, Base
<1>5. r1(adv, rate) \in Nat /\ r1(adv, rate) <= Thousand * rate
  <2>1. adv % rate \in 0 .. rate - 1
    BY Divide
  <2> QED BY <2>1, <1>2 DEF r1
<1>6. r2(adv, rate) <= (Thousand + 1) * rate
  <2>1. r1(adv, rate) % rate \in 0 .. rate - 1
    BY <1>5, Divide
  <2> DEFINE x == (r1(adv, rate) % rate) * Thousand
  <2>2. x \in Nat /\ x <= Thousand * rate /\ r2(adv, rate) = x + (rate - 1)
    BY <2>1, <1>2 DEF r2
  <2> HIDE DEF x
  <2>3. (Thousand + 1) * rate = Thousand * rate + rate
    BY Base, Distribute
  <2> QED BY <2>2, <2>3, Base
<1>7. frac + parts(adv, rate) < 3 * Million
  <2> DEFINE m == s2(adv, rate) % Thousand
             t == s3(adv, rate) % Million
  <2>1. m \in 0 .. Thousand - 1 /\ t \in 0 .. Million - 1
    BY <1>3, <1>4, Base, Divide
  <2>2. parts(adv, rate) = m * Thousand + t
    BY DEF parts
  <2> HIDE DEF m, t
  <2>3. m * Thousand \in Nat /\ m * Thousand < Million
    BY <2>1, Base
  <2> QED BY <2>1, <2>2, <2>3, Base
<1> QED BY <1>3, <1>4, <1>5, <1>6, <1>7

\* A thousand and the greatest rate (TMAX_DRIFT): less than a third of 2^32.
LEMMA DriftConstants == 3 * ((1000 + 1) * (1000 * 1000 + 100000)) < 65536 * 65536
OBVIOUS
=============================================================================
