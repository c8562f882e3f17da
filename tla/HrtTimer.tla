------------------------------ MODULE HrtTimer ------------------------------
(***************************************************************************)
(* The high resolution timer of the RZ/A1 (arch/arm_gcc/rza1/chip_timer.h  *)
(* and chip_timer.c): a free-running counter of 32 bits that counts 100    *)
(* times in 3 microseconds and interrupts when it gets to its compare      *)
(* register. The driver converts between its counts and those of the       *)
(* kernel's HRTCNT, in 32-bit arithmetic, and the counter goes on while it *)
(* sets the compare register.                                              *)
(***************************************************************************)
EXTENDS Integers

CONSTANTS
    CYCLE,          \* of the counter and of a uint32_t: 2^32
    BLOCK,          \* so many counts are converted apart: 1000000000
    TCYC_HRTCNT,    \* the cycle of the HRTCNT: 128849019
    HRTCNT_BOUND,   \* the most that an interrupt is set ahead: 100000002
    Hrtcnt,         \* the times for which it is set
    SetAt,          \* bound: the counts at which setting it begins
    MaxCounts       \* bound: the counts that setting or serving it takes

U32(x) == x % CYCLE

(* What the conversions rest on: nothing overflows, the few counts that    *)
(* the blocks add stay below a microsecond, and a cycle of the counter is  *)
(* a whole number of microseconds as it is read.                           *)
ASSUME HrtAssumption ==
    /\ CYCLE \in Nat /\ BLOCK \in Nat \ {0} /\ BLOCK % 100 = 0
    /\ 3 * (BLOCK + CYCLE \div BLOCK) < CYCLE
    /\ TCYC_HRTCNT \in Nat
    /\ 3 * (CYCLE + CYCLE \div BLOCK) = 100 * TCYC_HRTCNT
    /\ CYCLE % BLOCK # 0 /\ CYCLE \div BLOCK <= 30
    /\ HRTCNT_BOUND \in Nat /\ HRTCNT_BOUND + 1 < TCYC_HRTCNT
    /\ MaxCounts \in Nat
    /\ HRTCNT_BOUND * 33 + HRTCNT_BOUND \div 3 + 1 + MaxCounts < CYCLE
    /\ Hrtcnt \subseteq 1 .. HRTCNT_BOUND
    /\ SetAt \subseteq 0 .. CYCLE - 1

VARIABLES
    cnt,        \* OSTM_CNT
    cmp,        \* OSTM_CMP
    intreq,     \* whether the interrupt is requested (pending in the GIC)
    pc,         \* where target_hrt_set_event is, then "armed"
    hrtcnt,     \* its argument
    current,    \* the count it has read
    passed      \* history: the counts since then

hrt_vars == <<cnt, cmp, intreq, pc, hrtcnt, current, passed>>

Count == 0 .. CYCLE - 1

\* mutant: the conversion overflows
Bug_hrt_reading(c) == U32(c * 3) \div 100

\* target_hrt_get_current for the count c
hrt_reading(c) ==
    LET c1 == c \div BLOCK
    IN  U32((c - c1 * (BLOCK - 1)) * 3) \div 100 + c1 * ((BLOCK * 3) \div 100)

\* mutant: the time is rounded down
Bug_counts(h) == U32(h * 33 + h \div 3)

\* cnt of target_hrt_set_event
counts(h) == U32(h * 33 + h \div 3 + 1)

HrtInit ==
    /\ cnt \in Count /\ cmp = CYCLE - 1 /\ intreq = FALSE
    /\ pc = "idle" /\ hrtcnt = 0 /\ current = 0 /\ passed = 0

-----------------------------------------------------------------------------
setting == pc \in {"read", "written"}

\* the counter goes on; the request of an armed timer is served in time
tick ==
    /\ setting => passed < MaxCounts
    /\ pc = "armed" /\ intreq => passed < counts(hrtcnt) + MaxCounts
    /\ cnt' = U32(cnt + 1)
    /\ intreq' = (intreq \/ cnt' = cmp)
    /\ passed' = IF pc = "idle" THEN 0 ELSE passed + 1
    /\ UNCHANGED <<cmp, pc, hrtcnt, current>>

(* target_hrt_set_event. The write may find the counter at the value it    *)
(* writes: the interrupt may then be requested or not.                     *)
set_event(h) ==
    /\ ~setting /\ cnt \in SetAt
    /\ pc' = "read"
    /\ hrtcnt' = h /\ current' = cnt /\ passed' = 0
    /\ UNCHANGED <<cnt, cmp, intreq>>

set_event_write ==
    /\ pc = "read"
    /\ pc' = "written"
    /\ cmp' = U32(current + counts(hrtcnt))
    /\ intreq' \in IF cmp' = cnt THEN {intreq, TRUE} ELSE {intreq}
    /\ UNCHANGED <<cnt, hrtcnt, current, passed>>

\* mutant: an interrupt that the counter has overtaken is not requested
Bug_set_event_check ==
    /\ pc = "written"
    /\ pc' = "armed"
    /\ UNCHANGED <<intreq, cnt, cmp, hrtcnt, current, passed>>

set_event_check ==
    /\ pc = "written"
    /\ pc' = "armed"
    /\ intreq' = (intreq \/ U32(cnt - current) >= counts(hrtcnt))
    /\ UNCHANGED <<cnt, cmp, hrtcnt, current, passed>>

target_hrt_raise_event ==
    /\ ~setting
    /\ intreq' = TRUE
    /\ UNCHANGED <<cnt, cmp, pc, hrtcnt, current, passed>>

\* the interrupt is taken: target_hrt_handler calls signal_time
target_hrt_handler ==
    /\ ~setting /\ intreq
    /\ intreq' = FALSE /\ pc' = "idle"
    /\ passed' = 0 /\ hrtcnt' = 0 /\ current' = 0
    /\ UNCHANGED <<cnt, cmp>>

HrtNext ==
    \/ tick \/ set_event_write \/ set_event_check
    \/ target_hrt_raise_event \/ target_hrt_handler
    \/ \E h \in Hrtcnt : set_event(h)

HrtSpec == HrtInit /\ [][HrtNext]_hrt_vars

-----------------------------------------------------------------------------
HrtTypeOK ==
    /\ cnt \in Count /\ cmp \in Count /\ current \in Count
    /\ intreq \in BOOLEAN /\ passed \in Nat
    /\ pc \in {"idle", "read", "written", "armed"}
    /\ IF pc = "idle" THEN hrtcnt = 0 ELSE hrtcnt \in Hrtcnt

(* The interrupt set for hrtcnt is requested in time, however far the      *)
(* counter gets while it is set (target_hrt_set_event reads it again after *)
(* the write): what is still missing is what the counter has to go to the  *)
(* compare register, and never a whole cycle more.                         *)
HrtInTime ==
    pc = "armed" /\ ~intreq =>
        passed < counts(hrtcnt) /\ U32(cmp - cnt) = counts(hrtcnt) - passed

(* As the kernel reads the time, also across the end of a cycle, it goes on*)
(* by one at most with each count, never back, and it has gone on by hrtcnt*)
(* at least when the interrupt that was set for it is requested.           *)
advance(c, d) == (hrt_reading(d) - hrt_reading(c)) % TCYC_HRTCNT

HrtSteady ==
    [][/\ advance(cnt, cnt') \in {0, 1}
       /\ pc = "armed" /\ ~intreq /\ intreq' /\ tick =>
            advance(current, cnt') \in {hrtcnt, hrtcnt + 1}]_hrt_vars
=============================================================================
