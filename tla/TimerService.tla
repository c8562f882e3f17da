---------------------------- MODULE TimerService ----------------------------
(***************************************************************************)
(* What the time event management promises: every started event has a due  *)
(* time, on a clock that never wraps around; it occurs once that time has  *)
(* come, not before and not before an event that was due earlier. The      *)
(* clock is read now and then, and all due times are relative to the last  *)
(* reading.                                                                *)
(***************************************************************************)
EXTENDS Integers

CONSTANTS
    Event,
    NONE,
    period,     \* of the cyclic events
    Delay,      \* after which an event can be asked for
    Shift       \* by which the clock can be adjusted

VARIABLES
    left,       \* the time left for each started event at the last reading
    elapsed     \* the time since the last reading

service_vars == <<left, elapsed>>

ServiceInit ==
    /\ left \in [Event -> Delay \cup {NONE}]
    /\ elapsed = 0

\* the times left when the clock is read again, s ahead of its reading
Read(s) == [e \in Event |-> IF left[e] = NONE THEN NONE ELSE left[e] - elapsed - s]

Tick == elapsed' = elapsed + 1 /\ UNCHANGED left

Look == left' = Read(0) /\ elapsed' = 0

Start(e) == \E d \in Delay : left' = [Read(0) EXCEPT ![e] = d] /\ elapsed' = 0

\* with or without a look at the clock
Stop(e) ==
    \/ left' = [Read(0) EXCEPT ![e] = NONE] /\ elapsed' = 0
    \/ left' = [left EXCEPT ![e] = NONE] /\ UNCHANGED elapsed

Adjust == \E s \in Shift : left' = Read(s) /\ elapsed' = 0

Occur(e) ==
    /\ left[e] # NONE /\ left[e] <= 0
    /\ \A o \in Event : left[o] # NONE => left[e] <= left[o]
    /\ left' = [left EXCEPT ![e] = IF e \in DOMAIN period THEN @ + period[e] ELSE NONE]
    /\ UNCHANGED elapsed

ServiceNext ==
    \/ Tick \/ Look \/ Adjust
    \/ \E e \in Event : Start(e) \/ Stop(e) \/ Occur(e)

ServiceSpec == ServiceInit /\ [][ServiceNext]_service_vars
=============================================================================
