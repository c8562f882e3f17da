------------------------------ MODULE LogBuffer ------------------------------
(***************************************************************************)
(* The system log (syssvc/tSysLog.c): a ring buffer that is written and    *)
(* read in any context, with all interrupts locked. A message that finds   *)
(* the buffer full takes the place of the oldest, which is counted.        *)
(***************************************************************************)
EXTENDS Integers, Sequences

CONSTANTS
    Message,
    Priority, priority,     \* of each message
    logBufferSize,
    LOST                    \* for the mapping: a message that was lost

ASSUME LogAssumption ==
    /\ logBufferSize \in Nat \ {0}
    /\ priority \in [Message -> Priority]
    /\ LOST \notin Message

VARIABLES
    logBuffer, count, head, tail, lost, logMask,
    got     \* what was read in the last step: [lost, messages]

log_vars == <<logBuffer, count, head, tail, lost, logMask, got>>

Slot == 0 .. logBufferSize - 1
nothing == [lost |-> 0, messages |-> << >>]

\* the index that is i further, for i up to the size of the buffer
further(x, i) == IF x + i >= logBufferSize THEN x + i - logBufferSize ELSE x + i

stored == [i \in 1 .. count |-> logBuffer[further(head, i - 1)]]

\* nothing is in the buffer, whatever it holds
LogInit ==
    /\ logBuffer \in [Slot -> Message]
    /\ count = 0 /\ head = 0 /\ tail = 0 /\ lost = 0
    /\ logMask = Priority
    /\ got = nothing

-----------------------------------------------------------------------------
\* mutant: the message that is overwritten is still the next to be read
Bug_record(m) ==
    /\ logBuffer' = [logBuffer EXCEPT ![tail] = m]
    /\ tail' = further(tail, 1)
    /\ IF count < logBufferSize
       THEN count' = count + 1 /\ UNCHANGED <<head, lost>>
       ELSE lost' = lost + 1 /\ UNCHANGED <<head, count>>

record(m) ==
    /\ logBuffer' = [logBuffer EXCEPT ![tail] = m]
    /\ tail' = further(tail, 1)
    /\ IF count < logBufferSize
       THEN count' = count + 1 /\ UNCHANGED <<head, lost>>
       ELSE head' = tail' /\ lost' = lost + 1 /\ UNCHANGED count

eSysLog_write(m) ==
    /\ IF priority[m] \in logMask
       THEN record(m) ELSE UNCHANGED <<logBuffer, count, head, tail, lost>>
    /\ got' = nothing
    /\ UNCHANGED logMask

eSysLog_read ==
    /\ IF count > 0
       THEN /\ got' = [lost |-> lost, messages |-> <<logBuffer[head]>>]
            /\ count' = count - 1
            /\ head' = further(head, 1)
            /\ lost' = 0
       ELSE got' = nothing /\ UNCHANGED <<count, head, lost>>
    /\ UNCHANGED <<logBuffer, tail, logMask>>

eSysLog_mask(mask) ==
    /\ logMask' = mask
    /\ got' = nothing
    /\ UNCHANGED <<logBuffer, count, head, tail, lost>>

\* eSysLog_read until the buffer is empty, with the interrupts locked
eSysLog_flush ==
    /\ IF count > 0
       THEN /\ got' = [lost |-> lost, messages |-> stored]
            /\ count' = 0
            /\ head' = further(head, count)
            /\ lost' = 0
       ELSE got' = nothing /\ UNCHANGED <<count, head, lost>>
    /\ UNCHANGED <<logBuffer, tail, logMask>>

LogNext ==
    \/ \E m \in Message : eSysLog_write(m)
    \/ \E mask \in SUBSET Priority : eSysLog_mask(mask)
    \/ eSysLog_read \/ eSysLog_flush

LogSpec == LogInit /\ [][LogNext]_log_vars

-----------------------------------------------------------------------------
(* The indices and the count agree, and a loss is never forgotten: as long *)
(* as there is one to report, there is a message to report it with.        *)
LogOK ==
    /\ logBuffer \in [Slot -> Message]
    /\ count \in 0 .. logBufferSize /\ head \in Slot /\ tail \in Slot
    /\ tail = further(head, count)
    /\ lost \in Nat
    /\ lost > 0 => count = logBufferSize

(* Messages are read in the order in which they were written; what is lost *)
(* is the oldest, and it is counted once, with the message behind it.      *)
with_lost(n, messages) ==
    [i \in 1 .. n + Len(messages) |-> IF i <= n THEN LOST ELSE messages[i - n]]

Service == INSTANCE LogService WITH
    Size <- logBufferSize,
    mask <- logMask,
    pending <- with_lost(lost, stored),
    out <- with_lost(got.lost, got.messages)

ImplementsLog == Service!ServiceSpec
=============================================================================
