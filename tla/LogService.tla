----------------------------- MODULE LogService -----------------------------
(***************************************************************************)
(* What the system log promises its readers: all messages in the order in  *)
(* which they were written, the last Size that nobody has read in full,    *)
(* and of those before them that there was one.                            *)
(***************************************************************************)
EXTENDS Integers, Sequences

CONSTANTS
    Message,
    Size,           \* how many messages are kept
    LOST,           \* in the place of a message that is not kept
    priority        \* of each message: those of the mask are logged

VARIABLES
    mask,       \* which messages are logged
    pending,    \* what is still to be read, the oldest first
    out         \* what has been read in the last step

service_vars == <<mask, pending, out>>

ServiceInit == pending = << >> /\ out = << >>

\* the last Size messages are kept
Kept(p) == [i \in 1 .. Len(p) |-> IF Len(p) - Size < i THEN p[i] ELSE LOST]

Write(m) ==
    /\ pending' = IF priority[m] \in mask THEN Kept(Append(pending, m)) ELSE pending
    /\ out' = << >>
    /\ UNCHANGED mask

\* up to a message; what is lost before it is read with it
Read(n) ==
    /\ pending[n] # LOST
    /\ out' = SubSeq(pending, 1, n)
    /\ pending' = SubSeq(pending, n + 1, Len(pending))
    /\ UNCHANGED mask

\* the mask is set, or there is nothing to read
Other == out' = << >> /\ UNCHANGED pending

ServiceNext ==
    \/ \E m \in Message : Write(m)
    \/ \E n \in 1 .. Len(pending) : Read(n)
    \/ Other

ServiceSpec == ServiceInit /\ [][ServiceNext]_service_vars
=============================================================================
