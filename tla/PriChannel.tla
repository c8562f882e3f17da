----------------------------- MODULE PriChannel -----------------------------
(***************************************************************************)
(* What a priority data queue promises its users: up to `capacity'         *)
(* messages are stored, one queue for each message priority, 1 the highest.*)
(* A receiver gets the oldest message of the best priority. The messages   *)
(* of senders that wait for room take part only once they are stored, in   *)
(* the order in which their senders came.                                  *)
(***************************************************************************)
EXTENDS Integers, Sequences, SequencesExt

CONSTANTS
    Receiver, Message,
    maxdpri,        \* the lowest priority
    NULL            \* no message

Priority == 1 .. maxdpri

VARIABLES
    capacity,   \* how many messages are stored: chosen once and for all
    chan,       \* the stored messages of each priority, the oldest first
    pend,       \* the messages for which there is no room, with their priorities
    got         \* what each receiver got in the last step

channel_vars == <<capacity, chan, pend, got>>

Letter == [data : Message, datapri : Priority]

nothing == [r \in Receiver |-> NULL]

ChannelInit ==
    /\ capacity \in Nat
    /\ chan = [p \in Priority |-> << >>]
    /\ pend = << >>
    /\ got = nothing

Empty == \A p \in Priority : chan[p] = << >>
Best == CHOOSE p \in Priority : chan[p] # << >> /\ \A q \in 1 .. p - 1 : chan[q] = << >>
Count == FoldFunction(+, 0, [p \in Priority |-> Len(chan[p])])

Store(c, x) == [c EXCEPT ![x.datapri] = Append(@, x.data)]

Send ==
    /\ \E x \in Letter : IF Count < capacity THEN chan' = Store(chan, x) /\ UNCHANGED pend
                         ELSE pend' = Append(pend, x) /\ UNCHANGED chan
    /\ got' = nothing

Receive(r) ==
    \/ /\ ~Empty
       /\ got' = [nothing EXCEPT ![r] = [data |-> Head(chan[Best]), datapri |-> Best]]
       /\ LET rest == [chan EXCEPT ![Best] = Tail(@)]
          IN  IF pend = << >> THEN chan' = rest /\ UNCHANGED pend
              ELSE chan' = Store(rest, Head(pend)) /\ pend' = Tail(pend)
    \/ /\ Empty /\ pend # << >>     \* no room at all: straight from the sender
       /\ got' = [nothing EXCEPT ![r] = Head(pend)]
       /\ pend' = Tail(pend)
       /\ UNCHANGED chan

\* a message goes straight from its sender to a receiver that waits
Pass(r) ==
    /\ Empty /\ pend = << >>
    /\ \E x \in Letter : got' = [nothing EXCEPT ![r] = x]
    /\ UNCHANGED <<chan, pend>>

\* a sender gives up waiting for room
Withdraw ==
    /\ \E i \in 1 .. Len(pend) : pend' = RemoveAt(pend, i)
    /\ got' = nothing
    /\ UNCHANGED chan

Reset ==
    /\ chan' = [p \in Priority |-> << >>]
    /\ pend' = << >>
    /\ got' = nothing

\* the users do something else
Other == got' = nothing /\ UNCHANGED <<chan, pend>>

ChannelNext ==
    /\ \/ Send \/ Withdraw \/ Reset \/ Other
       \/ \E r \in Receiver : Receive(r) \/ Pass(r)
    /\ UNCHANGED capacity

ChannelSpec == ChannelInit /\ [][ChannelNext]_channel_vars
=============================================================================
