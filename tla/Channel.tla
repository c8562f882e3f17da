------------------------------ MODULE Channel ------------------------------
(***************************************************************************)
(* What a data queue promises its users: a first-in-first-out channel. Its *)
(* first `capacity' messages are stored, those after them belong to        *)
(* senders that wait for room and may still take them back. A receiver     *)
(* gets the oldest message. A forced send drops the oldest stored message  *)
(* and is stored before the messages that wait for room.                   *)
(***************************************************************************)
EXTENDS Integers, Sequences, SequencesExt

CONSTANTS
    Receiver, Message,
    NULL            \* no message

VARIABLES
    capacity,   \* how many messages are stored: chosen once and for all
    chan,       \* the messages, the oldest first
    got         \* the message each receiver got in the last step

channel_vars == <<capacity, chan, got>>

nothing == [r \in Receiver |-> NULL]

ChannelInit == capacity \in Nat /\ chan = << >> /\ got = nothing

Send == \E x \in Message : chan' = Append(chan, x) /\ got' = nothing

Receive(r) ==
    /\ chan # << >>
    /\ got' = [nothing EXCEPT ![r] = Head(chan)]
    /\ chan' = Tail(chan)

\* a message goes straight from its sender to a receiver that waits
Pass(r) ==
    /\ chan = << >>
    /\ \E x \in Message : got' = [nothing EXCEPT ![r] = x]
    /\ UNCHANGED chan

Force ==
    /\ capacity > 0
    /\ Len(chan) >= capacity
    /\ \E x \in Message : chan' = InsertAt(Tail(chan), capacity, x)
    /\ got' = nothing

\* a sender gives up waiting for room
Withdraw ==
    /\ \E i \in capacity + 1 .. Len(chan) : chan' = RemoveAt(chan, i)
    /\ got' = nothing

Reset == chan' = << >> /\ got' = nothing

\* the users do something else
Other == got' = nothing /\ UNCHANGED chan

ChannelNext ==
    /\ \/ Send \/ Force \/ Withdraw \/ Reset \/ Other
       \/ \E r \in Receiver : Receive(r) \/ Pass(r)
    /\ UNCHANGED capacity

ChannelSpec == ChannelInit /\ [][ChannelNext]_channel_vars
=============================================================================
