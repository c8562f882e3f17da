--------------------------- MODULE MessageChannel ---------------------------
(***************************************************************************)
(* What a message buffer promises its users: a first-in-first-out channel  *)
(* of messages of different sizes. The oldest messages are stored, as many *)
(* as there is room for up to the first that does not fit; it and those    *)
(* after it belong to senders that wait and may still take them back.      *)
(***************************************************************************)
EXTENDS Integers, Sequences, SequencesExt

CONSTANTS
    Receiver, Message,
    Size(_),        \* the room that a message takes
    NULL            \* no message

VARIABLES
    room,       \* the room there is for messages: chosen once and for all
    chan,       \* the messages, the oldest first
    got         \* the message each receiver got in the last step

channel_vars == <<room, chan, got>>

nothing == [r \in Receiver |-> NULL]

\* the room that the first n messages of c take
SizeOf(c, n) ==
    LET sum[i \in 0 .. n] == IF i = 0 THEN 0 ELSE sum[i - 1] + Size(c[i])
    IN  sum[n]

\* how many messages of c are stored
Fitting(c) ==
    CHOOSE n \in 0 .. Len(c) :
        /\ SizeOf(c, n) <= room
        /\ n < Len(c) => SizeOf(c, n + 1) > room

ChannelInit == room \in Nat /\ chan = << >> /\ got = nothing

Send == \E x \in Message : chan' = Append(chan, x) /\ got' = nothing

Receive(r) ==
    /\ chan # << >>
    /\ got' = [nothing EXCEPT ![r] = Head(chan)]
    /\ chan' = Tail(chan)

\* a message goes straight from its sender to a receiver that waits
Pass(r) ==
    /\ chan = << >>
    /\ \E x \in Message : got' = [nothing EXCEPT ![r] = x]
    /\ UNCHANGED chan

\* a sender gives up waiting for room
Withdraw ==
    /\ \E i \in Fitting(chan) + 1 .. Len(chan) : chan' = RemoveAt(chan, i)
    /\ got' = nothing

Reset == chan' = << >> /\ got' = nothing

\* the users do something else
Other == got' = nothing /\ UNCHANGED chan

ChannelNext ==
    /\ \/ Send \/ Withdraw \/ Reset \/ Other
       \/ \E r \in Receiver : Receive(r) \/ Pass(r)
    /\ UNCHANGED room

ChannelSpec == ChannelInit /\ [][ChannelNext]_channel_vars
=============================================================================
