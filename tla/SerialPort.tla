----------------------------- MODULE SerialPort -----------------------------
(***************************************************************************)
(* The serial interface driver (syssvc/tSerialPortMain.c) over the driver  *)
(* of the SCIF (arch/arm_gcc/rza1/tSCIF.c): tasks write to and read from a *)
(* port, each holding the semaphore of its direction while it does; the    *)
(* interrupts of the SCIF fill and empty the buffers of the port between   *)
(* any two of their CPU-locked sections. XON/XOFF both ways, echo, and LF  *)
(* sent as CR LF.                                                          *)
(*                                                                         *)
(* The ring buffers are sequences. A semaphore is its count: one that is   *)
(* handed to a waiting task counts 1 until the task goes on.               *)
(***************************************************************************)
EXTENDS Integers, Sequences

CONSTANTS
    Task,           \* the tasks that call the driver
    Char,           \* the characters without a meaning to it
    Received,       \* the characters that arrive
    Strings,        \* what is written
    Lengths,        \* how many characters are read
    Controls,       \* what ioControl is set to, sets of IOCTL_xxx
    BUFSZ,          \* ATTR_sendBufferSize, ATTR_receiveBufferSize
    FIFO            \* the characters after which SCFSR.TDFE goes off

LF == "LF"
CR == "CR"
FC_STOP == "STOP"
FC_START == "START"
NUL == "NUL"        \* '\0' of receiveFlowControl
IOCTL == {"ECHO", "CRLF", "FCSND", "FCANY", "FCRCV"}

ASSUME SerialAssumption ==
    /\ Strings \subseteq Seq(Char \cup {LF}) \ {<<>>}
    /\ Received \subseteq Char \cup {LF, FC_STOP, FC_START}
    /\ Lengths \subseteq Nat \ {0}
    /\ Controls \subseteq SUBSET IOCTL
    /\ BUFSZ \in Nat \ {0} /\ FIFO \in Nat \ {0}

BUFCNT_STOP == (BUFSZ * 3) \div 4
BUFCNT_START == BUFSZ \div 2

VARIABLES
    s,      \* the VAR_xxx of the port and its semaphores
    sio,    \* the SCIF: its FIFO, what is enabled in SCSCR, initialized
    call    \* [Task -> what the task is about to do in its call]

serial_vars == <<s, sio, call>>

Idle == [at |-> "idle", op |-> "none", out |-> <<>>, left |-> 0, empty |-> TRUE]

SerialInit ==
    /\ s = [ openFlag |-> FALSE, errorFlag |-> FALSE, ioControl |-> {},
             receiveBuffer |-> <<>>, receiveFlowControl |-> NUL,
             receiveStopped |-> FALSE, sendBuffer |-> <<>>, sendStopped |-> FALSE,
             SendSemaphore |-> 1, ReceiveSemaphore |-> 0 ]
    /\ sio = [ fifo |-> <<>>, TE |-> FALSE, TIE |-> FALSE, RIE |-> FALSE,
               initialized |-> FALSE ]
    /\ call = [t \in Task |-> Idle]

-----------------------------------------------------------------------------
(* The SCIF. p is <<s, sio>>.                                              *)
putready(p) == Len(p[2].fifo) < FIFO

put(p, c) == <<p[1], [p[2] EXCEPT !.fifo = Append(@, c)]>>

\* eSIOPort_putChar, of which a callback ignores the result
putChar(p, c) == IF putready(p) THEN put(p, c) ELSE p

enable_send(p) == <<p[1], [p[2] EXCEPT !.TIE = TRUE]>>

\* after serialPort_sendChar, which is true if the SCIF was ready
sent(p, c) == IF putready(p) THEN put(p, c) ELSE enable_send(p)

send_flow(p, c) ==
    LET q == sent(p, c)
    IN  IF putready(p) THEN q ELSE <<[q[1] EXCEPT !.receiveFlowControl = c], q[2]>>

\* the semaphores: a signal to one that is 1 already is an error (E_QOVR)
signal_send(v) ==
    IF v.SendSemaphore = 1 THEN [v EXCEPT !.errorFlag = TRUE]
                           ELSE [v EXCEPT !.SendSemaphore = 1]
signal_receive(v) ==
    IF v.ReceiveSemaphore = 1 THEN [v EXCEPT !.errorFlag = TRUE]
                              ELSE [v EXCEPT !.ReceiveSemaphore = 1]

-----------------------------------------------------------------------------
(* Opening and closing, with dispatching disabled and the CPU locked. The  *)
(* SCIF is initialized once: closing it clears SCSCR, opening it again     *)
(* does not set TE and RE again.                                           *)
eSerialPort_open(t) ==
    /\ call[t].at = "idle" /\ ~s.openFlag
    /\ s' = [ s EXCEPT !.openFlag = TRUE, !.errorFlag = FALSE,
                       !.ioControl = {"ECHO", "CRLF", "FCSND", "FCRCV"},
                       !.receiveBuffer = <<>>, !.receiveFlowControl = NUL,
                       !.receiveStopped = FALSE, !.sendBuffer = <<>>,
                       !.sendStopped = FALSE ]
    /\ sio' = [ sio EXCEPT !.TE = @ \/ ~sio.initialized, !.RIE = TRUE,
                           !.initialized = TRUE ]
    /\ UNCHANGED call

waiting(t) ==
    \/ call[t].at \in {"sndwait", "crwait"} /\ s.SendSemaphore = 0
    \/ call[t].at = "rcvwait" /\ s.ReceiveSemaphore = 0

\* the semaphores are initialized: whoever waits for one gets E_DLT
eSerialPort_close(t) ==
    /\ call[t].at = "idle" /\ s.openFlag
    /\ s' = [ s EXCEPT !.openFlag = FALSE, !.SendSemaphore = 1, !.ReceiveSemaphore = 0 ]
    /\ sio' = [ sio EXCEPT !.TE = FALSE, !.TIE = FALSE, !.RIE = FALSE ]
    /\ call' = [u \in Task |-> IF waiting(u) THEN Idle ELSE call[u]]

usable == s.openFlag /\ ~s.errorFlag

eSerialPort_control(t, ioctl) ==
    /\ call[t].at = "idle" /\ usable
    /\ s' = [s EXCEPT !.ioControl = ioctl]
    /\ UNCHANGED <<sio, call>>

-----------------------------------------------------------------------------
(* Writing. c is the record of the call.                                   *)
eSerialPort_write(t, buffer) ==
    /\ call[t].at = "idle" /\ usable
    /\ call' = [call EXCEPT ![t] = [Idle EXCEPT !.at = "sndwait", !.op = "write",
                                                !.out = buffer]]
    /\ UNCHANGED <<s, sio>>

\* where eSerialPort_read goes on
next_read(c) ==
    CASE c.left > 0 -> [c EXCEPT !.at = IF c.empty THEN "rcvwait" ELSE "readchar"]
      [] c.left = 0 /\ ~c.empty -> [c EXCEPT !.at = "rcvsignal"]
      [] OTHER -> Idle

\* where the call goes on after a character is out
next_write(c, buffer_full) ==
    CASE c.out # <<>> -> [c EXCEPT !.at = IF buffer_full THEN "sndwait" ELSE "putchar"]
      [] c.out = <<>> /\ ~buffer_full -> [c EXCEPT !.at = "sndsignal"]
      [] OTHER -> IF c.op = "read" THEN next_read(c) ELSE Idle

send_wait(t) ==
    /\ call[t].at \in {"sndwait", "crwait"} /\ s.SendSemaphore = 1
    /\ s' = [s EXCEPT !.SendSemaphore = 0]
    /\ call' = [call EXCEPT ![t].at = IF @ = "crwait" THEN "putlf" ELSE "putchar"]
    /\ UNCHANGED sio

\* mutant: a character overtakes those in the buffer
Bug_store_or_send(p, c) ==
    LET store(q) == <<[q[1] EXCEPT !.sendBuffer = Append(@, c)], q[2]>>
    IN  IF p[1].sendStopped THEN store(p)
        ELSE IF putready(p) THEN sent(p, c) ELSE store(sent(p, c))

\* the CPU-locked section of serialPort_writeChar
store_or_send(p, c) ==
    LET store(q) == <<[q[1] EXCEPT !.sendBuffer = Append(@, c)], q[2]>>
    IN  IF p[1].sendBuffer # <<>> \/ p[1].sendStopped THEN store(p)
        ELSE IF putready(p) THEN sent(p, c) ELSE store(sent(p, c))

\* whether it has filled the buffer
filled(p, q) == p[1].sendBuffer # q[1].sendBuffer /\ Len(q[1].sendBuffer) = BUFSZ

serialPort_writeChar(t) ==
    LET c == call[t]
        p == <<s, sio>>
        cr == /\ c.at = "putchar"
              /\ Head(c.out) = LF /\ "CRLF" \in s.ioControl
        q == store_or_send(p, IF cr THEN CR ELSE Head(c.out))
    IN  /\ c.at \in {"putchar", "putlf"}
        /\ s' = q[1] /\ sio' = q[2]
        /\ call' = [call EXCEPT ![t] =
                IF cr THEN [c EXCEPT !.at = IF filled(p, q) THEN "crwait" ELSE "putlf"]
                      ELSE next_write([c EXCEPT !.out = Tail(@)], filled(p, q))]

send_signal(t) ==
    /\ call[t].at = "sndsignal"
    /\ s' = signal_send(s)
    /\ call' = [call EXCEPT ![t] =
            IF s.SendSemaphore = 0 /\ @.op = "read" THEN next_read(@) ELSE Idle]
    /\ UNCHANGED sio

-----------------------------------------------------------------------------
(* Reading.                                                                *)
eSerialPort_read(t, length) ==
    /\ call[t].at = "idle" /\ usable
    /\ call' = [call EXCEPT ![t] = [Idle EXCEPT !.at = "rcvwait", !.op = "read",
                                                !.left = length]]
    /\ UNCHANGED <<s, sio>>

receive_wait(t) ==
    /\ call[t].at = "rcvwait" /\ s.ReceiveSemaphore = 1
    /\ s' = [s EXCEPT !.ReceiveSemaphore = 0]
    /\ call' = [call EXCEPT ![t].at = "readchar"]
    /\ UNCHANGED sio

\* serialPort_readChar, and whether the character is echoed
serialPort_readChar(t) ==
    LET ch == Head(s.receiveBuffer)
        rest == Tail(s.receiveBuffer)
        p == <<[s EXCEPT !.receiveBuffer = rest], sio>>
        restart == s.receiveStopped /\ Len(rest) <= BUFCNT_START
        q == IF restart THEN send_flow(p, FC_START) ELSE p
        c == [call[t] EXCEPT !.left = @ - 1, !.empty = rest = <<>>]
    IN  /\ call[t].at = "readchar"
        /\ s' = IF restart THEN [q[1] EXCEPT !.receiveStopped = FALSE] ELSE q[1]
        /\ sio' = q[2]
        /\ call' = [call EXCEPT ![t] =
                IF "ECHO" \in s.ioControl THEN [c EXCEPT !.at = "sndwait", !.out = <<ch>>]
                                          ELSE next_read(c)]

receive_signal(t) ==
    /\ call[t].at = "rcvsignal"
    /\ s' = signal_receive(s)
    /\ call' = [call EXCEPT ![t] = Idle]
    /\ UNCHANGED sio

\* rel_wai or ras_ter: the call returns at once (error_exit), also from the
\* wait of an echo, and then without a signal to the receive semaphore
release(t) ==
    /\ waiting(t)
    /\ call' = [call EXCEPT ![t] = Idle]
    /\ UNCHANGED <<s, sio>>

-----------------------------------------------------------------------------
(* The interrupts of the SCIF. No task runs until they return.             *)

\* what a callback sends from the buffer is gone from it
Bug_taken(v) ==
    LET w == [v EXCEPT !.sendBuffer = Tail(@)]
    IN  IF Len(w.sendBuffer) = BUFSZ THEN signal_send(w) ELSE w

taken(v) ==
    LET w == [v EXCEPT !.sendBuffer = Tail(@)]
    IN  IF Len(v.sendBuffer) = BUFSZ THEN signal_send(w) ELSE w

\* eiSIOCBR_readySend, called by eiTxISR_main
eiSIOCBR_readySend ==
    LET p == <<s, sio>> IN
    /\ sio.TIE /\ putready(p)
    /\ \/ /\ s.receiveFlowControl # NUL
          /\ LET q == putChar(p, s.receiveFlowControl)
             IN  s' = [q[1] EXCEPT !.receiveFlowControl = NUL] /\ sio' = q[2]
       \/ /\ s.receiveFlowControl = NUL
          /\ ~s.sendStopped /\ s.sendBuffer # <<>>
          /\ LET q == putChar(p, Head(s.sendBuffer))
             IN  s' = taken(q[1]) /\ sio' = q[2]
       \/ /\ s.receiveFlowControl = NUL
          /\ s.sendStopped \/ s.sendBuffer = <<>>
          /\ sio' = [sio EXCEPT !.TIE = FALSE]
          /\ UNCHANGED s
    /\ UNCHANGED call

\* STOP and START received
stop(c) == "FCSND" \in s.ioControl /\ c = FC_STOP
restart(c) == ~stop(c) /\ s.sendStopped /\ (c = FC_START \/ "FCANY" \in s.ioControl)
flow(c) == stop(c) \/ restart(c) \/ ("FCSND" \in s.ioControl /\ c = FC_START)

\* eiSIOCBR_readyReceive, called by eiRxISR_main with the character c
send_stopped(c) ==
    /\ stop(c)
    /\ s' = [s EXCEPT !.sendStopped = TRUE]
    /\ UNCHANGED sio

send_restarted(c) ==
    LET p == <<[s EXCEPT !.sendStopped = FALSE], sio>>
        r == IF s.sendBuffer = <<>> THEN p ELSE sent(p, Head(s.sendBuffer))
        q == IF s.sendBuffer # <<>> /\ putready(p) THEN <<taken(r[1]), r[2]>> ELSE r
    IN  restart(c) /\ s' = q[1] /\ sio' = q[2]

received(c) ==
    LET v == [s EXCEPT !.receiveBuffer = Append(@, c)]
        p == <<IF s.receiveBuffer = <<>> THEN signal_receive(v) ELSE v, sio>>
        full == /\ "FCRCV" \in s.ioControl /\ ~s.receiveStopped
                /\ Len(v.receiveBuffer) >= BUFCNT_STOP
        q == IF full THEN send_flow(p, FC_STOP) ELSE p
    IN  /\ ~flow(c) /\ Len(s.receiveBuffer) < BUFSZ
        /\ s' = IF full THEN [q[1] EXCEPT !.receiveStopped = TRUE] ELSE q[1]
        /\ sio' = q[2]

eiSIOCBR_readyReceive(c) ==
    /\ sio.RIE /\ sio.TE
    /\ send_stopped(c) \/ send_restarted(c) \/ received(c)
    /\ UNCHANGED call

\* the SCIF sends a character
transmit ==
    /\ sio.TE /\ sio.fifo # <<>>
    /\ sio' = [sio EXCEPT !.fifo = Tail(@)]
    /\ UNCHANGED <<s, call>>

-----------------------------------------------------------------------------
\* bound: the port is closed when no call is under way other than waiting
quiet == \A t \in Task : call[t].at = "idle" \/ waiting(t)

SerialNext ==
    \/ \E t \in Task :
         \/ eSerialPort_open(t)
         \/ quiet /\ eSerialPort_close(t)
         \/ \E ioctl \in Controls : eSerialPort_control(t, ioctl)
         \/ \E buffer \in Strings : eSerialPort_write(t, buffer)
         \/ \E length \in Lengths : eSerialPort_read(t, length)
         \/ send_wait(t) \/ serialPort_writeChar(t) \/ send_signal(t)
         \/ receive_wait(t) \/ serialPort_readChar(t) \/ receive_signal(t)
         \/ release(t)
    \/ eiSIOCBR_readySend \/ transmit
    \/ \E c \in Received : eiSIOCBR_readyReceive(c)

SerialSpec == SerialInit /\ [][SerialNext]_serial_vars

-----------------------------------------------------------------------------
sending(t) == call[t].at \in {"putchar", "putlf", "sndsignal"}
reading(t) ==
    \/ call[t].at \in {"readchar", "rcvsignal"}
    \/ call[t].op = "read" /\ ~call[t].empty
Once(x, P(_), z) ==
    \/ x = 1 /\ ~z /\ \A t \in Task : ~P(t)
    \/ x = 0 /\ z /\ \A t \in Task : ~P(t)
    \/ x = 0 /\ ~z /\ \E t \in Task : P(t) /\ \A u \in Task \ {t} : ~P(u)
AtMostOnce(x, P(_), z) ==
    /\ x = 1 => ~z /\ \A t \in Task : ~P(t)
    /\ \A t \in Task : P(t) => ~z /\ \A u \in Task \ {t} : ~P(u)

(* The right to send is in one place, and only one: at the semaphore, with *)
(* a task that is about to send or to give it back, or with the interrupt  *)
(* that will find the send buffer full. It is not lost when an interrupt   *)
(* comes between two sections of a call or a call is released. The right   *)
(* to receive, which the interrupt has while the receive buffer is empty,  *)
(* is never in two places, but see ReceivedIsRead. So no signal finds a    *)
(* semaphore at its maximum, which would put the port out of use, and no   *)
(* two readers take from the buffer at once, nor one from an empty buffer. *)
SerialOK ==
    /\ Len(s.sendBuffer) <= BUFSZ /\ Len(s.receiveBuffer) <= BUFSZ
    /\ ~s.errorFlag
    /\ s.openFlag =>
         /\ Once(s.SendSemaphore, sending, Len(s.sendBuffer) = BUFSZ)
         /\ AtMostOnce(s.ReceiveSemaphore, reading, s.receiveBuffer = <<>>)

(* serial_rea_dat (doc/user.txt) waits until it has received its characters*)
(* and no longer: while characters are in the receive buffer, a call that  *)
(* waits for one finds the semaphore signalled, or another call reads them.*)
(* Otherwise it waits for good, since the interrupt signals the semaphore  *)
(* only for the first character in an empty buffer.                        *)
ReceivedIsRead ==
    s.openFlag /\ s.receiveBuffer # <<>> /\ (\E t \in Task : call[t].at = "rcvwait") =>
        s.ReceiveSemaphore = 1 \/ \E t \in Task : reading(t)

(* Nothing is lost, doubled or overtaken on the way out, between writers,  *)
(* echo, START and STOP and the interrupts: what is to be sent grows only  *)
(* by the character that is being written, at its end, and shrinks only by *)
(* the one that is sent, at its start.                                     *)
Data(c) == c \notin {FC_STOP, FC_START}
Outgoing == SelectSeq(sio.fifo, Data) \o s.sendBuffer

StreamKept ==
    [][s'.openFlag /\ s.openFlag =>
         \/ Outgoing' = Outgoing
         \/ /\ \E t \in Task : serialPort_writeChar(t)
            /\ \E c \in Char \cup {CR, LF} : Outgoing' = Append(Outgoing, c)
         \/ transmit /\ Outgoing' = Tail(Outgoing)]_serial_vars

(* IOCTL_FCSND (doc/user.txt): sending goes on when START is received. What*)
(* is in the buffer is sent while nothing keeps the port from sending it.  *)
may_send == s.openFlag /\ ~s.sendStopped

SendGoesOn ==
    (may_send /\ s.sendBuffer # <<>>) ~> (~may_send \/ sio.fifo # <<>>)
=============================================================================
