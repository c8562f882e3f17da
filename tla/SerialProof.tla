---------------------------- MODULE SerialProof ----------------------------
(***************************************************************************)
(* Proofs about SerialPort, for any number of tasks and any sizes of the   *)
(* buffers and of the FIFO: the right to send is always in one place, and  *)
(* the right to receive is never in two.                                   *)
(***************************************************************************)
EXTENDS SerialPort, TLAPS

Chr == Char \cup {LF, CR, FC_STOP, FC_START}

PortState ==
    [ openFlag : BOOLEAN, errorFlag : BOOLEAN, ioControl : SUBSET IOCTL,
      receiveBuffer : Seq(Chr), receiveFlowControl : Chr \cup {NUL},
      receiveStopped : BOOLEAN, sendBuffer : Seq(Chr), sendStopped : BOOLEAN,
      SendSemaphore : {0, 1}, ReceiveSemaphore : {0, 1} ]

ScifState ==
    [ fifo : Seq(Chr), TE : BOOLEAN, TIE : BOOLEAN, RIE : BOOLEAN, initialized : BOOLEAN ]

CallState ==
    [ at : {"idle", "sndwait", "crwait", "putchar", "putlf", "sndsignal",
            "rcvwait", "readchar", "rcvsignal"},
      op : {"none", "write", "read"}, out : Seq(Chr), left : Nat, empty : BOOLEAN ]

(* The place a call is at agrees with what it has to do.                   *)
Calling(c) ==
    /\ c \in CallState
    /\ c.at = "idle" => c = Idle
    /\ c.at \in {"sndwait", "crwait", "putchar", "putlf"} => c.out # <<>>
    /\ c.at \in {"sndwait", "crwait", "putchar", "putlf", "sndsignal"} => c.op # "none"
    /\ c.at \in {"rcvwait", "readchar", "rcvsignal"} => c.op = "read"
    /\ c.at \in {"rcvwait", "readchar"} => c.left > 0
    /\ c.at = "rcvwait" => c.empty
    /\ c.at = "rcvsignal" => ~c.empty

sends(c) == c.at \in {"putchar", "putlf", "sndsignal"}
reads(c) == c.at \in {"readchar", "rcvsignal"} \/ (c.op = "read" /\ ~c.empty)

Senders(calls) == {t \in Task : sends(calls[t])}
Readers(calls) == {t \in Task : reads(calls[t])}

(* The right is at the semaphore, with the interrupt or with one of D.     *)
Right(x, z, D) ==
    \/ x = 1 /\ ~z /\ D = {}
    \/ x = 0 /\ z /\ D = {}
    \/ x = 0 /\ ~z /\ \E t : D = {t}

(* The right is in no two of these places.                                 *)
NotTwice(x, z, D) ==
    /\ x = 1 => ~z /\ D = {}
    /\ \A t \in D : ~z /\ D = {t}

Inv(v, o, calls) ==
    /\ v \in PortState /\ o \in ScifState
    /\ calls \in [Task -> CallState] /\ \A t \in Task : Calling(calls[t])
    /\ Len(v.sendBuffer) <= BUFSZ /\ Len(v.receiveBuffer) <= BUFSZ
    /\ ~v.errorFlag
    /\ v.openFlag => /\ Right(v.SendSemaphore, Len(v.sendBuffer) = BUFSZ, Senders(calls))
                     /\ NotTwice(v.ReceiveSemaphore, v.receiveBuffer = <<>>, Readers(calls))
    /\ ~v.openFlag => /\ v.SendSemaphore = 1 /\ v.ReceiveSemaphore = 0
                      /\ ~o.TE /\ ~o.TIE /\ ~o.RIE
                      /\ \A t \in Task : calls[t] = Idle

-----------------------------------------------------------------------------
(* Where a call goes on.                                                   *)
LEMMA IdleCalling == Calling(Idle) /\ ~sends(Idle) /\ ~reads(Idle)
BY DEF Calling, CallState, Idle, sends, reads

LEMMA NextRead ==
    ASSUME NEW c \in CallState, c.op = "read"
    PROVE  LET n == next_read(c) IN
           Calling(n) /\ ~sends(n) /\ (reads(n) <=> ~c.empty)
<1>1. CASE c.left > 0
  <2>1. next_read(c) = [c EXCEPT !.at = IF c.empty THEN "rcvwait" ELSE "readchar"]
    BY <1>1 DEF next_read, CallState
  <2> QED BY <1>1, <2>1 DEF Calling, CallState, sends, reads
<1>2. CASE c.left = 0 /\ ~c.empty
  <2>1. next_read(c) = [c EXCEPT !.at = "rcvsignal"]
    BY <1>2 DEF next_read, CallState
  <2> QED BY <1>2, <2>1 DEF Calling, CallState, sends, reads
<1>3. CASE c.left = 0 /\ c.empty
  <2>1. next_read(c) = Idle BY <1>3 DEF next_read, CallState
  <2> QED BY <1>3, <2>1, IdleCalling
<1> QED BY <1>1, <1>2, <1>3 DEF CallState

LEMMA NextWrite ==
    ASSUME NEW c \in CallState, c.op # "none", NEW full \in BOOLEAN
    PROVE  LET n == next_write(c, full) IN
           /\ Calling(n) /\ (sends(n) <=> ~full)
           /\ reads(n) <=> c.op = "read" /\ ~c.empty
<1>1. CASE c.out # <<>>
  <2>1. next_write(c, full) = [c EXCEPT !.at = IF full THEN "sndwait" ELSE "putchar"]
    BY <1>1 DEF next_write
  <2> QED BY <1>1, <2>1 DEF Calling, CallState, sends, reads
<1>2. CASE c.out = <<>> /\ ~full
  <2>1. next_write(c, full) = [c EXCEPT !.at = "sndsignal"]
    BY <1>2 DEF next_write
  <2> QED BY <1>2, <2>1 DEF Calling, CallState, sends, reads
<1>3. CASE c.out = <<>> /\ full
  <2>1. next_write(c, full) = IF c.op = "read" THEN next_read(c) ELSE Idle
    BY <1>3 DEF next_write
  <2> QED BY <1>3, <2>1, NextRead, IdleCalling
<1> QED BY <1>1, <1>2, <1>3

(* One task goes on.                                                       *)
LEMMA GoesOn ==
    ASSUME NEW calls, calls \in [Task -> CallState], \A u \in Task : Calling(calls[u]),
           NEW t \in Task, NEW n, Calling(n)
    PROVE  LET after == [calls EXCEPT ![t] = n] IN
           /\ after \in [Task -> CallState] /\ \A u \in Task : Calling(after[u])
           /\ Senders(after) = IF sends(n) THEN Senders(calls) \cup {t} ELSE Senders(calls) \ {t}
           /\ Readers(after) = IF reads(n) THEN Readers(calls) \cup {t} ELSE Readers(calls) \ {t}
<1> DEFINE after == [calls EXCEPT ![t] = n]
<1>1. n \in CallState BY DEF Calling
<1>2. after \in [Task -> CallState] BY <1>1
<1>3. \A u \in Task : after[u] = IF u = t THEN n ELSE calls[u] OBVIOUS
<1> HIDE DEF after
<1> QED BY <1>2, <1>3 DEF Senders, Readers, after

(* The right passes on.                                                    *)
LEMMA Passes ==
    ASSUME NEW z, NEW D, NEW t
    PROVE  /\ Right(1, z, D) => ~z /\ Right(0, z, D \cup {t})
           /\ \A x : Right(x, z, D) /\ t \in D => ~z /\ x = 0 /\ D = {t}
           /\ ~z => Right(1, z, {}) /\ Right(0, z, {t})
           /\ z => Right(0, z, {})
BY DEF Right

LEMMA Holder ==
    ASSUME NEW x, NEW z, NEW D, NEW t \in D, Right(x, z, D)
    PROVE  ~z /\ x = 0 /\ D = {t}
BY DEF Right

LEMMA Reader ==
    ASSUME NEW x \in {0, 1}, NEW z, NEW D, NEW t \in D, NotTwice(x, z, D)
    PROVE  ~z /\ x = 0 /\ D = {t}
BY DEF NotTwice

(* Who is in a call has opened the port.                                   *)
LEMMA InCall ==
    ASSUME NEW v, NEW o, NEW calls, Inv(v, o, calls), NEW t \in Task, calls[t].at # "idle"
    PROVE  v.openFlag
BY DEF Inv, Idle

-----------------------------------------------------------------------------
(* The SCIF keeps its type, and the port all but a flow control.           *)
LEMMA Sent ==
    ASSUME NEW v \in PortState, NEW o \in ScifState, NEW c \in Chr,
           NEW q, q = sent(<<v, o>>, c)
    PROVE  q[1] = v /\ q[2] \in ScifState
<1>1. put(<<v, o>>, c)[1] = v /\ put(<<v, o>>, c)[2] \in ScifState BY DEF put, ScifState
<1>2. enable_send(<<v, o>>)[1] = v /\ enable_send(<<v, o>>)[2] \in ScifState
  BY DEF enable_send, ScifState
<1> QED BY <1>1, <1>2 DEF sent

LEMMA PutChar ==
    ASSUME NEW v \in PortState, NEW o \in ScifState, NEW c \in Chr,
           NEW q, q = putChar(<<v, o>>, c)
    PROVE  q[1] = v /\ q[2] \in ScifState
<1>1. put(<<v, o>>, c)[1] = v /\ put(<<v, o>>, c)[2] \in ScifState BY DEF put, ScifState
<1> QED BY <1>1 DEF putChar

LEMMA SendFlow ==
    ASSUME NEW v \in PortState, NEW o \in ScifState, NEW c \in Chr,
           NEW q, q = send_flow(<<v, o>>, c)
    PROVE  /\ q[1] \in PortState /\ q[2] \in ScifState
           /\ q[1] = [v EXCEPT !.receiveFlowControl = q[1].receiveFlowControl]
<1> DEFINE r == sent(<<v, o>>, c)
           w == [v EXCEPT !.receiveFlowControl = c]
<1>1. r[1] = v /\ r[2] \in ScifState BY Sent
<1>2. q = IF putready(<<v, o>>) THEN r ELSE <<w, r[2]>> BY <1>1 DEF send_flow
<1>3. w \in PortState /\ w.receiveFlowControl = c BY DEF PortState
<1>4. v = [v EXCEPT !.receiveFlowControl = v.receiveFlowControl] BY DEF PortState
<1>5. w = [v EXCEPT !.receiveFlowControl = w.receiveFlowControl] BY <1>3
<1> HIDE DEF r, w
<1> QED BY <1>1, <1>2, <1>3, <1>4, <1>5

-----------------------------------------------------------------------------
(* The invariant of the two rights, of their parts.                        *)
SendRight(v, calls) == Right(v.SendSemaphore, Len(v.sendBuffer) = BUFSZ, Senders(calls))
RecvRight(v, calls) == NotTwice(v.ReceiveSemaphore, v.receiveBuffer = <<>>, Readers(calls))

LEMMA Sizes == BUFSZ \in Nat /\ BUFSZ >= 1
BY SerialAssumption

(* The invariant of an open port, from its parts.                          *)
LEMMA OpenInv ==
    ASSUME NEW v \in PortState, NEW o \in ScifState, NEW calls,
           calls \in [Task -> CallState], \A t \in Task : Calling(calls[t]),
           Len(v.sendBuffer) <= BUFSZ, Len(v.receiveBuffer) <= BUFSZ,
           ~v.errorFlag, v.openFlag, SendRight(v, calls), RecvRight(v, calls)
    PROVE  Inv(v, o, calls)
BY DEF Inv, SendRight, RecvRight

LEMMA Opened ==
    ASSUME NEW v, NEW o, NEW calls, Inv(v, o, calls), v.openFlag
    PROVE  /\ v \in PortState /\ o \in ScifState
           /\ calls \in [Task -> CallState] /\ \A t \in Task : Calling(calls[t])
           /\ Len(v.sendBuffer) <= BUFSZ /\ Len(v.receiveBuffer) <= BUFSZ
           /\ ~v.errorFlag /\ SendRight(v, calls) /\ RecvRight(v, calls)
BY DEF Inv, SendRight, RecvRight

(* A call that only moves on, with the rights it has.                      *)
LEMMA Moves ==
    ASSUME NEW v, NEW o, NEW calls, Inv(v, o, calls), v.openFlag,
           NEW w \in PortState, NEW x \in ScifState, NEW t \in Task, NEW n, Calling(n),
           reads(n) <=> reads(calls[t]),
           w.openFlag, ~w.errorFlag, w.receiveBuffer = v.receiveBuffer,
           w.ReceiveSemaphore = v.ReceiveSemaphore,
           Len(w.sendBuffer) <= BUFSZ,
           Right(w.SendSemaphore, Len(w.sendBuffer) = BUFSZ,
                 IF sends(n) THEN Senders(calls) \cup {t} ELSE Senders(calls) \ {t})
    PROVE  Inv(w, x, [calls EXCEPT ![t] = n])
<1> DEFINE after == [calls EXCEPT ![t] = n]
<1>1. /\ calls \in [Task -> CallState] /\ \A u \in Task : Calling(calls[u])
      /\ Len(v.receiveBuffer) <= BUFSZ /\ RecvRight(v, calls)
  BY Opened
<1>2. /\ after \in [Task -> CallState] /\ \A u \in Task : Calling(after[u])
      /\ Senders(after) = IF sends(n) THEN Senders(calls) \cup {t} ELSE Senders(calls) \ {t}
      /\ Readers(after) = IF reads(n) THEN Readers(calls) \cup {t} ELSE Readers(calls) \ {t}
  BY <1>1, GoesOn
<1> HIDE DEF after
<1>3. Readers(after) = Readers(calls) BY <1>2 DEF Readers
<1>4. SendRight(w, after) BY <1>2 DEF SendRight
<1>5. RecvRight(w, after) BY <1>1, <1>3 DEF RecvRight
<1>6. Inv(w, x, after) BY <1>1, <1>2, <1>4, <1>5, OpenInv
<1> QED BY <1>6 DEF after

-----------------------------------------------------------------------------
(* Opening, closing and control.                                           *)
LEMMA Opens ==
    ASSUME Inv(s, sio, call), NEW t \in Task, eSerialPort_open(t)
    PROVE  Inv(s', sio', call')
<1>1. /\ s \in PortState /\ sio \in ScifState /\ call \in [Task -> CallState]
      /\ ~s.openFlag /\ s.SendSemaphore = 1 /\ s.ReceiveSemaphore = 0
      /\ \A u \in Task : call[u] = Idle
  BY DEF Inv, eSerialPort_open
<1>2. /\ s' \in PortState /\ s'.openFlag /\ ~s'.errorFlag
      /\ s'.SendSemaphore = 1 /\ s'.ReceiveSemaphore = 0
      /\ s'.sendBuffer = <<>> /\ s'.receiveBuffer = <<>>
  <2> DEFINE all == {"ECHO", "CRLF", "FCSND", "FCRCV"}
  <2>1. all \in SUBSET IOCTL /\ <<>> \in Seq(Chr) BY DEF IOCTL
  <2> HIDE DEF all
  <2>2. s' = [ s EXCEPT !.openFlag = TRUE, !.errorFlag = FALSE, !.ioControl = all,
                        !.receiveBuffer = <<>>, !.receiveFlowControl = NUL,
                        !.receiveStopped = FALSE, !.sendBuffer = <<>>,
                        !.sendStopped = FALSE ]
    BY DEF eSerialPort_open, all
  <2>3. s' \in PortState BY <1>1, <2>1, <2>2 DEF PortState
  <2> QED BY <1>1, <2>2, <2>3 DEF PortState
<1>3. sio' \in ScifState BY <1>1 DEF eSerialPort_open, ScifState
<1>4. call' = call BY DEF eSerialPort_open
<1>5. Senders(call') = {} /\ Readers(call') = {}
  BY <1>1, <1>4, IdleCalling DEF Senders, Readers
<1>6. \A u \in Task : Calling(call'[u]) BY <1>1, <1>4, IdleCalling
<1>7. SendRight(s', call') /\ RecvRight(s', call')
  BY <1>2, <1>5, Sizes DEF SendRight, RecvRight, Right, NotTwice
<1> QED BY <1>1, <1>2, <1>3, <1>4, <1>6, <1>7, Sizes, OpenInv

LEMMA Closes ==
    ASSUME Inv(s, sio, call), NEW t \in Task, quiet, eSerialPort_close(t)
    PROVE  Inv(s', sio', call')
<1>1. /\ s \in PortState /\ sio \in ScifState /\ call \in [Task -> CallState]
      /\ Len(s.sendBuffer) <= BUFSZ /\ Len(s.receiveBuffer) <= BUFSZ /\ ~s.errorFlag
      /\ \A u \in Task : Calling(call[u])
  BY DEF Inv
<1>2. /\ s' \in PortState /\ ~s'.openFlag /\ ~s'.errorFlag
      /\ s'.SendSemaphore = 1 /\ s'.ReceiveSemaphore = 0
      /\ s'.sendBuffer = s.sendBuffer /\ s'.receiveBuffer = s.receiveBuffer
  BY <1>1 DEF eSerialPort_close, PortState
<1>3. sio' \in ScifState /\ ~sio'.TE /\ ~sio'.TIE /\ ~sio'.RIE
  BY <1>1 DEF eSerialPort_close, ScifState
<1>4. call' = [u \in Task |-> Idle]
  BY <1>1 DEF eSerialPort_close, quiet, Calling
<1>5. call' \in [Task -> CallState] /\ \A u \in Task : call'[u] = Idle
  BY <1>4, IdleCalling DEF Calling
<1> QED BY <1>1, <1>2, <1>3, <1>5, IdleCalling DEF Inv

LEMMA Controlled ==
    ASSUME Inv(s, sio, call), NEW t \in Task, NEW ioctl \in Controls,
           eSerialPort_control(t, ioctl)
    PROVE  Inv(s', sio', call')
<1>1. s \in PortState /\ ioctl \in SUBSET IOCTL BY SerialAssumption DEF Inv
<1>2. /\ s' \in PortState /\ s'.openFlag = s.openFlag /\ s'.errorFlag = s.errorFlag
      /\ s'.sendBuffer = s.sendBuffer /\ s'.receiveBuffer = s.receiveBuffer
      /\ s'.SendSemaphore = s.SendSemaphore /\ s'.ReceiveSemaphore = s.ReceiveSemaphore
  BY <1>1 DEF eSerialPort_control, PortState
<1>3. sio' = sio /\ call' = call BY DEF eSerialPort_control
<1> QED BY <1>2, <1>3 DEF Inv

-----------------------------------------------------------------------------
(* Writing.                                                                *)
LEMMA Writes ==
    ASSUME Inv(s, sio, call), NEW t \in Task, NEW buffer \in Strings,
           eSerialPort_write(t, buffer)
    PROVE  Inv(s', sio', call')
<1> DEFINE n == [Idle EXCEPT !.at = "sndwait", !.op = "write", !.out = buffer]
<1>1. buffer \in Seq(Chr) /\ buffer # <<>>
  <2>1. buffer \in Seq(Char \cup {LF}) /\ buffer # <<>> BY SerialAssumption
  <2> QED BY <2>1 DEF Chr
<1>2. call[t] = Idle /\ s.openFlag BY DEF eSerialPort_write, usable, Inv, Calling
<1>3. Calling(n) /\ ~sends(n) /\ ~reads(n)
  BY <1>1 DEF Idle, Calling, CallState, sends, reads
<1>4. s' = s /\ sio' = sio /\ call' = [call EXCEPT ![t] = n] BY DEF eSerialPort_write
<1> HIDE DEF n
<1>5. /\ s \in PortState /\ sio \in ScifState /\ Len(s.sendBuffer) <= BUFSZ /\ ~s.errorFlag
      /\ SendRight(s, call)
  BY <1>2, Opened
<1>6. t \notin Senders(call) BY <1>2, IdleCalling DEF Senders
<1>7. Senders(call) \ {t} = Senders(call) BY <1>6
<1> QED BY <1>2, <1>3, <1>4, <1>5, <1>7, IdleCalling, Moves DEF SendRight

LEMMA WaitsToSend ==
    ASSUME Inv(s, sio, call), NEW t \in Task, send_wait(t)
    PROVE  Inv(s', sio', call')
<1> DEFINE n == [call[t] EXCEPT !.at = IF @ = "crwait" THEN "putlf" ELSE "putchar"]
<1>1. s.openFlag /\ call[t].at \in {"sndwait", "crwait"}
  BY InCall DEF send_wait
<1>2. /\ s \in PortState /\ sio \in ScifState /\ call \in [Task -> CallState]
      /\ Calling(call[t]) /\ call[t] \in CallState
      /\ Len(s.sendBuffer) <= BUFSZ /\ ~s.errorFlag /\ SendRight(s, call)
  BY <1>1, Opened
<1>3. Calling(n) /\ sends(n) /\ (reads(n) <=> reads(call[t]))
  BY <1>1, <1>2 DEF Calling, CallState, sends, reads
<1>4. call' = [call EXCEPT ![t] = n] /\ sio' = sio BY <1>2 DEF send_wait
<1>5. /\ s' \in PortState /\ s'.openFlag /\ ~s'.errorFlag
      /\ s'.sendBuffer = s.sendBuffer /\ s'.receiveBuffer = s.receiveBuffer
      /\ s'.SendSemaphore = 0 /\ s'.ReceiveSemaphore = s.ReceiveSemaphore
  BY <1>1, <1>2 DEF send_wait, PortState
<1>6. s.SendSemaphore = 1 BY DEF send_wait
<1>7. Right(0, Len(s.sendBuffer) = BUFSZ, Senders(call) \cup {t})
  BY <1>2, <1>6, Passes DEF SendRight
<1> HIDE DEF n
<1> QED BY <1>1, <1>2, <1>3, <1>4, <1>5, <1>7, Moves

(* A character of a writer is sent or stored.                              *)
LEMMA Stores ==
    ASSUME NEW v \in PortState, NEW o \in ScifState, NEW c \in Chr
    PROVE  LET q == store_or_send(<<v, o>>, c) IN
           /\ q[1] \in PortState /\ q[2] \in ScifState
           /\ q[1] = [v EXCEPT !.sendBuffer = q[1].sendBuffer]
           /\ q[1].sendBuffer = v.sendBuffer \/ Len(q[1].sendBuffer) = Len(v.sendBuffer) + 1
<1> DEFINE p == <<v, o>>
           w == [v EXCEPT !.sendBuffer = Append(@, c)]
           q == store_or_send(p, c)
<1>1. sent(p, c)[1] = v /\ sent(p, c)[2] \in ScifState BY Sent
<1>2. w \in PortState /\ w.sendBuffer = Append(v.sendBuffer, c)
      /\ w = [v EXCEPT !.sendBuffer = w.sendBuffer]
  <2> DEFINE b == Append(v.sendBuffer, c)
  <2>1. b \in Seq(Chr) BY DEF PortState
  <2>2. w = [v EXCEPT !.sendBuffer = b] OBVIOUS
  <2> HIDE DEF b, w
  <2>3. w \in PortState /\ w.sendBuffer = b BY <2>1, <2>2 DEF PortState
  <2> QED BY <2>2, <2>3 DEF b
<1>3. v = [v EXCEPT !.sendBuffer = v.sendBuffer] BY DEF PortState
<1>4. Len(w.sendBuffer) = Len(v.sendBuffer) + 1
  <2>1. v.sendBuffer \in Seq(Chr) BY DEF PortState
  <2> QED BY <1>2, <2>1
<1>5. \/ q = <<w, o>> \/ q = <<w, sent(p, c)[2]>> \/ q = sent(p, c)
  BY <1>1 DEF store_or_send
<1> HIDE DEF w, q
<1>6. CASE q = <<w, o>> BY <1>2, <1>4, <1>6 DEF q
<1>7. CASE q = <<w, sent(p, c)[2]>> BY <1>1, <1>2, <1>4, <1>7 DEF q
<1>8. CASE q = sent(p, c) BY <1>1, <1>3, <1>8 DEF q
<1> QED BY <1>5, <1>6, <1>7, <1>8

LEMMA WritesChar ==
    ASSUME Inv(s, sio, call), NEW t \in Task, serialPort_writeChar(t)
    PROVE  Inv(s', sio', call')
<1> DEFINE c == call[t]
           cr == c.at = "putchar" /\ Head(c.out) = LF /\ "CRLF" \in s.ioControl
           q == store_or_send(<<s, sio>>, IF cr THEN CR ELSE Head(c.out))
           full == filled(<<s, sio>>, q)
           n == IF cr THEN [c EXCEPT !.at = IF full THEN "crwait" ELSE "putlf"]
                      ELSE next_write([c EXCEPT !.out = Tail(@)], full)
<1>1. s.openFlag /\ c.at \in {"putchar", "putlf"}
  BY InCall DEF serialPort_writeChar
<1>2. /\ s \in PortState /\ sio \in ScifState /\ call \in [Task -> CallState]
      /\ Calling(c) /\ c \in CallState
      /\ Len(s.sendBuffer) <= BUFSZ /\ ~s.errorFlag /\ SendRight(s, call)
  BY <1>1, Opened
<1>3. c.out \in Seq(Chr) /\ c.out # <<>> /\ c.op # "none"
  BY <1>1, <1>2 DEF Calling, CallState
<1>4. Head(c.out) \in Chr /\ Tail(c.out) \in Seq(Chr) /\ CR \in Chr
  BY <1>3 DEF Chr
<1>5. /\ s' = q[1] /\ sio' = q[2] /\ call' = [call EXCEPT ![t] = n]
  BY DEF serialPort_writeChar
<1> HIDE DEF cr
<1>6. /\ s' \in PortState /\ sio' \in ScifState
      /\ s' = [s EXCEPT !.sendBuffer = s'.sendBuffer]
      /\ s'.sendBuffer = s.sendBuffer \/ Len(s'.sendBuffer) = Len(s.sendBuffer) + 1
  BY <1>2, <1>4, <1>5, Stores
<1>7. /\ s'.openFlag /\ ~s'.errorFlag /\ s'.receiveBuffer = s.receiveBuffer
      /\ s'.SendSemaphore = s.SendSemaphore /\ s'.ReceiveSemaphore = s.ReceiveSemaphore
  BY <1>1, <1>2, <1>6 DEF PortState
<1>8. full \in BOOLEAN
      /\ full <=> s'.sendBuffer # s.sendBuffer /\ Len(s'.sendBuffer) = BUFSZ
  BY <1>5 DEF filled
<1> HIDE DEF full
<1>9. Calling(n) /\ (sends(n) <=> ~full) /\ (reads(n) <=> reads(c))
  <2>1. reads(c) <=> c.op = "read" /\ ~c.empty BY <1>1 DEF reads
  <2>2. CASE cr
    BY <2>1, <2>2, <1>1, <1>2, <1>3, <1>8 DEF Calling, CallState, sends, reads
  <2>3. CASE ~cr
    <3> DEFINE d == [c EXCEPT !.out = Tail(@)]
    <3>1. d \in CallState /\ d.op = c.op /\ d.empty = c.empty
      BY <1>2, <1>4 DEF CallState
    <3> HIDE DEF d
    <3>2. n = next_write(d, full) BY <2>3 DEF d
    <3> HIDE DEF n, c, q
    <3>3. /\ next_write(d, TRUE) = n \/ ~full
          /\ next_write(d, FALSE) = n \/ full
      <4>1. CASE full = TRUE BY <3>2, <4>1, Zenon
      <4>2. CASE full = FALSE BY <3>2, <4>2, Zenon
      <4>3. full = TRUE \/ full = FALSE BY <1>8
      <4> QED BY <4>1, <4>2, <4>3
    <3>4. /\ Calling(next_write(d, TRUE)) /\ Calling(next_write(d, FALSE))
          /\ ~sends(next_write(d, TRUE)) /\ sends(next_write(d, FALSE))
          /\ reads(next_write(d, TRUE)) <=> d.op = "read" /\ ~d.empty
          /\ reads(next_write(d, FALSE)) <=> d.op = "read" /\ ~d.empty
      BY <3>1, <1>3, NextWrite
    <3> QED BY <2>1, <3>1, <3>3, <3>4
  <2> QED BY <2>2, <2>3
<1> HIDE DEF n, c, q
<1>10. t \in Senders(call) BY <1>1 DEF Senders, sends, c
<1>11. Len(s.sendBuffer) # BUFSZ /\ s.SendSemaphore = 0 /\ Senders(call) = {t}
  BY <1>2, <1>10, Holder DEF SendRight
<1>12. Len(s.sendBuffer) \in Nat /\ Len(s'.sendBuffer) \in Nat
  <2>1. s.sendBuffer \in Seq(Chr) /\ s'.sendBuffer \in Seq(Chr) BY <1>2, <1>6 DEF PortState
  <2> QED BY <2>1
<1>13. Len(s'.sendBuffer) <= BUFSZ /\ (full <=> Len(s'.sendBuffer) = BUFSZ)
  <2>1. CASE s'.sendBuffer = s.sendBuffer BY <2>1, <1>2, <1>8, <1>11
  <2>2. CASE Len(s'.sendBuffer) = Len(s.sendBuffer) + 1
    <3>1. s'.sendBuffer # s.sendBuffer BY <2>2, <1>12
    <3>2. Len(s.sendBuffer) + 1 <= BUFSZ BY <1>2, <1>11, <1>12, Sizes
    <3> QED BY <2>2, <3>1, <3>2, <1>8
  <2> QED BY <2>1, <2>2, <1>6
<1>14. Right(0, Len(s'.sendBuffer) = BUFSZ,
             IF sends(n) THEN Senders(call) \cup {t} ELSE Senders(call) \ {t})
  <2>1. CASE full
    <3>1. Senders(call) \ {t} = {} BY <1>11
    <3> QED BY <2>1, <3>1, <1>9, <1>13 DEF Right
  <2>2. CASE ~full
    <3>1. Senders(call) \cup {t} = {t} BY <1>11
    <3> QED BY <2>2, <3>1, <1>9, <1>13 DEF Right
  <2> QED BY <2>1, <2>2
<1> QED BY <1>1, <1>5, <1>6, <1>7, <1>9, <1>11, <1>13, <1>14, Moves DEF c

LEMMA Signals ==
    ASSUME Inv(s, sio, call), NEW t \in Task, send_signal(t)
    PROVE  Inv(s', sio', call')
<1> DEFINE c == call[t]
           n == IF c.op = "read" THEN next_read(c) ELSE Idle
<1>1. s.openFlag /\ c.at = "sndsignal" BY InCall DEF send_signal
<1>2. /\ s \in PortState /\ sio \in ScifState /\ call \in [Task -> CallState]
      /\ Calling(c) /\ c \in CallState
      /\ Len(s.sendBuffer) <= BUFSZ /\ ~s.errorFlag /\ SendRight(s, call)
  BY <1>1, Opened
<1>3. t \in Senders(call) BY <1>1 DEF Senders, sends
<1>4. Len(s.sendBuffer) # BUFSZ /\ s.SendSemaphore = 0 /\ Senders(call) = {t}
  BY <1>2, <1>3, Holder DEF SendRight
<1>5. s' = [s EXCEPT !.SendSemaphore = 1] BY <1>4 DEF send_signal, signal_send
<1>6. /\ s' \in PortState /\ s'.openFlag /\ ~s'.errorFlag
      /\ s'.sendBuffer = s.sendBuffer /\ s'.receiveBuffer = s.receiveBuffer
      /\ s'.SendSemaphore = 1 /\ s'.ReceiveSemaphore = s.ReceiveSemaphore
  BY <1>1, <1>2, <1>5 DEF PortState
<1>7. call' = [call EXCEPT ![t] = n] /\ sio' = sio BY <1>2, <1>4 DEF send_signal
<1>8. Calling(n) /\ ~sends(n) /\ (reads(n) <=> reads(c))
  <2>1. reads(c) <=> c.op = "read" /\ ~c.empty BY <1>1 DEF reads
  <2>2. CASE c.op = "read" BY <2>1, <2>2, <1>2, NextRead
  <2>3. CASE c.op # "read" BY <2>1, <2>3, IdleCalling
  <2> QED BY <2>2, <2>3
<1> HIDE DEF n
<1>9. Senders(call) \ {t} = {} BY <1>4
<1>10. Right(1, Len(s.sendBuffer) = BUFSZ, Senders(call) \ {t})
  BY <1>4, <1>9 DEF Right
<1> QED BY <1>1, <1>2, <1>6, <1>7, <1>8, <1>10, Moves

-----------------------------------------------------------------------------
(* Reading.                                                                *)
LEMMA Reads ==
    ASSUME Inv(s, sio, call), NEW t \in Task, NEW length \in Lengths,
           eSerialPort_read(t, length)
    PROVE  Inv(s', sio', call')
<1> DEFINE n == [Idle EXCEPT !.at = "rcvwait", !.op = "read", !.left = length]
<1>1. length \in Nat /\ length > 0 BY SerialAssumption
<1>2. call[t] = Idle /\ s.openFlag BY DEF eSerialPort_read, usable, Inv, Calling
<1>3. Calling(n) /\ ~sends(n) /\ ~reads(n)
  <2>1. Idle \in CallState /\ Idle.empty BY IdleCalling DEF Calling, Idle
  <2>2. /\ n \in CallState /\ n.at = "rcvwait" /\ n.op = "read" /\ n.left = length
        /\ n.empty = Idle.empty
    BY <1>1, <2>1 DEF CallState
  <2> HIDE DEF n
  <2> QED BY <1>1, <2>1, <2>2 DEF Calling, sends, reads
<1>4. s' = s /\ sio' = sio /\ call' = [call EXCEPT ![t] = n] BY DEF eSerialPort_read
<1> HIDE DEF n
<1>5. /\ s \in PortState /\ sio \in ScifState /\ Len(s.sendBuffer) <= BUFSZ /\ ~s.errorFlag
      /\ SendRight(s, call)
  BY <1>2, Opened
<1>6. t \notin Senders(call) BY <1>2, IdleCalling DEF Senders
<1>7. Senders(call) \ {t} = Senders(call) BY <1>6
<1> QED BY <1>2, <1>3, <1>4, <1>5, <1>7, IdleCalling, Moves DEF SendRight

(* A reader that goes on outside of sending.                               *)
LEMMA ReaderMoves ==
    ASSUME NEW v, NEW o, NEW calls, Inv(v, o, calls), v.openFlag,
           NEW w \in PortState, NEW x \in ScifState, NEW t \in Task, NEW n, Calling(n),
           ~sends(n), ~sends(calls[t]),
           w.openFlag, ~w.errorFlag, w.sendBuffer = v.sendBuffer,
           w.SendSemaphore = v.SendSemaphore, Len(w.receiveBuffer) <= BUFSZ,
           NotTwice(w.ReceiveSemaphore, w.receiveBuffer = <<>>,
                 IF reads(n) THEN Readers(calls) \cup {t} ELSE Readers(calls) \ {t})
    PROVE  Inv(w, x, [calls EXCEPT ![t] = n])
<1> DEFINE after == [calls EXCEPT ![t] = n]
<1>1. /\ calls \in [Task -> CallState] /\ \A u \in Task : Calling(calls[u])
      /\ Len(v.sendBuffer) <= BUFSZ /\ SendRight(v, calls)
  BY Opened
<1>2. /\ after \in [Task -> CallState] /\ \A u \in Task : Calling(after[u])
      /\ Senders(after) = IF sends(n) THEN Senders(calls) \cup {t} ELSE Senders(calls) \ {t}
      /\ Readers(after) = IF reads(n) THEN Readers(calls) \cup {t} ELSE Readers(calls) \ {t}
  BY <1>1, GoesOn
<1> HIDE DEF after
<1>3. Senders(after) = Senders(calls) BY <1>2 DEF Senders
<1>4. RecvRight(w, after) BY <1>2 DEF RecvRight
<1>5. SendRight(w, after) BY <1>1, <1>3 DEF SendRight
<1>6. Inv(w, x, after) BY <1>1, <1>2, <1>4, <1>5, OpenInv
<1> QED BY <1>6 DEF after

LEMMA WaitsToReceive ==
    ASSUME Inv(s, sio, call), NEW t \in Task, receive_wait(t)
    PROVE  Inv(s', sio', call')
<1> DEFINE n == [call[t] EXCEPT !.at = "readchar"]
<1>1. s.openFlag /\ call[t].at = "rcvwait" BY InCall DEF receive_wait
<1>2. /\ s \in PortState /\ sio \in ScifState /\ call \in [Task -> CallState]
      /\ Calling(call[t]) /\ call[t] \in CallState
      /\ Len(s.receiveBuffer) <= BUFSZ /\ ~s.errorFlag /\ RecvRight(s, call)
  BY <1>1, Opened
<1>3. Calling(n) /\ ~sends(n) /\ ~sends(call[t]) /\ reads(n)
  BY <1>1, <1>2 DEF Calling, CallState, sends, reads
<1>4. call' = [call EXCEPT ![t] = n] /\ sio' = sio BY <1>2 DEF receive_wait
<1>5. /\ s' \in PortState /\ s'.openFlag /\ ~s'.errorFlag
      /\ s'.sendBuffer = s.sendBuffer /\ s'.receiveBuffer = s.receiveBuffer
      /\ s'.SendSemaphore = s.SendSemaphore /\ s'.ReceiveSemaphore = 0
  BY <1>1, <1>2 DEF receive_wait, PortState
<1>6. s.ReceiveSemaphore = 1 BY DEF receive_wait
<1>7. NotTwice(0, s.receiveBuffer = <<>>, Readers(call) \cup {t})
  BY <1>2, <1>6 DEF RecvRight, NotTwice
<1> HIDE DEF n
<1> QED BY <1>1, <1>2, <1>3, <1>4, <1>5, <1>7, ReaderMoves

LEMMA ReadsChar ==
    ASSUME Inv(s, sio, call), NEW t \in Task, serialPort_readChar(t)
    PROVE  Inv(s', sio', call')
<1> DEFINE ch == Head(s.receiveBuffer)
           rest == Tail(s.receiveBuffer)
           v == [s EXCEPT !.receiveBuffer = rest]
           again == s.receiveStopped /\ Len(rest) <= BUFCNT_START
           q == IF again THEN send_flow(<<v, sio>>, FC_START) ELSE <<v, sio>>
           c == [call[t] EXCEPT !.left = @ - 1, !.empty = rest = <<>>]
           n == IF "ECHO" \in s.ioControl THEN [c EXCEPT !.at = "sndwait", !.out = <<ch>>]
                                         ELSE next_read(c)
<1>1. s.openFlag /\ call[t].at = "readchar" BY InCall DEF serialPort_readChar
<1>2. /\ s \in PortState /\ sio \in ScifState /\ call \in [Task -> CallState]
      /\ Calling(call[t]) /\ call[t] \in CallState
      /\ Len(s.receiveBuffer) <= BUFSZ /\ ~s.errorFlag /\ RecvRight(s, call)
  BY <1>1, Opened
<1>3. t \in Readers(call) BY <1>1 DEF Readers, reads
<1>4. s.receiveBuffer # <<>> /\ s.ReceiveSemaphore = 0 /\ Readers(call) = {t}
  <2>1. s.ReceiveSemaphore \in {0, 1} BY <1>2 DEF PortState
  <2> QED BY <2>1, <1>2, <1>3, Reader DEF RecvRight
<1>5. s.receiveBuffer \in Seq(Chr) BY <1>2 DEF PortState
<1>6. ch \in Chr /\ rest \in Seq(Chr) /\ Len(rest) <= BUFSZ
  BY <1>2, <1>4, <1>5, Sizes
<1>7. /\ s' = IF again THEN [q[1] EXCEPT !.receiveStopped = FALSE] ELSE q[1]
      /\ sio' = q[2] /\ call' = [call EXCEPT ![t] = n]
  BY DEF serialPort_readChar
<1> HIDE DEF rest, ch
<1>8. /\ v \in PortState /\ v.openFlag /\ ~v.errorFlag /\ v.receiveBuffer = rest
      /\ v.sendBuffer = s.sendBuffer
      /\ v.SendSemaphore = s.SendSemaphore /\ v.ReceiveSemaphore = s.ReceiveSemaphore
  BY <1>1, <1>2, <1>6 DEF PortState
<1> HIDE DEF v
<1>9. /\ s' \in PortState /\ sio' \in ScifState
      /\ s'.openFlag /\ ~s'.errorFlag /\ s'.receiveBuffer = rest
      /\ s'.sendBuffer = s.sendBuffer
      /\ s'.SendSemaphore = s.SendSemaphore /\ s'.ReceiveSemaphore = s.ReceiveSemaphore
  <2>1. CASE ~again BY <2>1, <1>2, <1>7, <1>8
  <2>2. CASE again
    <3>1. FC_START \in Chr BY DEF Chr
    <3> DEFINE f == send_flow(<<v, sio>>, FC_START)
    <3>2. /\ f[1] \in PortState /\ f[2] \in ScifState
          /\ f[1] = [v EXCEPT !.receiveFlowControl = f[1].receiveFlowControl]
      BY <3>1, <1>2, <1>8, SendFlow
    <3>3. s' = [f[1] EXCEPT !.receiveStopped = FALSE] /\ sio' = f[2] BY <2>2, <1>7
    <3> HIDE DEF f
    <3> QED BY <3>2, <3>3, <1>8 DEF PortState
  <2> QED BY <2>1, <2>2
<1>10. c \in CallState /\ c.op = "read" /\ (c.empty <=> rest = <<>>)
  <2> DEFINE less == call[t].left - 1
             none == rest = <<>>
  <2>1. less \in Nat /\ call[t].op = "read" BY <1>1, <1>2 DEF Calling, CallState
  <2>2. none \in BOOLEAN OBVIOUS
  <2>3. c = [call[t] EXCEPT !.left = less, !.empty = none] OBVIOUS
  <2> HIDE DEF less, none, c
  <2>4. c \in CallState /\ c.op = "read" /\ c.empty = none
    BY <1>2, <2>1, <2>2, <2>3 DEF CallState
  <2> QED BY <2>4 DEF none
<1>11. Calling(n) /\ ~sends(n) /\ (reads(n) <=> rest # <<>>)
  <2> HIDE DEF c
  <2>1. CASE "ECHO" \in s.ioControl
    <3> DEFINE echo == <<ch>>
    <3>1. echo \in Seq(Chr) /\ echo # <<>> BY <1>6
    <3>2. n = [c EXCEPT !.at = "sndwait", !.out = echo] BY <2>1
    <3> HIDE DEF echo, n
    <3>3. n \in CallState /\ n.at = "sndwait" /\ n.out = echo /\ n.op = "read" /\ n.empty = c.empty
      BY <3>1, <3>2, <1>10 DEF CallState
    <3> QED BY <3>1, <3>3, <1>10 DEF Calling, sends, reads
  <2>2. CASE "ECHO" \notin s.ioControl BY <2>2, <1>10, NextRead
  <2> QED BY <2>1, <2>2
<1> HIDE DEF n
<1>12. ~sends(call[t]) BY <1>1 DEF sends
<1>13. NotTwice(0, rest = <<>>,
             IF reads(n) THEN Readers(call) \cup {t} ELSE Readers(call) \ {t})
  <2>1. Readers(call) \cup {t} = {t} /\ Readers(call) \ {t} = {} BY <1>4
  <2>2. CASE rest = <<>> BY <2>1, <2>2, <1>11 DEF NotTwice
  <2>3. CASE rest # <<>> BY <2>1, <2>3, <1>11 DEF NotTwice
  <2> QED BY <2>2, <2>3
<1> QED BY <1>1, <1>4, <1>6, <1>7, <1>9, <1>11, <1>12, <1>13, ReaderMoves

LEMMA ReceiveSignals ==
    ASSUME Inv(s, sio, call), NEW t \in Task, receive_signal(t)
    PROVE  Inv(s', sio', call')
<1>1. s.openFlag /\ call[t].at = "rcvsignal" BY InCall DEF receive_signal
<1>2. /\ s \in PortState /\ sio \in ScifState
      /\ Len(s.receiveBuffer) <= BUFSZ /\ ~s.errorFlag /\ RecvRight(s, call)
  BY <1>1, Opened
<1>3. t \in Readers(call) BY <1>1 DEF Readers, reads
<1>4. s.receiveBuffer # <<>> /\ s.ReceiveSemaphore = 0 /\ Readers(call) = {t}
  <2>1. s.ReceiveSemaphore \in {0, 1} BY <1>2 DEF PortState
  <2> QED BY <2>1, <1>2, <1>3, Reader DEF RecvRight
<1>5. s' = [s EXCEPT !.ReceiveSemaphore = 1] BY <1>4 DEF receive_signal, signal_receive
<1>6. /\ s' \in PortState /\ s'.openFlag /\ ~s'.errorFlag
      /\ s'.sendBuffer = s.sendBuffer /\ s'.receiveBuffer = s.receiveBuffer
      /\ s'.SendSemaphore = s.SendSemaphore /\ s'.ReceiveSemaphore = 1
  BY <1>1, <1>2, <1>5 DEF PortState
<1>7. call' = [call EXCEPT ![t] = Idle] /\ sio' = sio BY DEF receive_signal
<1>8. ~sends(call[t]) BY <1>1 DEF sends
<1>9. NotTwice(1, s.receiveBuffer = <<>>, Readers(call) \ {t})
  <2>1. Readers(call) \ {t} = {} BY <1>4
  <2> QED BY <2>1, <1>4 DEF NotTwice
<1> QED BY <1>1, <1>2, <1>6, <1>7, <1>8, <1>9, IdleCalling, ReaderMoves

(* A call that is released does not hold the right to send; the right to   *)
(* receive, if it holds that, is gone.                                     *)
LEMMA Releases ==
    ASSUME Inv(s, sio, call), NEW t \in Task, release(t)
    PROVE  Inv(s', sio', call')
<1>1. s.openFlag /\ call[t].at \in {"sndwait", "crwait", "rcvwait"}
  BY InCall DEF release, waiting
<1>2. /\ s \in PortState /\ sio \in ScifState /\ Len(s.receiveBuffer) <= BUFSZ
      /\ ~s.errorFlag /\ RecvRight(s, call)
  BY <1>1, Opened
<1>3. ~sends(call[t]) BY <1>1 DEF sends
<1>4. s' = s /\ sio' = sio /\ call' = [call EXCEPT ![t] = Idle] BY DEF release
<1>5. NotTwice(s.ReceiveSemaphore, s.receiveBuffer = <<>>, Readers(call) \ {t})
  BY <1>2 DEF RecvRight, NotTwice
<1> QED BY <1>1, <1>2, <1>3, <1>4, <1>5, IdleCalling, ReaderMoves

-----------------------------------------------------------------------------
(* The interrupts.                                                         *)
LEMMA Takes ==
    ASSUME NEW v \in PortState, v.sendBuffer # <<>>, Len(v.sendBuffer) <= BUFSZ,
           ~v.errorFlag, NEW D, Right(v.SendSemaphore, Len(v.sendBuffer) = BUFSZ, D)
    PROVE  LET w == taken(v) IN
           /\ w \in PortState /\ w.openFlag = v.openFlag /\ ~w.errorFlag
           /\ w.receiveBuffer = v.receiveBuffer /\ w.ReceiveSemaphore = v.ReceiveSemaphore
           /\ Len(w.sendBuffer) <= BUFSZ
           /\ Right(w.SendSemaphore, Len(w.sendBuffer) = BUFSZ, D)
<1> DEFINE rest == Tail(v.sendBuffer)
           x == [v EXCEPT !.sendBuffer = rest]
           w == taken(v)
<1>1. /\ v.sendBuffer \in Seq(Chr) /\ rest \in Seq(Chr)
      /\ Len(rest) \in Nat /\ Len(rest) + 1 = Len(v.sendBuffer)
  <2>1. v.sendBuffer \in Seq(Chr) BY DEF PortState
  <2> QED BY <2>1
<1> HIDE DEF rest
<1>2. /\ x \in PortState /\ x.openFlag = v.openFlag /\ ~x.errorFlag /\ x.sendBuffer = rest
      /\ x.receiveBuffer = v.receiveBuffer /\ x.ReceiveSemaphore = v.ReceiveSemaphore
      /\ x.SendSemaphore = v.SendSemaphore
  BY <1>1 DEF PortState
<1>3. w = IF Len(v.sendBuffer) = BUFSZ THEN signal_send(x) ELSE x
  BY DEF taken, rest
<1> HIDE DEF x, w
<1>4. Len(rest) < BUFSZ BY <1>1, Sizes
<1>5. CASE Len(v.sendBuffer) = BUFSZ
  <2>1. v.SendSemaphore = 0 /\ D = {} BY <1>5 DEF Right
  <2>2. w = [x EXCEPT !.SendSemaphore = 1] BY <2>1, <1>2, <1>3, <1>5 DEF signal_send
  <2>3. /\ w \in PortState /\ w.openFlag = v.openFlag /\ ~w.errorFlag /\ w.sendBuffer = rest
        /\ w.receiveBuffer = v.receiveBuffer /\ w.ReceiveSemaphore = v.ReceiveSemaphore
        /\ w.SendSemaphore = 1
    BY <2>2, <1>2 DEF PortState
  <2>4. Right(1, Len(rest) = BUFSZ, D) BY <2>1, <1>4, Sizes, <1>1 DEF Right
  <2> QED BY <2>3, <2>4, <1>1, <1>4, Sizes DEF w
<1>6. CASE Len(v.sendBuffer) # BUFSZ
  <2>1. Right(v.SendSemaphore, Len(rest) = BUFSZ, D) BY <1>6, <1>1, <1>4, Sizes DEF Right
  <2> QED BY <2>1, <1>1, <1>2, <1>3, <1>4, <1>6, Sizes DEF w
<1> QED BY <1>5, <1>6

(* A step of the SCIF: the calls stay where they are.                      *)
LEMMA Interrupted ==
    ASSUME Inv(s, sio, call), s.openFlag, call' = call,
           s' \in PortState, sio' \in ScifState, s'.openFlag, ~s'.errorFlag,
           Len(s'.sendBuffer) <= BUFSZ, Len(s'.receiveBuffer) <= BUFSZ,
           SendRight(s', call), RecvRight(s', call)
    PROVE  Inv(s', sio', call')
<1>1. call \in [Task -> CallState] /\ \A t \in Task : Calling(call[t]) BY Opened
<1> QED BY <1>1, OpenInv

LEMMA ReadySend ==
    ASSUME Inv(s, sio, call), eiSIOCBR_readySend
    PROVE  Inv(s', sio', call')
<1>1. s.openFlag BY DEF eiSIOCBR_readySend, Inv
<1>2. /\ s \in PortState /\ sio \in ScifState
      /\ Len(s.sendBuffer) <= BUFSZ /\ Len(s.receiveBuffer) <= BUFSZ
      /\ ~s.errorFlag /\ SendRight(s, call) /\ RecvRight(s, call)
  BY <1>1, Opened
<1>3. call' = call BY DEF eiSIOCBR_readySend
<1>4. s.receiveFlowControl \in Chr \cup {NUL} /\ s.sendBuffer \in Seq(Chr) BY <1>2 DEF PortState
<1>5. CASE /\ s.receiveFlowControl # NUL
           /\ LET q == putChar(<<s, sio>>, s.receiveFlowControl)
              IN  s' = [q[1] EXCEPT !.receiveFlowControl = NUL] /\ sio' = q[2]
  <2> DEFINE q == putChar(<<s, sio>>, s.receiveFlowControl)
  <2>0. s.receiveFlowControl \in Chr BY <1>4, <1>5
  <2>1. q[1] = s /\ q[2] \in ScifState BY <2>0, <1>2, PutChar
  <2>2. s' = [s EXCEPT !.receiveFlowControl = NUL] /\ sio' = q[2] BY <2>1, <1>5
  <2> HIDE DEF q
  <2>3. /\ s' \in PortState /\ s'.openFlag /\ ~s'.errorFlag
        /\ s'.sendBuffer = s.sendBuffer /\ s'.receiveBuffer = s.receiveBuffer
        /\ s'.SendSemaphore = s.SendSemaphore /\ s'.ReceiveSemaphore = s.ReceiveSemaphore
    BY <2>2, <1>1, <1>2 DEF PortState
  <2>4. SendRight(s', call) /\ RecvRight(s', call) BY <2>3, <1>2 DEF SendRight, RecvRight
  <2> QED BY <2>1, <2>2, <2>3, <2>4, <1>1, <1>2, <1>3, Interrupted
<1>6. CASE /\ s.sendBuffer # <<>>
           /\ LET q == putChar(<<s, sio>>, Head(s.sendBuffer))
              IN  s' = taken(q[1]) /\ sio' = q[2]
  <2> DEFINE q == putChar(<<s, sio>>, Head(s.sendBuffer))
  <2>1. Head(s.sendBuffer) \in Chr BY <1>4, <1>6
  <2>2. q[1] = s /\ q[2] \in ScifState BY <2>1, <1>2, PutChar
  <2>3. s' = taken(s) /\ sio' = q[2] BY <2>2, <1>6
  <2> HIDE DEF q
  <2>4. /\ s' \in PortState /\ s'.openFlag /\ ~s'.errorFlag
        /\ s'.receiveBuffer = s.receiveBuffer /\ s'.ReceiveSemaphore = s.ReceiveSemaphore
        /\ Len(s'.sendBuffer) <= BUFSZ /\ SendRight(s', call)
    BY <2>3, <1>1, <1>2, <1>6, Takes DEF SendRight
  <2>5. RecvRight(s', call) BY <2>4, <1>2 DEF RecvRight
  <2> QED BY <2>2, <2>3, <2>4, <2>5, <1>1, <1>2, <1>3, Interrupted
<1>7. CASE s' = s /\ sio' = [sio EXCEPT !.TIE = FALSE]
  <2>1. sio' \in ScifState BY <1>2, <1>7 DEF ScifState
  <2> QED BY <2>1, <1>1, <1>2, <1>3, <1>7, Interrupted
<1> QED BY <1>5, <1>6, <1>7 DEF eiSIOCBR_readySend

LEMMA SendStopped ==
    ASSUME Inv(s, sio, call), s.openFlag, call' = call, NEW c, send_stopped(c)
    PROVE  Inv(s', sio', call')
<1>1. /\ s \in PortState /\ sio \in ScifState
      /\ Len(s.sendBuffer) <= BUFSZ /\ Len(s.receiveBuffer) <= BUFSZ
      /\ ~s.errorFlag /\ SendRight(s, call) /\ RecvRight(s, call)
  BY Opened
<1>2. /\ s' \in PortState /\ s'.openFlag /\ ~s'.errorFlag
      /\ s'.sendBuffer = s.sendBuffer /\ s'.receiveBuffer = s.receiveBuffer
      /\ s'.SendSemaphore = s.SendSemaphore /\ s'.ReceiveSemaphore = s.ReceiveSemaphore
      /\ sio' = sio
  BY <1>1 DEF send_stopped, PortState
<1>3. SendRight(s', call) /\ RecvRight(s', call) BY <1>1, <1>2 DEF SendRight, RecvRight
<1> QED BY <1>1, <1>2, <1>3, Interrupted

LEMMA SendRestarted ==
    ASSUME Inv(s, sio, call), s.openFlag, call' = call, NEW c, send_restarted(c)
    PROVE  Inv(s', sio', call')
<1> DEFINE v == [s EXCEPT !.sendStopped = FALSE]
           p == <<v, sio>>
           r == IF s.sendBuffer = <<>> THEN p ELSE sent(p, Head(s.sendBuffer))
           q == IF s.sendBuffer # <<>> /\ putready(p) THEN <<taken(r[1]), r[2]>> ELSE r
<1>1. /\ s \in PortState /\ sio \in ScifState
      /\ Len(s.sendBuffer) <= BUFSZ /\ Len(s.receiveBuffer) <= BUFSZ
      /\ ~s.errorFlag /\ SendRight(s, call) /\ RecvRight(s, call)
  BY Opened
<1>2. s' = q[1] /\ sio' = q[2] BY DEF send_restarted
<1>3. /\ v \in PortState /\ v.openFlag /\ ~v.errorFlag
      /\ v.sendBuffer = s.sendBuffer /\ v.receiveBuffer = s.receiveBuffer
      /\ v.SendSemaphore = s.SendSemaphore /\ v.ReceiveSemaphore = s.ReceiveSemaphore
  BY <1>1 DEF PortState
<1>4. SendRight(v, call) /\ RecvRight(v, call) BY <1>1, <1>3 DEF SendRight, RecvRight
<1> HIDE DEF v
<1>5. r[1] = v /\ r[2] \in ScifState
  <2>1. CASE s.sendBuffer = <<>> BY <2>1, <1>1
  <2>2. CASE s.sendBuffer # <<>>
    <3>1. s.sendBuffer \in Seq(Chr) BY <1>1 DEF PortState
    <3>2. Head(s.sendBuffer) \in Chr BY <2>2, <3>1
    <3>3. r = sent(<<v, sio>>, Head(s.sendBuffer)) BY <2>2
    <3> HIDE DEF r
    <3> QED BY <3>2, <3>3, <1>1, <1>3, Sent
  <2> QED BY <2>1, <2>2
<1> HIDE DEF r
<1>6. CASE s.sendBuffer # <<>> /\ putready(p)
  <2>1. s' = taken(v) /\ sio' \in ScifState BY <1>2, <1>5, <1>6
  <2>2. /\ s' \in PortState /\ s'.openFlag /\ ~s'.errorFlag
        /\ s'.receiveBuffer = v.receiveBuffer /\ s'.ReceiveSemaphore = v.ReceiveSemaphore
        /\ Len(s'.sendBuffer) <= BUFSZ /\ SendRight(s', call)
    BY <2>1, <1>1, <1>3, <1>4, <1>6, Takes DEF SendRight
  <2>3. RecvRight(s', call) BY <2>2, <1>4 DEF RecvRight
  <2> QED BY <2>1, <2>2, <2>3, <1>1, <1>3, Interrupted
<1>7. CASE ~(s.sendBuffer # <<>> /\ putready(p))
  <2>1. s' = v /\ sio' \in ScifState BY <1>2, <1>5, <1>7
  <2> QED BY <2>1, <1>1, <1>3, <1>4, Interrupted
<1> QED BY <1>6, <1>7

LEMMA Receives ==
    ASSUME Inv(s, sio, call), s.openFlag, call' = call, NEW c \in Received, received(c)
    PROVE  Inv(s', sio', call')
<1> DEFINE longer == Append(s.receiveBuffer, c)
           v == [s EXCEPT !.receiveBuffer = longer]
           w == IF s.receiveBuffer = <<>> THEN signal_receive(v) ELSE v
           full == /\ "FCRCV" \in s.ioControl /\ ~s.receiveStopped
                   /\ Len(v.receiveBuffer) >= BUFCNT_STOP
           q == IF full THEN send_flow(<<w, sio>>, FC_STOP) ELSE <<w, sio>>
<1>1. /\ s \in PortState /\ sio \in ScifState
      /\ Len(s.sendBuffer) <= BUFSZ /\ Len(s.receiveBuffer) <= BUFSZ
      /\ ~s.errorFlag /\ SendRight(s, call) /\ RecvRight(s, call)
  BY Opened
<1>2. c \in Chr BY SerialAssumption DEF Chr
<1>3. s.receiveBuffer \in Seq(Chr) /\ Len(s.receiveBuffer) < BUFSZ
  BY <1>1 DEF PortState, received
<1>4. longer \in Seq(Chr) /\ longer # <<>> /\ Len(longer) <= BUFSZ
  BY <1>2, <1>3, Sizes
<1>5. /\ s' = IF full THEN [q[1] EXCEPT !.receiveStopped = TRUE] ELSE q[1]
      /\ sio' = q[2]
  BY DEF received
<1> HIDE DEF longer
<1>6. /\ v \in PortState /\ v.openFlag /\ ~v.errorFlag /\ v.receiveBuffer = longer
      /\ v.sendBuffer = s.sendBuffer
      /\ v.SendSemaphore = s.SendSemaphore /\ v.ReceiveSemaphore = s.ReceiveSemaphore
  BY <1>1, <1>4 DEF PortState
<1> HIDE DEF full, v
<1>7. /\ w \in PortState /\ w.openFlag /\ ~w.errorFlag /\ w.receiveBuffer = longer
      /\ w.sendBuffer = s.sendBuffer /\ w.SendSemaphore = s.SendSemaphore
      /\ RecvRight(w, call)
  <2>1. CASE s.receiveBuffer = <<>>
    <3>1. s.ReceiveSemaphore = 0 /\ Readers(call) = {}
      BY <2>1, <1>1 DEF PortState, RecvRight, NotTwice
    <3>2. w = [v EXCEPT !.ReceiveSemaphore = 1] BY <2>1, <3>1, <1>6 DEF signal_receive
    <3>3. /\ w \in PortState /\ w.openFlag /\ ~w.errorFlag /\ w.receiveBuffer = longer
          /\ w.sendBuffer = s.sendBuffer /\ w.SendSemaphore = s.SendSemaphore
          /\ w.ReceiveSemaphore = 1
      BY <3>2, <1>6 DEF PortState
    <3> HIDE DEF w
    <3> QED BY <3>1, <3>3, <1>4 DEF RecvRight, NotTwice
  <2>2. CASE s.receiveBuffer # <<>>
    <3>1. w = v BY <2>2
    <3>2. RecvRight(v, call) BY <2>2, <1>1, <1>4, <1>6 DEF RecvRight, NotTwice
    <3> QED BY <3>1, <3>2, <1>6
  <2> QED BY <2>1, <2>2
<1> HIDE DEF w
<1>8. /\ s' \in PortState /\ sio' \in ScifState
      /\ s'.openFlag /\ ~s'.errorFlag /\ s'.receiveBuffer = longer
      /\ s'.sendBuffer = s.sendBuffer
      /\ s'.SendSemaphore = w.SendSemaphore /\ s'.ReceiveSemaphore = w.ReceiveSemaphore
  <2>1. CASE ~full BY <2>1, <1>1, <1>5, <1>7
  <2>2. CASE full
    <3>1. FC_STOP \in Chr BY DEF Chr
    <3> DEFINE f == send_flow(<<w, sio>>, FC_STOP)
    <3>2. /\ f[1] \in PortState /\ f[2] \in ScifState
          /\ f[1] = [w EXCEPT !.receiveFlowControl = f[1].receiveFlowControl]
      BY <3>1, <1>1, <1>7, SendFlow
    <3>3. s' = [f[1] EXCEPT !.receiveStopped = TRUE] /\ sio' = f[2] BY <2>2, <1>5
    <3> HIDE DEF f
    <3> QED BY <3>2, <3>3, <1>7 DEF PortState
  <2> QED BY <2>1, <2>2
<1>9. SendRight(s', call) /\ RecvRight(s', call)
  BY <1>1, <1>7, <1>8 DEF SendRight, RecvRight
<1> QED BY <1>1, <1>4, <1>8, <1>9, Interrupted

LEMMA ReadyReceive ==
    ASSUME Inv(s, sio, call), NEW c \in Received, eiSIOCBR_readyReceive(c)
    PROVE  Inv(s', sio', call')
<1>1. s.openFlag /\ call' = call BY DEF eiSIOCBR_readyReceive, Inv
<1> QED BY <1>1, SendStopped, SendRestarted, Receives DEF eiSIOCBR_readyReceive

LEMMA Transmits ==
    ASSUME Inv(s, sio, call), transmit
    PROVE  Inv(s', sio', call')
<1>1. s.openFlag /\ call' = call /\ s' = s BY DEF transmit, Inv
<1>2. /\ s \in PortState /\ sio \in ScifState
      /\ Len(s.sendBuffer) <= BUFSZ /\ Len(s.receiveBuffer) <= BUFSZ
      /\ ~s.errorFlag /\ SendRight(s, call) /\ RecvRight(s, call)
  BY <1>1, Opened
<1>3. sio' \in ScifState
  <2>1. sio.fifo \in Seq(Chr) /\ sio.fifo # <<>> BY <1>2 DEF ScifState, transmit
  <2>2. Tail(sio.fifo) \in Seq(Chr) BY <2>1
  <2> QED BY <2>2, <1>2 DEF transmit, ScifState
<1> QED BY <1>1, <1>2, <1>3, Interrupted

-----------------------------------------------------------------------------
LEMMA InvInit == SerialInit => Inv(s, sio, call)
<1> SUFFICES ASSUME SerialInit PROVE Inv(s, sio, call) OBVIOUS
<1>1. <<>> \in Seq(Chr) /\ {} \in SUBSET IOCTL OBVIOUS
<1>2. s \in PortState BY <1>1 DEF SerialInit, PortState
<1>3. sio \in ScifState BY <1>1 DEF SerialInit, ScifState
<1>4. call \in [Task -> CallState] /\ \A t \in Task : call[t] = Idle
  BY IdleCalling DEF SerialInit, Calling
<1>5. /\ ~s.openFlag /\ ~s.errorFlag /\ s.SendSemaphore = 1 /\ s.ReceiveSemaphore = 0
      /\ s.sendBuffer = <<>> /\ s.receiveBuffer = <<>> /\ ~sio.TE /\ ~sio.TIE /\ ~sio.RIE
  BY DEF SerialInit
<1> QED BY <1>2, <1>3, <1>4, <1>5, IdleCalling, Sizes DEF Inv

LEMMA InvNext ==
    ASSUME Inv(s, sio, call), [SerialNext]_serial_vars
    PROVE  Inv(s', sio', call')
<1>1. ASSUME NEW t \in Task,
             \/ eSerialPort_open(t)
             \/ quiet /\ eSerialPort_close(t)
             \/ \E ioctl \in Controls : eSerialPort_control(t, ioctl)
             \/ \E buffer \in Strings : eSerialPort_write(t, buffer)
             \/ \E length \in Lengths : eSerialPort_read(t, length)
             \/ send_wait(t) \/ serialPort_writeChar(t) \/ send_signal(t)
             \/ receive_wait(t) \/ serialPort_readChar(t) \/ receive_signal(t)
             \/ release(t)
      PROVE  Inv(s', sio', call')
  BY <1>1, Opens, Closes, Controlled, Writes, Reads, WaitsToSend, WritesChar, Signals,
     WaitsToReceive, ReadsChar, ReceiveSignals, Releases
<1>2. CASE UNCHANGED serial_vars BY <1>2 DEF serial_vars
<1> QED BY <1>1, <1>2, ReadySend, Transmits, ReadyReceive DEF SerialNext

LEMMA InvOK == Inv(s, sio, call) => SerialOK
<1> SUFFICES ASSUME Inv(s, sio, call) PROVE SerialOK OBVIOUS
<1>1. Len(s.sendBuffer) <= BUFSZ /\ Len(s.receiveBuffer) <= BUFSZ /\ ~s.errorFlag BY DEF Inv
<1>2. ASSUME s.openFlag
      PROVE  /\ Once(s.SendSemaphore, sending, Len(s.sendBuffer) = BUFSZ)
             /\ AtMostOnce(s.ReceiveSemaphore, reading, s.receiveBuffer = <<>>)
  <2>1. SendRight(s, call) /\ RecvRight(s, call) BY <1>2, Opened
  <2>2. Once(s.SendSemaphore, sending, Len(s.sendBuffer) = BUFSZ)
    BY <2>1 DEF SendRight, Right, Senders, sends, Once, sending
  <2>3. AtMostOnce(s.ReceiveSemaphore, reading, s.receiveBuffer = <<>>)
    BY <2>1 DEF RecvRight, NotTwice, Readers, reads, AtMostOnce, reading
  <2> QED BY <2>2, <2>3
<1> QED BY <1>1, <1>2 DEF SerialOK

(* However tasks, interrupts and releases of calls interleave, the right to*)
(* send is in one place, the right to receive in no two, neither semaphore *)
(* is signalled beyond its maximum and neither buffer overflows.           *)
THEOREM SerialCorrect == SerialSpec => []SerialOK
<1>1. SerialInit => Inv(s, sio, call) BY InvInit
<1>2. Inv(s, sio, call) /\ [SerialNext]_serial_vars => Inv(s, sio, call)' BY InvNext
<1>3. Inv(s, sio, call) => SerialOK BY InvOK
<1> QED BY <1>1, <1>2, <1>3, PTL DEF SerialSpec
=============================================================================
