----------------------------- MODULE MCDevices -----------------------------
(* HrtTimer, SerialPort and LogBuffer for TLC, one in each initial state.  *)
(* The cycle of the counter is as long as the timer's in proportion to a   *)
(* block: four blocks and a rest, to which four is missing up to a whole   *)
(* number of microseconds. The buffers of the port hold as many characters *)
(* as it takes for STOP to be sent before they are full, and START before  *)
(* they are empty.                                                         *)
EXTENDS HrtTimer, SerialPort, LogBuffer, TLC

CONSTANTS
    important, detail,  \* messages, of different priorities
    MaxLost             \* bound: the messages lost before one is read

MCStrings == {<<"x">>, <<LF, "x">>}
MCReceived == {"x", FC_STOP, FC_START}
MCFlow == {FC_STOP, FC_START}
MCControls == {{"FCSND", "FCANY", "FCRCV"}}
Symmetry == Permutations(Task)
MCPriority == [m \in Message |-> IF m = important THEN "emerg" ELSE "info"]

VARIABLE device

LogUnused == logBuffer = [i \in Slot |-> important]

DevicesInit ==
    /\ HrtInit /\ SerialInit /\ LogInit
    /\ \/ device = "timer" /\ LogUnused
       \/ device = "port" /\ LogUnused /\ cnt = 0
       \/ device = "log" /\ cnt = 0

DevicesNext ==
    /\ \/ device = "timer" /\ HrtNext /\ UNCHANGED <<serial_vars, log_vars>>
       \/ device = "port" /\ SerialNext /\ UNCHANGED <<hrt_vars, log_vars>>
       \/ device = "log" /\ LogNext /\ lost' <= MaxLost
                         /\ UNCHANGED <<hrt_vars, serial_vars>>
    /\ UNCHANGED device

DevicesSpec ==
    DevicesInit /\ [][DevicesNext]_<<hrt_vars, serial_vars, log_vars, device>>

(* The port alone: the SCIF goes on sending, and its interrupt is taken. *)
PortSpec ==
    /\ DevicesSpec /\ device = "port"
    /\ WF_serial_vars(transmit) /\ WF_serial_vars(eiSIOCBR_readySend)

(* Neither the serial port nor the system log loses, doubles or overtakes  *)
(* what is written, except for what the log counts as lost.                *)
StreamsKept == StreamKept /\ ImplementsLog
=============================================================================
