-------------------------------- MODULE Line --------------------------------
(***************************************************************************)
(* The line between the caller and the door: the built-in serial port as   *)
(* it is opened and closed, and its two halves while it is open, the two   *)
(* directions of a Telnet socket, the common input queue and the           *)
(* translation of key sequences.  What they share is a sequence of bytes   *)
(* that one hands to the next, of which each assumes nothing; so a         *)
(* behaviour of them all is a behaviour of each, and one of them, chosen   *)
(* at the start, moves here while the others wait.                         *)
(***************************************************************************)
EXTENDS InQueue

CONSTANTS
    RXQueueSize, ReadMax, Skid, Numbers, TXQueueSize, BufferMax,  \* the serial port
    MaxForms, TextMax, Buffers,                                   \* the socket
    SEQUENCE_BUFFER_SIZE, MaxQueued, MaxPending, Modes            \* key sequences

VARIABLES
    part,  \* the part of the line that moves
    pbtRXQueue, nRXInIndex, nRXOutIndex, nRXChars, rxFlowControl, rts, arrived, mayStill,
    lost, held, rxDoor, rxNext, rxLast,
    pbtTXQueue, nTXInIndex, nTXOutIndex, nTXChars, bStopTrans, txFlowControl, thre,
    emptied, holding, shifting, cts, dcts, txDoor, left, txNext, txLast,
    socket, TelnetInputState, replay, typed, read, forms, bare, callFailed, closed,
    text, pending, wire, count, sendFailed,
    queue, szCurrentSequence, bDoorwaySequence, bDoorwaySequencePending, call, owed, event,
    overrun,
    step, vector, masked, ier, mcr, saved, rings, toSend, full, stopped, rtsCts, found

Receive == INSTANCE SerialReceive WITH
    btFlowControl <- rxFlowControl, door <- rxDoor, next <- rxNext, last <- rxLast
Transmit == INSTANCE SerialTransmit WITH
    btFlowControl <- txFlowControl, door <- txDoor, next <- txNext, last <- txLast
TelnetIn == INSTANCE TelnetInput WITH failed <- callFailed
TelnetOut == INSTANCE TelnetOutput WITH failed <- sendFailed, BufferMax <- TextMax
Keys == INSTANCE KeySequences
Port == INSTANCE SerialPort WITH bStopTrans <- stopped

ASSUME LineAssumption ==
    /\ Receive!ReceiveAssumption /\ Transmit!TransmitAssumption
    /\ TelnetIn!TelnetAssumption /\ TelnetOut!OutputAssumption
    /\ Keys!KeysAssumption

receiveVars ==
    <<pbtRXQueue, nRXInIndex, nRXOutIndex, nRXChars, rxFlowControl, rts, arrived,
      mayStill, lost, held, rxDoor, rxNext, rxLast>>
transmitVars ==
    <<pbtTXQueue, nTXInIndex, nTXOutIndex, nTXChars, bStopTrans, txFlowControl, thre,
      emptied, holding, shifting, cts, dcts, txDoor, left, txNext, txLast>>
telnetInVars ==
    <<socket, TelnetInputState, replay, typed, read, forms, bare, callFailed, closed>>
telnetOutVars == <<text, pending, wire, count, sendFailed>>
keysVars ==
    <<queue, szCurrentSequence, bDoorwaySequence, bDoorwaySequencePending, call, owed, event,
      overrun>>
portVars ==
    <<step, vector, masked, ier, mcr, saved, rings, toSend, full, stopped, rtsCts, found>>
lineVars ==
    <<part, vars, receiveVars, transmitVars, telnetInVars, telnetOutVars, keysVars,
      portVars>>

LineInit ==
    /\ part \in {"receive", "transmit", "telnet in", "telnet out", "queue", "keys", "port"}
    /\ Init /\ Receive!Init /\ Transmit!Init /\ TelnetIn!Init /\ TelnetOut!Init /\ Keys!Init
    /\ Port!PortInit

ReceiveStep ==
    /\ part = "receive" /\ Receive!Next
    /\ UNCHANGED <<part, vars, transmitVars, telnetInVars, telnetOutVars, keysVars, portVars>>

Transmits(action) ==
    /\ part = "transmit" /\ action
    /\ UNCHANGED <<part, vars, receiveVars, telnetInVars, telnetOutVars, keysVars, portVars>>

TransmitStep == Transmits(Transmit!Next)

TelnetInStep ==
    /\ part = "telnet in" /\ TelnetIn!Next
    /\ UNCHANGED <<part, vars, receiveVars, transmitVars, telnetOutVars, keysVars, portVars>>

TelnetOutStep ==
    /\ part = "telnet out" /\ TelnetOut!Next
    /\ UNCHANGED <<part, vars, receiveVars, transmitVars, telnetInVars, keysVars, portVars>>

QueueStep ==
    /\ part = "queue" /\ Next
    /\ UNCHANGED <<part, receiveVars, transmitVars, telnetInVars, telnetOutVars, keysVars, portVars>>

KeysStep ==
    /\ part = "keys" /\ Keys!KeysNext
    /\ UNCHANGED <<part, vars, receiveVars, transmitVars, telnetInVars, telnetOutVars, portVars>>

PortStep ==
    /\ part = "port" /\ Port!PortNext
    /\ UNCHANGED <<part, vars, receiveVars, transmitVars, telnetInVars, telnetOutVars, keysVars>>

LineNext ==
    \/ ReceiveStep \/ TransmitStep \/ TelnetInStep \/ TelnetOutStep
    \/ QueueStep \/ KeysStep \/ PortStep

\* The fairness of the part that moves.
LineSpec ==
    /\ LineInit /\ [][LineNext]_lineVars
    /\ SF_lineVars(Transmits(Transmit!TurnOff \/ Transmit!Load))
    /\ SF_lineVars(Transmits(Transmit!ModemStatus))
    /\ WF_lineVars(Transmits(Transmit!Shift))
    /\ WF_lineVars(Transmits(Transmit!ShiftOut))

LineTypeOK ==
    /\ TypeOK
    /\ Receive!TypeOK /\ Transmit!TypeOK /\ TelnetIn!TypeOK /\ TelnetOut!TypeOK
    /\ Keys!TypeOK /\ Port!PortTypeOK

\* The properties of the parts, stated where the parts are.  The port is given
\* back as it was found, and interrupts find their routine; the rings keep the
\* order of the bytes; the transmitter is armed while there is something to
\* send, a drained port has sent everything, and the oldest byte leaves; flow
\* control loses nothing and lets the caller send again; Telnet carries keys
\* and text unchanged, among commands and failures; bytes of key sequences are
\* returned in order, the longest sequence at once, and none that is a key fills
\* the buffer.
PortChangesHands == Port!InterruptsFindRoutine /\ Port!PortIsReturned
RingsKeepOrder == Transmit!TransmitsInOrder /\ Receive!ReceivesInOrder
TransmitterArmed == Transmit!TransmitterArmed
DrainedIsSent == Transmit!DrainedIsSent
OldestLeaves == Transmit!OldestLeaves
FlowControlWorks == Receive!FlowControlLosesNothing /\ Receive!HeldOffForCause
TelnetIsTransparent == TelnetIn!KeysSurviveCommands /\ TelnetOut!TerminalShowsText
BytesAccounted == Keys!BytesAccounted
TranslatesLongest == Keys!TranslatesLongest
OnlyUnknownOverruns == Keys!OnlyUnknownOverruns
=============================================================================
