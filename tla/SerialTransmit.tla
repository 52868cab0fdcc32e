--------------------------- MODULE SerialTransmit ---------------------------
(***************************************************************************)
(* The transmit half of the built-in serial port (src/src/ODCom.c, method  *)
(* kComMethodUART): the ring that the door fills and the interrupt routine *)
(* empties, the transmit interrupt that is turned off when there is        *)
(* nothing to send and on again when there is, and RTS/CTS flow control    *)
(* by the modem.  The code between OD_COM_INTERRUPTS_DISABLE and           *)
(* _ENABLE is one action; the interrupt routine and the hardware move      *)
(* between any two actions of the door.  One pass of the loop of           *)
(* ODComInternalISR is one action.                                         *)
(***************************************************************************)
EXTENDS Integers, Sequences

CONSTANTS
    TXQueueSize,  \* od_com_tx_buf
    BufferMax,    \* the largest buffer given to ODComSendBuffer
    Numbers       \* bytes are numbered modulo this value

TransmitAssumption ==
    /\ TXQueueSize \in Nat \ {0}
    /\ BufferMax \in Nat \ {0}
    /\ Numbers \in Nat /\ Numbers > 1

VARIABLES
    pbtTXQueue, nTXInIndex, nTXOutIndex, nTXChars,
    bStopTrans,     \* the modem does not want bytes
    btFlowControl,  \* RTS/CTS flow control is used
    thre,           \* the transmit interrupt is enabled (IER)
    emptied,        \* the UART signals that its transmit register is empty
    holding,        \* the transmit register holds a byte
    shifting,       \* a byte is on its way to the line
    cts, dcts,      \* the modem's line and "it has changed" (MSR)
    door,           \* what the door does
    left,           \* bytes of ODComSendBuffer still to be queued
    next,           \* the number of the next byte the door sends
    last            \* the number of the byte given to the UART last

ring == <<pbtTXQueue, nTXInIndex, nTXOutIndex, nTXChars>>
modem == <<cts, dcts, bStopTrans>>
line == <<holding, shifting, emptied>>
call == <<door, left, next>>
vars == <<ring, btFlowControl, modem, line, thre, call, last>>

Bytes == 0..(Numbers - 1)
After(n, count) == (n + count) % Numbers

\* The port is open.  CTS was read before its interrupt was enabled, and may
\* have changed since.
Init ==
    /\ pbtTXQueue = [i \in 0..(TXQueueSize - 1) |-> 0]
    /\ nTXInIndex = 0 /\ nTXOutIndex = 0 /\ nTXChars = 0
    /\ btFlowControl \in BOOLEAN
    /\ cts \in BOOLEAN /\ dcts \in BOOLEAN
    /\ bStopTrans \in BOOLEAN
    /\ bStopTrans => btFlowControl
    /\ btFlowControl /\ ~dcts => bStopTrans = ~cts
    /\ thre = FALSE /\ emptied = TRUE
    /\ holding = FALSE /\ shifting = FALSE
    /\ door = "idle" /\ left = 0 /\ next = 0 /\ last = Numbers - 1

\* The interrupt that is enabled while the register is empty is signalled.
EnableTransmit ==
    /\ thre' = TRUE
    /\ emptied' = (emptied \/ (~thre /\ ~holding))

\* The ring with the next count bytes of the stream added.
Store(count) ==
    /\ pbtTXQueue' = [i \in 0..(TXQueueSize - 1) |->
          LET k == (i - nTXInIndex) % TXQueueSize IN
          IF k < count THEN After(next, k) ELSE pbtTXQueue[i]]
    /\ nTXInIndex' = (nTXInIndex + count) % TXQueueSize
    /\ nTXChars' = nTXChars + count
    /\ next' = After(next, count)
    /\ UNCHANGED nTXOutIndex
-----------------------------------------------------------------------------
(* The door *)

\* ODComInternalTXReady
TXReady == nTXChars < TXQueueSize

BeginSendByte ==
    /\ door = "idle" /\ door' = "byte"
    /\ UNCHANGED <<ring, btFlowControl, modem, line, thre, left, next, last>>

\* ODComSendByte waits, with interrupts enabled, until the ring has room ...
SeeRoom ==
    /\ door = "byte" /\ TXReady
    /\ door' = "room"
    /\ UNCHANGED <<ring, btFlowControl, modem, line, thre, left, next, last>>

\* ... and then stores the byte.
StoreByte ==
    /\ door = "room" /\ door' = "idle"
    /\ Store(1)
    /\ EnableTransmit
    /\ UNCHANGED <<btFlowControl, modem, holding, shifting, left, last>>

BeginSendBuffer ==
    /\ door = "idle" /\ door' = "buffer"
    /\ left' \in 1..BufferMax
    /\ UNCHANGED <<ring, btFlowControl, modem, line, thre, next, last>>

\* Mutant: one byte more than there is room for.
FittingOneMore == IF left > TXQueueSize - nTXChars THEN TXQueueSize - nTXChars + 1 ELSE left

\* One pass of ODComSendBuffer: as much of the buffer as fits, in two
\* segments if the ring's end lies between.
Fitting == IF left > TXQueueSize - nTXChars THEN TXQueueSize - nTXChars ELSE left

CopyBuffer ==
    /\ door = "buffer"
    /\ Store(Fitting)
    /\ EnableTransmit
    /\ left' = left - Fitting
    /\ door' = IF left' = 0 THEN "idle" ELSE "buffer"
    /\ UNCHANGED <<btFlowControl, modem, holding, shifting, last>>

\* ODComClearOutbound; a UART with FIFOs drops its byte too.
ClearOutbound ==
    /\ door = "idle"
    /\ nTXChars' = 0 /\ nTXInIndex' = 0 /\ nTXOutIndex' = 0
    /\ \/ holding' = FALSE /\ emptied' = TRUE
       \/ UNCHANGED <<holding, emptied>>
    /\ UNCHANGED <<pbtTXQueue, btFlowControl, modem, shifting, thre, call, last>>

\* ODWaitDrain asks ODComOutbound until nothing is left, or its time is up.
\* The ring's count and the line status are read one after the other.
BeginDrain ==
    /\ door = "idle" /\ door' = "drain"
    /\ UNCHANGED <<ring, btFlowControl, modem, line, thre, left, next, last>>

SeeRingEmpty ==
    /\ door = "drain" /\ nTXChars = 0
    /\ door' = "status"
    /\ UNCHANGED <<ring, btFlowControl, modem, line, thre, left, next, last>>

\* Mutant: THRE in place of TEMT.
RegisterEmpty == ~holding

\* TEMT: neither the transmit register nor the shift register holds a byte.
TransmitterEmpty == ~holding /\ ~shifting

SeeLineStatus ==
    /\ door = "status"
    /\ door' = IF TransmitterEmpty THEN "drained" ELSE "drain"
    /\ UNCHANGED <<ring, btFlowControl, modem, line, thre, left, next, last>>

EndDrain ==
    /\ door = "drained" /\ door' = "idle"
    /\ UNCHANGED <<ring, btFlowControl, modem, line, thre, left, next, last>>

DrainTimeout ==
    /\ door = "drain" /\ door' = "idle"
    /\ UNCHANGED <<ring, btFlowControl, modem, line, thre, left, next, last>>
-----------------------------------------------------------------------------
(* ODComInternalISR: the transmit interrupt comes before the modem status. *)

TransmitInterrupt == thre /\ emptied

\* Nothing to send, or nothing may be sent: the interrupt is turned off.
TurnOff ==
    /\ TransmitInterrupt
    /\ nTXChars <= 0 \/ bStopTrans
    /\ thre' = FALSE /\ emptied' = FALSE
    /\ UNCHANGED <<ring, btFlowControl, modem, holding, shifting, call, last>>

Load ==
    /\ TransmitInterrupt
    /\ nTXChars > 0 /\ ~bStopTrans
    /\ emptied' = FALSE
    /\ IF ~holding
       THEN /\ holding' = TRUE
            /\ last' = pbtTXQueue[nTXOutIndex]
            /\ nTXOutIndex' = (nTXOutIndex + 1) % TXQueueSize
            /\ nTXChars' = nTXChars - 1
       ELSE UNCHANGED <<holding, last, nTXOutIndex, nTXChars>>
    /\ UNCHANGED <<pbtTXQueue, nTXInIndex, btFlowControl, modem, shifting, thre, call>>

\* Mutant: sending is not started again when the modem raises CTS.
ModemStatusWithoutStart ==
    /\ dcts /\ ~TransmitInterrupt
    /\ dcts' = FALSE
    /\ IF btFlowControl THEN bStopTrans' = ~cts ELSE UNCHANGED bStopTrans
    /\ UNCHANGED <<thre, emptied>>
    /\ UNCHANGED <<ring, btFlowControl, cts, holding, shifting, call, last>>

\* Mutant: once stopped, sending stays stopped.
ModemStatusStops ==
    /\ dcts /\ ~TransmitInterrupt
    /\ dcts' = FALSE
    /\ bStopTrans' = (bStopTrans \/ (btFlowControl /\ ~cts))
    /\ UNCHANGED <<thre, emptied>>
    /\ UNCHANGED <<ring, btFlowControl, cts, holding, shifting, call, last>>

ModemStatus ==
    /\ dcts /\ ~TransmitInterrupt
    /\ dcts' = FALSE
    /\ IF btFlowControl
       THEN /\ bStopTrans' = ~cts
            /\ IF cts /\ nTXChars > 0 THEN EnableTransmit ELSE UNCHANGED <<thre, emptied>>
       ELSE UNCHANGED <<bStopTrans, thre, emptied>>
    /\ UNCHANGED <<ring, btFlowControl, cts, holding, shifting, call, last>>
-----------------------------------------------------------------------------
(* The UART and the modem *)

Shift ==
    /\ holding /\ ~shifting
    /\ shifting' = TRUE /\ holding' = FALSE
    /\ emptied' = TRUE
    /\ UNCHANGED <<ring, btFlowControl, modem, thre, call, last>>

\* "Some UARTs trigger transmit interrupts before the character has been
\* transmitted."
SignalEarly ==
    /\ holding /\ ~emptied
    /\ emptied' = TRUE
    /\ UNCHANGED <<ring, btFlowControl, modem, holding, shifting, thre, call, last>>

ShiftOut ==
    /\ shifting /\ shifting' = FALSE
    /\ UNCHANGED <<ring, btFlowControl, modem, holding, emptied, thre, call, last>>

ChangeCTS ==
    /\ cts' = ~cts /\ dcts' = TRUE
    /\ UNCHANGED <<ring, btFlowControl, bStopTrans, line, thre, call, last>>

Interrupt == TurnOff \/ Load \/ ModemStatus
Hardware == Shift \/ SignalEarly \/ ShiftOut \/ ChangeCTS
Door ==
    \/ BeginSendByte \/ SeeRoom \/ StoreByte \/ BeginSendBuffer \/ CopyBuffer
    \/ ClearOutbound \/ BeginDrain \/ SeeRingEmpty \/ SeeLineStatus \/ EndDrain
    \/ DrainTimeout
Next == Interrupt \/ Hardware \/ Door

\* The UART sends what it holds.  ODComInternalISR does not return before all
\* that is signalled has been served; since the door may move between two
\* passes here, this is strong fairness.
Fairness ==
    /\ SF_vars(TurnOff \/ Load) /\ SF_vars(ModemStatus)
    /\ WF_vars(Shift) /\ WF_vars(ShiftOut)

Spec == Init /\ [][Next]_vars /\ Fairness
-----------------------------------------------------------------------------
TypeOK ==
    /\ pbtTXQueue \in [0..(TXQueueSize - 1) -> Bytes]
    /\ nTXInIndex \in 0..(TXQueueSize - 1) /\ nTXOutIndex \in 0..(TXQueueSize - 1)
    /\ nTXChars \in 0..TXQueueSize
    /\ {bStopTrans, btFlowControl, thre, emptied, holding, shifting, cts, dcts} \subseteq BOOLEAN
    /\ door \in {"idle", "byte", "room", "buffer", "drain", "status", "drained"}
    /\ left \in 0..BufferMax
    /\ {next, last} \subseteq Bytes

\* The bytes in the ring, oldest first.
Waiting == [i \in 1..nTXChars |-> pbtTXQueue[(nTXOutIndex + i - 1) % TXQueueSize]]

Stream == INSTANCE ByteStream WITH Capacity <- TXQueueSize, queue <- Waiting, lost <- FALSE

\* The door fills the ring while the interrupt routine empties it
\* (ODCom.c:3357-3379, 3978-4048, 605-641): the UART gets every byte once and
\* in the order of the calls, until ODComClearOutbound drops them.
TransmitsInOrder == Stream!Spec

\* The transmit interrupt is never off, or left without a cause to occur, while
\* there is something to send that the modem would take (ODCom.c:586-592,
\* 605-611, 3375-3377): otherwise nothing would ever send it.
TransmitterArmed ==
    nTXChars > 0 /\ ~bStopTrans => thre /\ (emptied \/ holding)

\* When ODWaitDrain stops waiting before its time is up (ODCore.c:234-250,
\* ODCom.c:2440-2449), every byte sent before is on the line.
DrainedIsSent ==
    door = "drained" => nTXChars = 0 /\ ~holding /\ ~shifting

\* The oldest byte of the ring leaves it, unless the modem drops CTS.
OldestLeaves ==
    \A n \in Bytes :
        (nTXChars > 0 /\ pbtTXQueue[nTXOutIndex] = n)
            ~> (nTXChars = 0 \/ pbtTXQueue[nTXOutIndex] # n \/ (btFlowControl /\ ~cts))
=============================================================================
