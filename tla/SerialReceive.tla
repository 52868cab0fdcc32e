---------------------------- MODULE SerialReceive ----------------------------
(***************************************************************************)
(* The receive half of the built-in serial port (src/src/ODCom.c, method   *)
(* kComMethodUART): the ring that the interrupt routine fills and the door *)
(* empties, and the RTS line with which the port holds the caller's modem  *)
(* off.  RTS is lowered by the interrupt routine above the high-water mark *)
(* and raised by ODComGetByte below the low-water mark, with interrupts    *)
(* enabled: the routine may come between the door's look at the count and  *)
(* its write of the line.                                                  *)
(***************************************************************************)
EXTENDS Integers, Sequences

CONSTANTS
    RXQueueSize,  \* od_com_rx_buf
    ReadMax,      \* the largest buffer given to ODComGetBuffer
    Skid,         \* bytes the modem may still send when RTS is low
    Numbers       \* bytes are numbered modulo this value

ReceiveAssumption ==
    /\ RXQueueSize \in Nat \ {0}
    /\ ReadMax \in Nat \ {0}
    /\ Skid \in Nat
    /\ Numbers \in Nat /\ Numbers > 1

VARIABLES
    pbtRXQueue, nRXInIndex, nRXOutIndex, nRXChars,
    btFlowControl,  \* RTS/CTS flow control is used
    rts,            \* the port lets the modem send (MCR)
    arrived,        \* the receive register holds a byte
    mayStill,       \* bytes the modem may still send with RTS low
    lost,           \* a byte found the ring full
    held,           \* the ring was emptied in bulk while RTS was low
    door,           \* what the door does
    next,           \* the number of the next byte that is stored
    last            \* the number of the byte the door got last

ring == <<pbtRXQueue, nRXInIndex, nRXOutIndex, nRXChars>>
caller == <<arrived, mayStill>>
vars == <<ring, btFlowControl, rts, caller, lost, held, door, next, last>>

Bytes == 0..(Numbers - 1)

\* Mutant: the ring is filled further before the caller is held off.
HighWaterMarkLate == (RXQueueSize * 7) \div 8
nRXHighWaterMark == (RXQueueSize * 3) \div 4
nRXLowWaterMark == (RXQueueSize * 1) \div 4

\* ODComOpen has raised RTS and emptied the ring.
Init ==
    /\ pbtRXQueue = [i \in 0..(RXQueueSize - 1) |-> 0]
    /\ nRXInIndex = 0 /\ nRXOutIndex = 0 /\ nRXChars = 0
    /\ btFlowControl \in BOOLEAN /\ rts = TRUE
    /\ arrived = FALSE /\ mayStill = Skid
    /\ lost = FALSE /\ held = FALSE
    /\ door = "idle" /\ next = 0 /\ last = Numbers - 1

\* Mutant: the index is not wrapped at the end of the ring.
RemoveUnwrapped(count) ==
    /\ nRXOutIndex' = nRXOutIndex + count
    /\ nRXChars' = nRXChars - count
    /\ last' = IF count = 0 THEN last
               ELSE pbtRXQueue[(nRXOutIndex + count - 1) % RXQueueSize]
    /\ UNCHANGED <<pbtRXQueue, nRXInIndex>>

\* Taking count bytes leaves the last of them with the door.
Remove(count) ==
    /\ nRXOutIndex' = (nRXOutIndex + count) % RXQueueSize
    /\ nRXChars' = nRXChars - count
    /\ last' = IF count = 0 THEN last
               ELSE pbtRXQueue[(nRXOutIndex + count - 1) % RXQueueSize]
    /\ UNCHANGED <<pbtRXQueue, nRXInIndex>>
-----------------------------------------------------------------------------
(* The door *)

\* ODComGetByte returns at once if it need not wait and nothing is there.
BeginGetByte ==
    /\ door = "idle"
    /\ \/ door' = "waiting"
       \/ nRXChars > 0 /\ door' = "take"
    /\ UNCHANGED <<ring, btFlowControl, rts, caller, lost, held, next, last>>

SeeByte ==
    /\ door = "waiting" /\ nRXChars > 0
    /\ door' = "take"
    /\ UNCHANGED <<ring, btFlowControl, rts, caller, lost, held, next, last>>

\* Until then it calls the idle function, again and again.
CallIdle ==
    /\ door = "waiting" /\ nRXChars = 0
    /\ UNCHANGED vars

TakeByte ==
    /\ door = "take" /\ door' = "taken"
    /\ Remove(1)
    /\ UNCHANGED <<btFlowControl, rts, caller, lost, held, next>>

\* Mutant: the line is raised below the mark only.
SeeLowBelow ==
    /\ door = "taken"
    /\ door' = IF nRXChars < nRXLowWaterMark /\ btFlowControl THEN "raise" ELSE "idle"
    /\ UNCHANGED <<ring, btFlowControl, rts, caller, lost, held, next, last>>

\* Interrupts are enabled again: the count is read ...
SeeLow ==
    /\ door = "taken"
    /\ door' = IF nRXChars <= nRXLowWaterMark /\ btFlowControl THEN "raise" ELSE "idle"
    /\ UNCHANGED <<ring, btFlowControl, rts, caller, lost, held, next, last>>

\* ... and RTS written later.
RaiseRTS ==
    /\ door = "raise" /\ door' = "idle"
    /\ rts' = TRUE /\ held' = FALSE
    /\ UNCHANGED <<ring, btFlowControl, caller, lost, next, last>>

\* ODComGetBuffer leaves RTS as it is.
GetBuffer(size) ==
    /\ door = "idle"
    /\ Remove(IF nRXChars < size THEN nRXChars ELSE size)
    /\ held' = (held \/ (~rts /\ nRXChars' <= nRXLowWaterMark))
    /\ UNCHANGED <<btFlowControl, rts, caller, lost, door, next>>

\* Mutant: the index of the oldest byte stays.
ClearKeepsOutIndex ==
    /\ door = "idle"
    /\ nRXChars' = 0 /\ nRXInIndex' = 0
    /\ arrived' \in {arrived, FALSE}
    /\ held' = (held \/ ~rts)
    /\ UNCHANGED <<pbtRXQueue, nRXOutIndex, btFlowControl, rts, mayStill, lost, door, next, last>>

\* ODComClearInbound (od_clear_keybuffer) too; a UART with FIFOs drops the byte
\* that is just there.
ClearInbound ==
    /\ door = "idle"
    /\ nRXChars' = 0 /\ nRXInIndex' = 0 /\ nRXOutIndex' = 0
    /\ arrived' \in {arrived, FALSE}
    /\ held' = (held \/ ~rts)
    /\ UNCHANGED <<pbtRXQueue, btFlowControl, rts, mayStill, lost, door, next, last>>
-----------------------------------------------------------------------------
(* ODComInternalISR, on a received byte *)
ReceiveData ==
    /\ arrived /\ arrived' = FALSE
    /\ rts' = (rts /\ ~(btFlowControl /\ nRXChars >= nRXHighWaterMark))
    /\ IF nRXChars < RXQueueSize
       THEN /\ pbtRXQueue' = [pbtRXQueue EXCEPT ![nRXInIndex] = next]
            /\ nRXInIndex' = (nRXInIndex + 1) % RXQueueSize
            /\ nRXChars' = nRXChars + 1
            /\ next' = (next + 1) % Numbers
            /\ UNCHANGED lost
       ELSE /\ lost' = TRUE
            /\ UNCHANGED <<pbtRXQueue, nRXInIndex, nRXChars, next>>
    /\ UNCHANGED <<nRXOutIndex, btFlowControl, mayStill, held, door, last>>

(* The caller's modem sends the next byte once the UART's register is free. *)
Arrive ==
    /\ ~arrived /\ arrived' = TRUE
    /\ rts \/ mayStill > 0
    /\ mayStill' = IF rts THEN Skid ELSE mayStill - 1
    /\ UNCHANGED <<ring, btFlowControl, rts, lost, held, door, next, last>>

Door ==
    \/ BeginGetByte \/ SeeByte \/ CallIdle \/ TakeByte \/ SeeLow \/ RaiseRTS
    \/ ClearInbound \/ \E size \in 1..ReadMax : GetBuffer(size)
Next == ReceiveData \/ Arrive \/ Door

\* A byte that is there is fetched, the modem sends when it may, and the door
\* goes on calling ODComGetByte (od_kernel does so in every pass).
Fairness ==
    /\ WF_vars(ReceiveData) /\ WF_vars(Arrive)
    /\ WF_vars(SeeByte) /\ WF_vars(TakeByte) /\ WF_vars(SeeLow) /\ WF_vars(RaiseRTS)
    /\ WF_vars(BeginGetByte)

Spec == Init /\ [][Next]_vars /\ Fairness
-----------------------------------------------------------------------------
TypeOK ==
    /\ pbtRXQueue \in [0..(RXQueueSize - 1) -> Bytes]
    /\ nRXInIndex \in 0..(RXQueueSize - 1) /\ nRXOutIndex \in 0..(RXQueueSize - 1)
    /\ nRXChars \in 0..RXQueueSize
    /\ {btFlowControl, rts, arrived, lost, held} \subseteq BOOLEAN
    /\ mayStill \in 0..Skid
    /\ door \in {"idle", "waiting", "take", "taken", "raise"}
    /\ {next, last} \subseteq Bytes

Waiting == [i \in 1..nRXChars |-> pbtRXQueue[(nRXOutIndex + i - 1) % RXQueueSize]]

Stream == INSTANCE ByteStream WITH
    Capacity <- RXQueueSize, queue <- Waiting

\* The interrupt routine fills the ring while the door empties it
\* (ODCom.c:645-676, 2866-2894, 3620-3676): the door gets every byte that found
\* room once and in order, and only a full ring refuses one.
ReceivesInOrder == Stream!Spec

\* With flow control no byte is lost when the quarter of the ring above the
\* high-water mark holds, twice over, the byte that lowers RTS and those the
\* modem still sends: twice, because the door may raise RTS on a count that is
\* no longer true (ODCom.c:651-662, 2896-2907).
FlowControlLosesNothing ==
    btFlowControl /\ 2 * (Skid + 1) <= RXQueueSize \div 4 => ~lost

\* The modem is not left held off by a ring that has room again: a low RTS goes
\* with a ring above the low-water mark, or the door is about to raise it, or
\* the ring was emptied in bulk (ODCom.c:2896-2907, 531, 3670).
HeldOffForCause ==
    ~rts => nRXChars > nRXLowWaterMark \/ door \in {"taken", "raise"} \/ held

\* "Keys which arrive afterward remain available": a caller whose input was
\* cleared may send again.
ClearedCallerMaySend == held ~> rts
=============================================================================
