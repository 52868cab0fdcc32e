----------------------------- MODULE LineProofs -----------------------------
(***************************************************************************)
(* What Line promises, for every value of the constants: rings of any size *)
(* and any number of bytes and keys.                                       *)
(*                                                                         *)
(* A step of the line is a step of one part, and leaves the variables of   *)
(* the others alone; so each property has an invariant that speaks of one  *)
(* part, and the lemmas TransmitMoves, ReceiveMoves, PortMoves, KeysMove,  *)
(* TelnetInMoves and TelnetOutMoves reduce a step of the line to a step of *)
(* that part.                                                              *)
(***************************************************************************)
EXTENDS Line, InQueueProofs, SequenceTheorems, Recursion

LEMMA TransmitMoves ==
    ASSUME [LineNext]_lineVars
    PROVE  Transmit!Next \/ UNCHANGED transmitVars
BY DEF LineNext, ReceiveStep, Transmits, TransmitStep, TelnetInStep, TelnetOutStep, QueueStep,
   KeysStep, PortStep, lineVars, transmitVars

LEMMA ReceiveMoves ==
    ASSUME [LineNext]_lineVars
    PROVE  Receive!Next \/ UNCHANGED receiveVars
BY DEF LineNext, ReceiveStep, Transmits, TransmitStep, TelnetInStep, TelnetOutStep, QueueStep,
   KeysStep, PortStep, lineVars, receiveVars

LEMMA PortMoves ==
    ASSUME [LineNext]_lineVars
    PROVE  Port!PortNext \/ UNCHANGED portVars
BY DEF LineNext, ReceiveStep, Transmits, TransmitStep, TelnetInStep, TelnetOutStep, QueueStep,
   KeysStep, PortStep, lineVars, portVars

LEMMA KeysMove ==
    ASSUME [LineNext]_lineVars
    PROVE  Keys!KeysNext \/ UNCHANGED keysVars
BY DEF LineNext, ReceiveStep, Transmits, TransmitStep, TelnetInStep, TelnetOutStep, QueueStep,
   KeysStep, PortStep, lineVars, keysVars

---------------------------------------------------------------------------
(* The transmitter.                                                        *)

\* A transmit interrupt that is enabled has a cause, now or when the register
\* is empty; while the status is looked at the ring stays empty.
TransmitInv ==
    /\ nTXChars \in Int /\ left \in Int
    /\ thre => emptied \/ holding
    /\ TransmitterArmed
    /\ txDoor = "status" => nTXChars = 0
    /\ DrainedIsSent

\* Enabled again, the interrupt has a cause.
LEMMA Enabled ==
    ASSUME thre => emptied \/ holding, Transmit!EnableTransmit
    PROVE  thre' /\ (emptied' \/ holding)
BY Zenon DEF Transmit!EnableTransmit

LEMMA TransmitInvStep ==
    ASSUME TransmitInv, Transmit!Next
    PROVE  TransmitInv'
<1> USE DEF TransmitInv, TransmitterArmed, DrainedIsSent, Transmit!TransmitterArmed,
            Transmit!DrainedIsSent, Transmit!ring, Transmit!modem, Transmit!line, Transmit!call
<1>0. TXQueueSize \in Nat /\ BufferMax \in Nat
  BY LineAssumption DEF Transmit!TransmitAssumption
<1>1. CASE Transmit!BeginSendByte
  BY <1>1 DEF Transmit!BeginSendByte
<1>2. CASE Transmit!SeeRoom
  BY <1>2 DEF Transmit!SeeRoom
<1>3. CASE Transmit!StoreByte
  BY <1>3, Enabled DEF Transmit!StoreByte, Transmit!Store
<1>4. CASE Transmit!BeginSendBuffer
  BY <1>0, <1>4 DEF Transmit!BeginSendBuffer
<1>5. CASE Transmit!CopyBuffer
  <2>1. Transmit!Fitting \in Int
    BY <1>0 DEF Transmit!Fitting
  <2> QED
    BY <1>5, <2>1, Enabled DEF Transmit!CopyBuffer, Transmit!Store
<1>6. CASE Transmit!ClearOutbound
  BY <1>6 DEF Transmit!ClearOutbound
<1>7. CASE Transmit!BeginDrain
  BY <1>7 DEF Transmit!BeginDrain
<1>8. CASE Transmit!SeeRingEmpty
  BY <1>8 DEF Transmit!SeeRingEmpty
<1>9. CASE Transmit!SeeLineStatus
  BY <1>9 DEF Transmit!SeeLineStatus, Transmit!TransmitterEmpty
<1>10. CASE Transmit!EndDrain \/ Transmit!DrainTimeout
  BY <1>10 DEF Transmit!EndDrain, Transmit!DrainTimeout
<1>11. CASE Transmit!TurnOff
  BY <1>11 DEF Transmit!TurnOff
<1>12. CASE Transmit!Load
  BY <1>12 DEF Transmit!Load
<1>13. CASE Transmit!ModemStatus
  BY <1>13, Enabled DEF Transmit!ModemStatus
<1>14. CASE Transmit!Hardware
  BY <1>14 DEF Transmit!Hardware, Transmit!Shift, Transmit!SignalEarly, Transmit!ShiftOut,
     Transmit!ChangeCTS
<1> QED
  BY <1>1, <1>2, <1>3, <1>4, <1>5, <1>6, <1>7, <1>8, <1>9, <1>10, <1>11, <1>12, <1>13,
     <1>14 DEF Transmit!Next, Transmit!Interrupt, Transmit!Door

---------------------------------------------------------------------------
(* The port changes hands.                                                 *)

\* The UART's registers are as they were found, but for what the interrupt
\* routine may do to them once they are restored.
InterruptsAsFound(f, enabled) ==
    /\ "OUT2" \notin f.mcr => enabled = f.ier
    /\ enabled \ {"THRE"} = f.ier \ {"THRE"} /\ (f.ier = {} => enabled = {})
ModemAsFound(f, control) ==
    /\ "OUT2" \notin f.mcr => control = f.mcr
    /\ control \in {f.mcr, f.mcr \ {"RTS"}}

\* Where ODComOpen and ODComClose are.
VectorIsOther == {"closed", "allocated", "tested", "masked"}
MaskIsFound == {"closed", "allocated", "tested", "mask restored"}
LineIsMasked == {"masked", "vector set", "modem set", "enabled"}
InterruptsAreOff == {"tested", "masked", "vector set", "modem set"}
InterruptsAreSaved == InterruptsAreOff \union {"enabled", "open", "modem restored"}
ModemIsSaved == {"modem set", "enabled", "open"}

\* Each register is as it was found, in the saved copy or again in the UART.
PortPlaces ==
    /\ found.vector = "other"
    /\ vector = IF step \in VectorIsOther THEN "other" ELSE "ODComInternalISR"
    /\ step \notin VectorIsOther => saved.vector = "other"
    /\ step # "closed" => rings
    /\ step \in MaskIsFound => masked = found.masked
    /\ step \notin MaskIsFound => saved.masked = found.masked
    /\ step \in LineIsMasked => masked
    /\ step \in InterruptsAreOff => ier = {}
    /\ InterruptsAsFound(found, IF step \in InterruptsAreSaved THEN saved.ier ELSE ier)
    /\ ModemAsFound(found, IF step \in ModemIsSaved THEN saved.mcr ELSE mcr)

\* A register that is saved.
LEMMA SavedInterrupts ==
    ASSUME NEW s \in Port!Hardware, NEW i \in SUBSET {"DR", "THRE", "MS"}
    PROVE  LET t == [s EXCEPT !.ier = i]
           IN  /\ t \in Port!Hardware /\ t.ier = i
               /\ t.mcr = s.mcr /\ t.vector = s.vector /\ t.masked = s.masked
BY DEF Port!Hardware

LEMMA SavedModem ==
    ASSUME NEW s \in Port!Hardware, NEW m \in SUBSET {"DTR", "RTS", "OUT2"}
    PROVE  LET t == [s EXCEPT !.mcr = m]
           IN  /\ t \in Port!Hardware /\ t.mcr = m
               /\ t.ier = s.ier /\ t.vector = s.vector /\ t.masked = s.masked
BY DEF Port!Hardware

LEMMA SavedMask ==
    ASSUME NEW s \in Port!Hardware, NEW m \in BOOLEAN
    PROVE  LET t == [s EXCEPT !.masked = m]
           IN  /\ t \in Port!Hardware /\ t.masked = m
               /\ t.ier = s.ier /\ t.vector = s.vector /\ t.mcr = s.mcr
BY DEF Port!Hardware

LEMMA SavedVector ==
    ASSUME NEW s \in Port!Hardware, NEW v \in {"other", "ODComInternalISR"}
    PROVE  LET t == [s EXCEPT !.vector = v]
           IN  /\ t \in Port!Hardware /\ t.vector = v
               /\ t.ier = s.ier /\ t.masked = s.masked /\ t.mcr = s.mcr
BY DEF Port!Hardware

PortTypes ==
    /\ vector \in {"other", "ODComInternalISR"} /\ masked \in BOOLEAN
    /\ ier \in SUBSET {"DR", "THRE", "MS"} /\ mcr \in SUBSET {"DTR", "RTS", "OUT2"}
    /\ saved \in Port!Hardware /\ found \in Port!Hardware
    /\ rings \in BOOLEAN /\ toSend \in BOOLEAN /\ full \in BOOLEAN /\ stopped \in BOOLEAN
    /\ rtsCts \in BOOLEAN
    /\ step \in {"closed", "allocated", "tested", "masked", "vector set", "modem set",
                 "enabled", "open", "modem restored", "interrupts restored",
                 "mask restored"}

\* What is restored is of the register's type.
LEMMA Restored ==
    ASSUME NEW s \in Port!Hardware
    PROVE  /\ s.vector \in {"other", "ODComInternalISR"} /\ s.masked \in BOOLEAN
           /\ s.ier \in SUBSET {"DR", "THRE", "MS"} /\ s.mcr \in SUBSET {"DTR", "RTS", "OUT2"}
BY DEF Port!Hardware

LEMMA PortTypeStep ==
    ASSUME PortTypes, Port!PortNext
    PROVE  PortTypes'
<1> USE DEF PortTypes, Port!hardware, Port!software, Port!Goes
<1>1. CASE Port!Allocate \/ Port!EnableInterrupts \/ Port!UnmaskLine \/ Port!Send
  BY <1>1 DEF Port!Allocate, Port!EnableInterrupts, Port!UnmaskLine, Port!Send
<1>2. CASE Port!TestUART
  <2>1. saved' = [saved EXCEPT !.ier = ier]
    BY <1>2 DEF Port!TestUART
  <2>2. saved' \in Port!Hardware
    BY <2>1, SavedInterrupts
  <2> QED
    BY <1>2, <2>2 DEF Port!TestUART
<1>3. CASE Port!MaskLine
  <2>1. saved' = [saved EXCEPT !.masked = masked]
    BY <1>3 DEF Port!MaskLine
  <2>2. saved' \in Port!Hardware
    BY <2>1, SavedMask
  <2> QED
    BY <1>3, <2>2 DEF Port!MaskLine
<1>8. CASE Port!SetVector
  <2>1. saved' = [saved EXCEPT !.vector = vector]
    BY <1>8 DEF Port!SetVector
  <2>2. saved' \in Port!Hardware
    BY <2>1, SavedVector
  <2> QED
    BY <1>8, <2>2 DEF Port!SetVector
<1>9. CASE Port!SetModemControl
  <2>1. saved' = [saved EXCEPT !.mcr = mcr]
    BY <1>9 DEF Port!SetModemControl
  <2>2. saved' \in Port!Hardware
    BY <2>1, SavedModem
  <2> QED
    BY <1>9, <2>2 DEF Port!SetModemControl
<1>4. CASE \/ Port!RestoreModemControl \/ Port!RestoreInterrupts \/ Port!RestoreMask
           \/ Port!RestoreVector
  BY <1>4, Restored DEF Port!RestoreModemControl, Port!RestoreInterrupts, Port!RestoreMask,
     Port!RestoreVector
<1>5. CASE Port!Take \/ Port!SetDTR
  BY <1>5 DEF Port!Take, Port!SetDTR
<1>6. CASE Port!ModemStatus
  BY <1>6 DEF Port!ModemStatus, Port!Interrupt
<1>7. CASE Port!Transmit
  BY <1>7 DEF Port!Transmit, Port!Interrupt
<1>10. CASE Port!Receive
  BY <1>10 DEF Port!Receive, Port!Interrupt
<1> QED
  BY <1>1, <1>2, <1>3, <1>4, <1>5, <1>6, <1>7, <1>8, <1>9, <1>10 DEF Port!PortNext

LEMMA PortInvStep ==
    ASSUME PortTypes, PortPlaces, Port!PortNext
    PROVE  PortPlaces'
<1> USE DEF PortPlaces, Port!hardware, Port!software, Port!Goes, VectorIsOther, MaskIsFound,
            LineIsMasked, InterruptsAreOff, InterruptsAreSaved, ModemIsSaved
<1>0. /\ saved \in Port!Hardware
      /\ ier \in SUBSET {"DR", "THRE", "MS"} /\ mcr \in SUBSET {"DTR", "RTS", "OUT2"}
      /\ masked \in BOOLEAN /\ vector \in {"other", "ODComInternalISR"}
  BY DEF PortTypes
<1>1. CASE Port!Allocate
  BY <1>1 DEF Port!Allocate
<1>2. CASE Port!TestUART
  <2>1. saved' = [saved EXCEPT !.ier = ier]
    BY <1>2 DEF Port!TestUART
  <2>2. /\ saved'.ier = ier
        /\ saved'.masked = saved.masked /\ saved'.vector = saved.vector /\ saved'.mcr = saved.mcr
    BY <1>0, <2>1, SavedInterrupts
  <2> QED
    BY <1>2, <2>2 DEF Port!TestUART
<1>3. CASE Port!MaskLine
  <2>1. saved' = [saved EXCEPT !.masked = masked]
    BY <1>3 DEF Port!MaskLine
  <2>2. /\ saved'.masked = masked
        /\ saved'.ier = saved.ier /\ saved'.vector = saved.vector /\ saved'.mcr = saved.mcr
    BY <1>0, <2>1, SavedMask
  <2> QED
    BY <1>3, <2>2 DEF Port!MaskLine
<1>4. CASE Port!SetVector
  <2>1. saved' = [saved EXCEPT !.vector = vector]
    BY <1>4 DEF Port!SetVector
  <2>2. /\ saved'.vector = vector
        /\ saved'.ier = saved.ier /\ saved'.masked = saved.masked /\ saved'.mcr = saved.mcr
    <3>1. saved \in Port!Hardware /\ vector \in {"other", "ODComInternalISR"}
      BY <1>0
    <3> QED
      BY <2>1, <3>1, SavedVector
  <2> QED
    BY <1>4, <2>2 DEF Port!SetVector
<1>5. CASE Port!SetModemControl
  <2>1. saved' = [saved EXCEPT !.mcr = mcr]
    BY <1>5 DEF Port!SetModemControl
  <2>2. /\ saved'.mcr = mcr
        /\ saved'.ier = saved.ier /\ saved'.masked = saved.masked /\ saved'.vector = saved.vector
    BY <1>0, <2>1, SavedModem
  <2> QED
    BY <1>5, <2>2 DEF Port!SetModemControl
<1>6. CASE Port!EnableInterrupts
  BY <1>6 DEF Port!EnableInterrupts
<1>7. CASE Port!UnmaskLine
  BY <1>7 DEF Port!UnmaskLine
<1>8. CASE Port!RestoreModemControl
  BY <1>8 DEF Port!RestoreModemControl
<1>9. CASE Port!RestoreInterrupts
  BY <1>9 DEF Port!RestoreInterrupts
<1>10. CASE Port!RestoreMask
  BY <1>10 DEF Port!RestoreMask
<1>11. CASE Port!RestoreVector
  BY <1>11 DEF Port!RestoreVector
<1>12. CASE Port!Send
  BY <1>12 DEF Port!Send
<1>13. CASE Port!Take
  BY <1>13 DEF Port!Take
<1>14. CASE Port!SetDTR
  BY <1>14 DEF Port!SetDTR
<1>15. CASE Port!ModemStatus
  <2>1. /\ step \in {"open", "modem restored", "interrupts restored", "mask restored"}
        /\ "OUT2" \in mcr /\ UNCHANGED <<step, vector, masked, saved, rings, found>>
    BY <1>0, <1>15 DEF Port!ModemStatus, Port!Interrupt, Port!Delivered, PortTypes
  <2>2. mcr' = mcr /\ ier' \in {ier, ier \union {"THRE"}, ier \ {"THRE"}} /\ ier # {}
    BY <1>15 DEF Port!ModemStatus, Port!Interrupt, Port!Delivered
  <2>3. CASE step \in InterruptsAreSaved
    BY <2>1, <2>2, <2>3
  <2>4. CASE step \notin InterruptsAreSaved
    <3>1. "OUT2" \in found.mcr /\ InterruptsAsFound(found, ier)
      BY <2>1, <2>4 DEF ModemAsFound
    <3>2. InterruptsAsFound(found, ier')
      BY <2>2, <3>1 DEF InterruptsAsFound
    <3> QED
      BY <2>1, <2>2, <2>4, <3>2
  <2> QED
    BY <2>3, <2>4
<1>16. CASE Port!Transmit
  <2>1. /\ step \in {"open", "modem restored", "interrupts restored", "mask restored"}
        /\ "OUT2" \in mcr /\ UNCHANGED <<step, vector, masked, saved, rings, found>>
    BY <1>0, <1>16 DEF Port!Transmit, Port!Interrupt, Port!Delivered, PortTypes
  <2>2. mcr' = mcr /\ ier' \in {ier, ier \union {"THRE"}, ier \ {"THRE"}} /\ ier # {}
    BY <1>16 DEF Port!Transmit, Port!Interrupt, Port!Delivered
  <2>3. CASE step \in InterruptsAreSaved
    BY <2>1, <2>2, <2>3
  <2>4. CASE step \notin InterruptsAreSaved
    <3>1. "OUT2" \in found.mcr /\ InterruptsAsFound(found, ier)
      BY <2>1, <2>4 DEF ModemAsFound
    <3>2. InterruptsAsFound(found, ier')
      BY <2>2, <3>1 DEF InterruptsAsFound
    <3> QED
      BY <2>1, <2>2, <2>4, <3>2
  <2> QED
    BY <2>3, <2>4
<1>17. CASE Port!Receive
  <2>1. /\ step \in {"open", "modem restored", "interrupts restored", "mask restored"}
        /\ "OUT2" \in mcr /\ UNCHANGED <<step, vector, masked, saved, rings, found>>
    BY <1>0, <1>17 DEF Port!Receive, Port!Interrupt, Port!Delivered, PortTypes
  <2>2. ier' = ier /\ mcr' \in {mcr, mcr \ {"RTS"}}
    BY <1>17 DEF Port!Receive, Port!Interrupt, Port!Delivered
  <2>3. CASE step \in ModemIsSaved
    BY <2>1, <2>2, <2>3
  <2>4. CASE step \notin ModemIsSaved
    <3>1. "OUT2" \in found.mcr /\ ModemAsFound(found, mcr)
      BY <2>1, <2>4 DEF ModemAsFound
    <3>2. ModemAsFound(found, mcr')
      BY <2>2, <3>1 DEF ModemAsFound
    <3> QED
      BY <2>1, <2>2, <2>4, <3>2
  <2> QED
    BY <2>3, <2>4
<1> QED
  BY <1>1, <1>2, <1>3, <1>4, <1>5, <1>6, <1>7, <1>8, <1>9, <1>10, <1>11, <1>12, <1>13, <1>14,
     <1>15, <1>16, <1>17 DEF Port!PortNext

LEMMA PortIsGivenBack == PortTypes /\ PortPlaces => PortChangesHands
BY DEF PortTypes, PortPlaces, PortChangesHands, Port!InterruptsFindRoutine, Port!PortIsReturned,
   Port!Delivered, VectorIsOther, MaskIsFound, LineIsMasked, InterruptsAreOff,
   InterruptsAreSaved, ModemIsSaved, InterruptsAsFound, ModemAsFound

---------------------------------------------------------------------------
(* Flow control.                                                           *)

High == Receive!nRXHighWaterMark
Low == Receive!nRXLowWaterMark
Pending == IF arrived THEN 1 ELSE 0

\* Where the property is claimed.
SkidFits == 2 * (Skid + 1) <= RXQueueSize \div 4
RoomForSkid == rxFlowControl /\ SkidFits

\* RTS was raised at most once, by a door whose count was no longer true, since
\* the ring was last at the low-water mark: then the caller sends one byte that
\* lowers it and a skid, once more.
FlowTypes ==
    /\ nRXChars \in Int /\ mayStill \in 0..Skid
    /\ {arrived, rts, lost, rxFlowControl} \subseteq BOOLEAN
LowForCause ==
    ~rts => rxFlowControl /\ (nRXChars > Low \/ rxDoor \in {"taken", "raise"} \/ held)
NothingLost == RoomForSkid => ~lost
RoomWhenHigh == RoomForSkid /\ rts => nRXChars <= High + Skid + 1
RoomWhenLow == RoomForSkid /\ ~rts => nRXChars + Pending + mayStill <= High + 2 * (Skid + 1)
RoomToRaise ==
    RoomForSkid /\ rxDoor = "raise" =>
        IF rts THEN nRXChars <= High ELSE nRXChars + Pending + mayStill <= High + Skid + 1

FlowInv ==
    FlowTypes /\ LowForCause /\ NothingLost /\ RoomWhenHigh /\ RoomWhenLow /\ RoomToRaise

LEMMA Marks ==
    /\ High' = High /\ Low' = Low /\ (SkidFits' <=> SkidFits)
    /\ High \in Nat /\ Low \in Nat /\ Low <= High /\ Low < RXQueueSize /\ Skid \in Nat
    /\ RXQueueSize \in Nat
    /\ SkidFits => High + 2 * (Skid + 1) <= RXQueueSize /\ Low + Skid + 1 <= High
<1>0. High' = High /\ Low' = Low /\ (SkidFits' <=> SkidFits)
  BY DEF High, Low, SkidFits, Receive!nRXHighWaterMark, Receive!nRXLowWaterMark
<1>1. RXQueueSize \in Nat \ {0} /\ Skid \in Nat
  BY LineAssumption DEF Receive!ReceiveAssumption
<1>2. /\ High = (RXQueueSize * 3) \div 4 /\ Low = (RXQueueSize * 1) \div 4
      /\ Low = RXQueueSize \div 4
  BY <1>1 DEF High, Low, Receive!nRXHighWaterMark, Receive!nRXLowWaterMark
<1>3. /\ High \in Int /\ Low \in Int
      /\ 4 * Low <= RXQueueSize /\ RXQueueSize < 4 * Low + 4
      /\ 4 * High <= RXQueueSize * 3 /\ RXQueueSize * 3 < 4 * High + 4
  BY <1>1, <1>2
<1> QED
  BY <1>0, <1>1, <1>2, <1>3 DEF SkidFits

LEMMA FlowInvStep ==
    ASSUME FlowInv, Receive!Next
    PROVE  FlowInv'
<1> USE DEF FlowInv, FlowTypes, LowForCause, NothingLost, RoomWhenHigh, RoomWhenLow, RoomToRaise,
            Pending, RoomForSkid, Receive!ring, Receive!caller
<1>1. CASE Receive!BeginGetByte \/ Receive!SeeByte \/ Receive!CallIdle
  BY <1>1 DEF Receive!BeginGetByte, Receive!SeeByte, Receive!CallIdle, Receive!vars
<1>2. CASE Receive!TakeByte
  <2>1. /\ rxDoor' = "taken" /\ nRXChars' = nRXChars - 1
        /\ UNCHANGED <<rxFlowControl, rts, arrived, mayStill, lost, held>>
    BY <1>2 DEF Receive!TakeByte, Receive!Remove
  <2>2. FlowTypes' /\ LowForCause' /\ NothingLost'
    BY <2>1, Marks
  <2>3. RoomWhenHigh' /\ RoomWhenLow' /\ RoomToRaise'
    BY <2>1, Marks
  <2> QED
    BY <2>2, <2>3
<1>3. CASE Receive!SeeLow
  <2>1. /\ rxDoor' \in {"raise", "idle"}
        /\ rxDoor' = "raise" <=> nRXChars <= Low /\ rxFlowControl
        /\ UNCHANGED <<nRXChars, rxFlowControl, rts, arrived, mayStill, lost, held>>
    BY <1>3 DEF Receive!SeeLow, Low
  <2>2. FlowTypes' /\ LowForCause' /\ NothingLost'
    BY <2>1, Marks
  <2>3. RoomWhenHigh' /\ RoomWhenLow' /\ RoomToRaise'
    BY <2>1, Marks
  <2> QED
    BY <2>2, <2>3
<1>4. CASE Receive!RaiseRTS
  <2>1. /\ rxDoor = "raise" /\ rxDoor' = "idle" /\ rts' = TRUE
        /\ UNCHANGED <<nRXChars, rxFlowControl, arrived, mayStill, lost>>
    BY <1>4 DEF Receive!RaiseRTS
  <2>2. FlowTypes' /\ LowForCause' /\ NothingLost'
    BY <2>1, Marks
  <2>3. RoomWhenHigh' /\ RoomWhenLow' /\ RoomToRaise'
    BY <2>1, Marks
  <2> QED
    BY <2>2, <2>3
<1>5. CASE Receive!ClearInbound
  <2>0. arrived' \in {arrived, FALSE}
    BY <1>5 DEF Receive!ClearInbound
  <2>1. /\ rxDoor = "idle" /\ rxDoor' = "idle" /\ nRXChars' = 0
        /\ arrived' \in BOOLEAN /\ (arrived' => arrived)
        /\ held' <=> (held \/ ~rts)
        /\ UNCHANGED <<rxFlowControl, rts, mayStill, lost>>
    <3>0. arrived \in BOOLEAN
      OBVIOUS
    <3>1. arrived' \in BOOLEAN /\ (arrived' => arrived)
      <4>1. CASE arrived' = arrived
        BY <3>0, <4>1
      <4>2. CASE arrived' = FALSE
        BY <4>2
      <4> QED
        BY <2>0, <4>1, <4>2
    <3> QED
      BY <1>5, <3>1 DEF Receive!ClearInbound
  <2>2. FlowTypes' /\ LowForCause' /\ NothingLost'
    BY <2>1, Marks
  <2>3. RoomWhenHigh' /\ RoomWhenLow' /\ RoomToRaise'
    BY <2>1, Marks
  <2> QED
    BY <2>2, <2>3
<1>6. ASSUME NEW size \in 1..ReadMax, Receive!GetBuffer(size)
      PROVE  FlowInv'
  <2>1. /\ rxDoor = "idle" /\ rxDoor' = "idle"
        /\ nRXChars' = nRXChars - (IF nRXChars < size THEN nRXChars ELSE size)
        /\ held' <=> (held \/ (~rts /\ nRXChars' <= Low))
        /\ UNCHANGED <<rxFlowControl, rts, arrived, mayStill, lost>>
    BY <1>6 DEF Receive!GetBuffer, Receive!Remove, Low
  <2>2. FlowTypes' /\ LowForCause' /\ NothingLost'
    BY <2>1, Marks
  <2>3. RoomWhenHigh' /\ RoomWhenLow' /\ RoomToRaise'
    BY <2>1, Marks
  <2> QED
    BY <2>2, <2>3
<1>7. CASE Receive!Arrive
  <2>1. /\ ~arrived /\ arrived' = TRUE
        /\ rts \/ mayStill > 0
        /\ mayStill' = IF rts THEN Skid ELSE mayStill - 1
        /\ UNCHANGED <<nRXChars, rxFlowControl, rts, lost, held, rxDoor>>
    BY <1>7 DEF Receive!Arrive
  <2>2. FlowTypes' /\ LowForCause' /\ NothingLost'
    BY <2>1, Marks
  <2>3. RoomWhenHigh' /\ RoomWhenLow' /\ RoomToRaise'
    BY <2>1, Marks
  <2> QED
    BY <2>2, <2>3
<1>8. CASE Receive!ReceiveData
  <2>1. /\ arrived /\ arrived' = FALSE
        /\ rts' <=> (rts /\ ~(rxFlowControl /\ nRXChars >= High))
        /\ UNCHANGED <<rxFlowControl, mayStill, held, rxDoor>>
    BY <1>8 DEF Receive!ReceiveData, High
  <2>2. IF nRXChars < RXQueueSize THEN nRXChars' = nRXChars + 1 /\ lost' = lost
        ELSE nRXChars' = nRXChars /\ lost' = TRUE
    BY <1>8 DEF Receive!ReceiveData
  <2>3. rts' \in BOOLEAN /\ lost' \in BOOLEAN /\ arrived' \in BOOLEAN
    <3>1. lost' \in BOOLEAN
      BY <2>2
    <3> QED
      BY <1>8, <3>1 DEF Receive!ReceiveData
  <2>4. RoomForSkid => nRXChars < RXQueueSize
    BY <2>1, Marks
  <2>5. FlowTypes'
    <3>1. nRXChars' \in Int
      BY <2>2
    <3> QED
      BY <2>1, <2>3, <3>1, Marks
  <2>6. LowForCause' /\ NothingLost'
    BY <2>1, <2>2, <2>3, <2>4, Marks
  <2>7. RoomWhenHigh'
    BY <2>1, <2>2, <2>3, <2>4, Marks
  <2>8. RoomWhenLow'
    BY <2>1, <2>2, <2>3, <2>4, Marks
  <2>9. RoomToRaise'
    BY <2>1, <2>2, <2>3, <2>4, Marks
  <2> QED
    BY <2>5, <2>6, <2>7, <2>8, <2>9
<1> QED
  BY <1>1, <1>2, <1>3, <1>4, <1>5, <1>6, <1>7, <1>8 DEF Receive!Next, Receive!Door

LEMMA FlowWorks == FlowInv => FlowControlWorks
<1>1. NothingLost => Receive!FlowControlLosesNothing
  BY DEF NothingLost, RoomForSkid, SkidFits, Receive!FlowControlLosesNothing
<1>2. LowForCause => Receive!HeldOffForCause
  BY DEF LowForCause, Low, Receive!HeldOffForCause
<1> QED
  BY <1>1, <1>2 DEF FlowInv, FlowControlWorks

LEMMA FlowInvInit ==
    ASSUME Receive!Init
    PROVE  FlowInv
<1>1. /\ nRXChars = 0 /\ mayStill = Skid /\ arrived = FALSE /\ rts = TRUE /\ lost = FALSE
      /\ rxDoor = "idle" /\ rxFlowControl \in BOOLEAN
  BY DEF Receive!Init
<1>2. FlowTypes
  <2>1. {arrived, rts, lost, rxFlowControl} \subseteq BOOLEAN
    BY Zenon, <1>1
  <2>2. nRXChars \in Int /\ mayStill \in 0..Skid
    BY <1>1, Marks
  <2> QED
    BY <2>1, <2>2 DEF FlowTypes
<1>3. LowForCause /\ NothingLost
  BY <1>1 DEF LowForCause, NothingLost
<1>4. RoomWhenHigh /\ RoomWhenLow /\ RoomToRaise
  BY <1>1, Marks DEF RoomWhenHigh, RoomWhenLow, RoomToRaise
<1> QED
  BY <1>2, <1>3, <1>4 DEF FlowInv

---------------------------------------------------------------------------
(* Key sequences.                                                          *)

Calls ==
    [at : {"idle", "first", "look", "more"}, flags : Modes \cup {"normal"}, limited : BOOLEAN]
KeysTypes ==
    /\ queue \in Seq(Keys!Events) /\ szCurrentSequence \in Seq(Keys!Remote)
    /\ {bDoorwaySequence, bDoorwaySequencePending, overrun} \subseteq BOOLEAN
    /\ call \in Calls

\* Bytes taken from the front of what is held are taken from the front of what
\* is owed.
LEMMA Cut ==
    ASSUME NEW S, NEW a \in Seq(S), NEW b \in Seq(S), NEW n \in 0..Len(a)
    PROVE  /\ SubSeq(a, n + 1, Len(a)) \in Seq(S)
           /\ SubSeq(a \o b, n + 1, Len(a \o b)) = SubSeq(a, n + 1, Len(a)) \o b
<1> DEFINE rest == SubSeq(a, n + 1, Len(a))
           cut == SubSeq(a \o b, n + 1, Len(a \o b))
<1>1. /\ a \o b \in Seq(S) /\ Len(a \o b) = Len(a) + Len(b) /\ Len(a) \in Nat /\ Len(b) \in Nat
      /\ \A i \in 1..(Len(a) + Len(b)) : (a \o b)[i] \in S
      /\ \A i \in 1..Len(a) : a[i] \in S
  <2>1. a \o b \in Seq(S) /\ Len(a \o b) = Len(a) + Len(b)
    BY ConcatProperties
  <2> QED
    BY <2>1, ElementOfSeq
<1>2. rest \in Seq(S) /\ Len(rest) = Len(a) - n /\ \A i \in 1..Len(rest) : rest[i] = a[n + i]
  BY <1>1, SubSeqProperties
<1>3. cut \in Seq(S) /\ Len(cut) = Len(a) + Len(b) - n
      /\ \A i \in 1..Len(cut) : cut[i] = (a \o b)[n + i]
  BY <1>1, SubSeqProperties
<1>4. rest \o b \in Seq(S) /\ Len(rest \o b) = Len(cut)
  BY <1>1, <1>2, <1>3, ConcatProperties
<1>5. ASSUME NEW i \in 1..Len(cut)
      PROVE  cut[i] = (rest \o b)[i]
  BY <1>1, <1>2, <1>3, ConcatProperties
<1> HIDE DEF rest, cut
<1>6. cut = rest \o b
  BY <1>3, <1>4, <1>5, SeqEqual
<1> QED
  BY <1>2, <1>6 DEF rest, cut

LEMMA LongestOfFour ==
    ASSUME NEW A, NEW H, NEW HJ, NEW V, NEW length \in [{A, H, HJ, V} -> Int],
           length[A] = 2, length[H] = 2, length[HJ] = 4, length[V] = 1,
           NEW starts \in SUBSET {A, H, HJ, V}, starts # {}
    PROVE  \E key \in starts : \A k \in starts : length[k] <= length[key]
<1>1. CASE HJ \in starts
  BY <1>1
<1>2. CASE HJ \notin starts /\ A \in starts
  BY <1>2
<1>3. CASE HJ \notin starts /\ H \in starts
  BY <1>3
<1>4. CASE HJ \notin starts /\ A \notin starts /\ H \notin starts
  <2>1. starts = {V}
    BY <1>4
  <2> QED
    BY <2>1
<1> QED
  BY <1>1, <1>2, <1>3, <1>4

\* A table of sequences has a longest one that is the start of the bytes.
LEMMA FullCode ==
    ASSUME KeysTypes, NEW bytes \in Seq(Keys!Remote)
    PROVE  LET key == Keys!LongestFullCode(bytes)
           IN /\ key # << >> => Len(key) \in 1..Len(bytes)
              /\ (\E k \in Keys!Known : Keys!IsPrefix(k, bytes)) => key # << >>
<1> DEFINE starts == {key \in Keys!Known : Keys!IsPrefix(key, bytes)}
           Longest(key) == key \in starts /\ \A k \in starts : Len(k) <= Len(key)
<1>1. Keys!Known \subseteq Keys!Table
  BY LineAssumption DEF KeysTypes, Calls, Keys!Known, Keys!KeysAssumption
<1>2. PICK A, H, HJ, V :
        /\ Len(A) = 2 /\ Len(H) = 2 /\ Len(HJ) = 4 /\ Len(V) = 1
        /\ Keys!Table = {A, H, HJ, V}
  <2> DEFINE T(A, H, HJ, V) == /\ Len(A) = 2 /\ Len(H) = 2 /\ Len(HJ) = 4 /\ Len(V) = 1
                              /\ Keys!Table = {A, H, HJ, V}
  <2>1. T(<<"ESC", "A">>, <<"ESC", "H">>, <<"ESC", "H", "ESC", "J">>, <<"^V">>)
    BY DEF Keys!Table
  <2> HIDE DEF T
  <2>2. \E A, H, HJ, V : T(A, H, HJ, V)
    BY <2>1
  <2> QED
    BY <2>2 DEF T
<1>3. starts \subseteq {A, H, HJ, V}
  BY <1>1, <1>2
<1>4. \A key \in starts : Len(key) \in 1..Len(bytes)
  BY <1>2, <1>3, LenProperties DEF Keys!IsPrefix
<1>5. starts # {} => \E key : Longest(key)
  <2> DEFINE length == [k \in {A, H, HJ, V} |-> Len(k)]
  <2>1. length \in [{A, H, HJ, V} -> Int]
    BY <1>2
  <2>2. length[A] = 2 /\ length[H] = 2 /\ length[HJ] = 4 /\ length[V] = 1
    BY <1>2
  <2>3. \A k \in starts : Len(k) = length[k]
    BY <1>3
  <2> HIDE DEF starts, length
  <2>4. starts # {} => \E key \in starts : \A k \in starts : length[k] <= length[key]
    BY <1>3, <2>1, <2>2, LongestOfFour
  <2> QED
    BY Zenon, <2>3, <2>4
<1>6. starts # {} => Keys!LongestFullCode(bytes) \in starts
  <2>1. starts # {} => Keys!LongestFullCode(bytes) = CHOOSE key : Longest(key)
    BY DEF Keys!LongestFullCode
  <2> HIDE DEF starts
  <2> QED
    BY <1>5, <2>1
<1>7. starts = {} => Keys!LongestFullCode(bytes) = << >>
  BY DEF Keys!LongestFullCode
<1>8. (\E k \in Keys!Known : Keys!IsPrefix(k, bytes)) => starts # {}
  OBVIOUS
<1> HIDE DEF starts
<1> QED
  BY <1>4, <1>6, <1>7, <1>8

\* A call that looks at its bytes holds some, unless a zero byte is being
\* completed; one that waits for its first byte holds none.  What is held is what
\* is owed until something is written past the end of the buffer.
ZeroByte == IF bDoorwaySequence \/ bDoorwaySequencePending THEN <<"NUL">> ELSE << >>
KeysInv ==
    /\ KeysTypes /\ BytesAccounted
    /\ call.at \in {"look", "more"} /\ ~bDoorwaySequence => szCurrentSequence # << >>
    /\ call.at = "first" =>
          szCurrentSequence = << >> /\ ~bDoorwaySequence /\ ~bDoorwaySequencePending

LEMMA Owed ==
    BytesAccounted <=>
        \/ overrun
        \/ /\ ~(bDoorwaySequence /\ bDoorwaySequencePending)
           /\ bDoorwaySequence => szCurrentSequence = << >>
           /\ owed = szCurrentSequence \o ZeroByte
BY DEF BytesAccounted, Keys!BytesAccounted, Keys!Account, ZeroByte

LEMMA CallEnds == Keys!Idle \in Calls /\ Keys!Idle.at = "idle"
BY DEF Keys!Idle, Calls

LEMMA QueueHead ==
    ASSUME KeysTypes, queue # << >>
    PROVE  Head(queue).byte \in Keys!Remote /\ Tail(queue) \in Seq(Keys!Events)
<1>1. Head(queue) \in Keys!Events /\ Tail(queue) \in Seq(Keys!Events)
  BY HeadTailProperties DEF KeysTypes
<1>2. \A e \in Keys!Events : e.byte \in Keys!Remote
  BY DEF Keys!Events, Keys!Remote
<1> QED
  BY <1>1, <1>2

\* Returning the first bytes that are held keeps the account.
LEMMA ShiftsWhatIsOwed ==
    ASSUME KeysInv, NEW size \in 1..Len(szCurrentSequence), ~bDoorwaySequence,
           Keys!ShiftSeq(size), owed' = SubSeq(owed, size + 1, Len(owed)),
           call' = Keys!Idle,
           UNCHANGED <<queue, bDoorwaySequence, bDoorwaySequencePending, overrun>>
    PROVE  KeysInv'
<1> DEFINE rest == SubSeq(szCurrentSequence, size + 1, Len(szCurrentSequence))
<1>1. szCurrentSequence \in Seq(Keys!Remote) /\ ZeroByte \in Seq(Keys!Remote)
  <2>1. <<"NUL">> \in Seq(Keys!Remote) /\ << >> \in Seq(Keys!Remote)
    BY DEF Keys!Remote
  <2> QED
    BY <2>1 DEF KeysInv, KeysTypes, ZeroByte
<1>2. ~overrun => owed = szCurrentSequence \o ZeroByte
  BY Owed DEF KeysInv
<1>3. size \in 0..Len(szCurrentSequence)
  BY <1>1
<1>4. rest \in Seq(Keys!Remote) /\ (~overrun => owed' = rest \o ZeroByte)
  BY <1>1, <1>2, <1>3, Cut
<1>5. szCurrentSequence' = rest
  BY DEF Keys!ShiftSeq
<1>6. KeysTypes'
  BY <1>4, <1>5, CallEnds DEF KeysInv, KeysTypes
<1>7. BytesAccounted'
  <2> HIDE DEF rest
  <2> QED
    BY <1>4, <1>5 DEF KeysInv, BytesAccounted, Keys!BytesAccounted, Keys!Account, ZeroByte
<1>8. call'.at = "idle"
  BY CallEnds
<1> QED
  BY <1>6, <1>7, <1>8 DEF KeysInv

LEMMA KeysInvStep ==
    ASSUME KeysInv, Keys!KeysNext
    PROVE  KeysInv'
<1> USE DEF Keys!held
<1>1. ~overrun =>
        /\ owed = szCurrentSequence \o ZeroByte
        /\ ~(bDoorwaySequence /\ bDoorwaySequencePending)
        /\ bDoorwaySequence => szCurrentSequence = << >>
  BY Owed DEF KeysInv
<1>2. ~overrun /\ ~bDoorwaySequence /\ ~bDoorwaySequencePending => owed = szCurrentSequence
  BY <1>1 DEF KeysInv, KeysTypes, ZeroByte
<1>3. ASSUME NEW bytes \in Seq(Keys!Remote), NEW far \in BOOLEAN,
             \A i \in 1..Len(bytes) : [remote |-> far, byte |-> bytes[i]] \in Keys!Events,
             Keys!Type(bytes, far)
      PROVE  KeysInv'
  <2> DEFINE group == [i \in 1..Len(bytes) |-> [remote |-> far, byte |-> bytes[i]]]
  <2>1. group \in Seq(Keys!Events)
    BY <1>3
  <2>2. queue' = queue \o group
        /\ UNCHANGED <<szCurrentSequence, bDoorwaySequence, bDoorwaySequencePending, overrun,
                       call, owed>>
    BY <1>3 DEF Keys!Type
  <2>3. queue' \in Seq(Keys!Events)
    BY <2>1, <2>2 DEF KeysInv, KeysTypes
  <2> QED
    BY <2>2, <2>3 DEF KeysInv, KeysTypes, BytesAccounted, Keys!BytesAccounted, Keys!Account
<1>4. CASE Keys!Clear \/ Keys!NoInput
  <2>1. /\ queue' \in Seq(Keys!Events) /\ call' \in {call, Keys!Idle}
        /\ UNCHANGED <<szCurrentSequence, bDoorwaySequence, bDoorwaySequencePending, overrun, owed>>
    <3>1. CASE Keys!Clear
      BY <3>1 DEF KeysInv, KeysTypes, Keys!Clear
    <3>2. CASE Keys!NoInput
      BY <3>2 DEF KeysInv, KeysTypes, Keys!NoInput
    <3> QED
      BY <1>4, <3>1, <3>2
  <2>2. KeysTypes' /\ call'.at \in {call.at, "idle"}
    BY <2>1, CallEnds DEF KeysInv, KeysTypes
  <2>3. BytesAccounted'
    BY <2>1 DEF KeysInv, BytesAccounted, Keys!BytesAccounted, Keys!Account
  <2> QED
    BY <2>1, <2>2, <2>3 DEF KeysInv
<1>5. ASSUME NEW flags \in Modes, NEW limited \in BOOLEAN, Keys!Call(flags, limited)
      PROVE  KeysInv'
  <2>1. /\ UNCHANGED <<queue, szCurrentSequence, owed, overrun>>
        /\ call'.at = IF szCurrentSequence = << >> /\ ~bDoorwaySequence' THEN "first" ELSE "look"
        /\ call' \in [at : {"first", "look"}, flags : Modes, limited : BOOLEAN]
    BY <1>5 DEF Keys!Call
  <2>2. \/ /\ bDoorwaySequencePending /\ ~bDoorwaySequencePending'
           /\ ~bDoorwaySequence /\ bDoorwaySequence' /\ szCurrentSequence = << >>
           /\ bDoorwaySequence' \in BOOLEAN /\ bDoorwaySequencePending' \in BOOLEAN
        \/ /\ UNCHANGED <<bDoorwaySequence, bDoorwaySequencePending>>
           /\ ~bDoorwaySequence /\ bDoorwaySequencePending => szCurrentSequence # << >>
    BY <1>5 DEF Keys!Call, KeysInv, KeysTypes
  <2>3. KeysTypes'
    BY <2>1, <2>2 DEF KeysInv, KeysTypes, Calls
  <2>4. BytesAccounted'
    BY <2>1, <2>2 DEF KeysInv, BytesAccounted, Keys!BytesAccounted, Keys!Account
  <2> QED
    BY <2>1, <2>2, <2>3, <2>4 DEF KeysInv
<1>6. CASE Keys!First
  <2> DEFINE key == Head(queue)
  <2>1. key.byte \in Keys!Remote /\ queue' \in Seq(Keys!Events)
    BY <1>6, QueueHead DEF Keys!First, KeysInv
  <2>2. /\ szCurrentSequence = << >> /\ ~bDoorwaySequence /\ ~bDoorwaySequencePending
        /\ ~overrun => owed = << >>
    BY <1>2, <1>6 DEF Keys!First, KeysInv
  <2>7. overrun' = overrun
    BY <1>6 DEF Keys!First
  <2> HIDE DEF key
  <2>3. CASE /\ call' = Keys!Idle
             /\ UNCHANGED <<szCurrentSequence, bDoorwaySequence, bDoorwaySequencePending, owed>>
    BY <2>1, <2>2, <2>3, <2>7, CallEnds DEF KeysInv, KeysTypes, BytesAccounted, Keys!BytesAccounted, Keys!Account
  <2>4. CASE /\ bDoorwaySequence' = TRUE /\ szCurrentSequence' = << >>
             /\ ~overrun => owed' = <<"NUL">>
             /\ call' = [call EXCEPT !.at = "look"] /\ UNCHANGED bDoorwaySequencePending
    <3>1. KeysTypes' /\ call'.at = "look"
      BY <2>1, <2>2, <2>4, <2>7 DEF KeysInv, KeysTypes, Calls
    <3>2. BytesAccounted'
      <4>1. CASE overrun
        BY <2>7, <4>1 DEF BytesAccounted, Keys!BytesAccounted
      <4>2. CASE ~overrun
        BY <2>2, <2>4, <4>2 DEF BytesAccounted, Keys!BytesAccounted, Keys!Account
      <4> QED
        BY <4>1, <4>2
    <3> QED
      BY <2>4, <3>1, <3>2 DEF KeysInv
  <2>5. CASE /\ szCurrentSequence' = <<key.byte>> /\ (~overrun => owed' = <<key.byte>>)
             /\ call' = [call EXCEPT !.at = "look"]
             /\ UNCHANGED <<bDoorwaySequence, bDoorwaySequencePending>>
    <3>1. KeysTypes' /\ call'.at = "look"
      BY <2>1, <2>2, <2>5, <2>7 DEF KeysInv, KeysTypes, Calls
    <3>2. szCurrentSequence' # << >>
      BY <2>5
    <3>3. BytesAccounted'
      <4>1. CASE overrun
        BY <2>7, <4>1 DEF BytesAccounted, Keys!BytesAccounted
      <4>2. CASE ~overrun
        <5>1. /\ ~bDoorwaySequence' /\ ~bDoorwaySequencePending'
              /\ owed' = szCurrentSequence' /\ szCurrentSequence' = <<key.byte>>
          BY <2>2, <2>5, <4>2
        <5>2. <<key.byte>> \o << >> = <<key.byte>>
          OBVIOUS
        <5> QED
          BY <5>1, <5>2 DEF BytesAccounted, Keys!BytesAccounted, Keys!Account
      <4> QED
        BY <4>1, <4>2
    <3> QED
      BY <2>5, <3>1, <3>2, <3>3 DEF KeysInv
  <2>6. ~overrun => Append(owed, key.byte) = <<key.byte>>
    BY <2>2
  <2> QED
    BY <1>6, <2>2, <2>3, <2>4, <2>5, <2>6 DEF Keys!First, key
<1>7. CASE Keys!Look
  <2> DEFINE key == Keys!GetCodeIfLongest(szCurrentSequence)
  <2>0. key # << >> => Len(key) \in 1..Len(szCurrentSequence)
    <3>1. key # << >> => key = Keys!LongestFullCode(szCurrentSequence)
      BY DEF Keys!GetCodeIfLongest
    <3>2. LET code == Keys!LongestFullCode(szCurrentSequence)
          IN  code # << >> => Len(code) \in 1..Len(szCurrentSequence)
      BY FullCode DEF KeysInv, KeysTypes
    <3> HIDE DEF key
    <3> QED
      BY <3>1, <3>2
  <2> HIDE DEF key
  <2>1. CASE ~bDoorwaySequence /\ Keys!ShiftSeq(1) /\ Keys!Return(<<szCurrentSequence[1]>>)
    <3>1. 1 \in 1..Len(szCurrentSequence) /\ Len(<<szCurrentSequence[1]>>) = 1
      BY <1>7, <2>1, EmptySeq DEF Keys!Look, KeysInv, KeysTypes
    <3>2. /\ owed' = SubSeq(owed, 1 + 1, Len(owed)) /\ call' = Keys!Idle
          /\ UNCHANGED <<queue, bDoorwaySequence, bDoorwaySequencePending, overrun>>
      BY <1>7, <2>1, <3>1 DEF Keys!Look, Keys!Return
    <3> QED
      BY <2>1, <3>1, <3>2, ShiftsWhatIsOwed
  <2>2. CASE ~bDoorwaySequence /\ key # << >> /\ Keys!ShiftSeq(Len(key)) /\ Keys!Return(key)
    <3>1. /\ owed' = SubSeq(owed, Len(key) + 1, Len(owed)) /\ call' = Keys!Idle
          /\ UNCHANGED <<queue, bDoorwaySequence, bDoorwaySequencePending, overrun>>
      BY <1>7, <2>2 DEF Keys!Look, Keys!Return
    <3> QED
      BY <2>0, <2>2, <3>1, ShiftsWhatIsOwed
  <2>3. CASE call' = [call EXCEPT !.at = "more"] /\ UNCHANGED <<szCurrentSequence, owed, event>>
    <3>1. /\ call.at = "look"
          /\ UNCHANGED <<queue, bDoorwaySequence, bDoorwaySequencePending, overrun>>
      BY <1>7 DEF Keys!Look
    <3>2. KeysTypes' /\ call'.at = "more"
      BY <2>3, <3>1 DEF KeysInv, KeysTypes, Calls
    <3>3. BytesAccounted'
      BY <2>3, <3>1 DEF KeysInv, BytesAccounted, Keys!BytesAccounted, Keys!Account
    <3> QED
      BY <2>3, <3>1, <3>2, <3>3 DEF KeysInv
  <2> QED
    BY <1>7, <2>1, <2>2, <2>3 DEF Keys!Look, key
<1>8. CASE Keys!CompleteDoorway
  <2>1. /\ bDoorwaySequence /\ bDoorwaySequence' = FALSE /\ owed' = << >>
        /\ ~bDoorwaySequencePending /\ queue' = Tail(queue) /\ queue # << >> /\ call' = Keys!Idle
        /\ UNCHANGED <<szCurrentSequence, bDoorwaySequencePending, overrun>>
    BY <1>8 DEF Keys!CompleteDoorway, Keys!MoreToCome
  <2>2. KeysTypes' /\ call'.at = "idle"
    BY <2>1, QueueHead, CallEnds DEF KeysInv, KeysTypes
  <2>3. BytesAccounted'
    BY <1>1, <2>1 DEF BytesAccounted, Keys!BytesAccounted, Keys!Account
  <2> QED
    BY <2>2, <2>3 DEF KeysInv
<1>9. CASE Keys!PostponeDoorway
  <2>1. /\ call.at = "more" /\ queue # << >> /\ queue' = Tail(queue)
        /\ ~bDoorwaySequence /\ ~bDoorwaySequencePending
        /\ bDoorwaySequencePending' = TRUE /\ owed' = Append(owed, "NUL")
        /\ UNCHANGED <<szCurrentSequence, bDoorwaySequence, call, overrun>>
    BY <1>9 DEF Keys!PostponeDoorway, Keys!MoreToCome
  <2>2. KeysTypes'
    BY <2>1, QueueHead DEF KeysInv, KeysTypes
  <2>3. Append(szCurrentSequence, "NUL") = szCurrentSequence \o <<"NUL">>
    BY DEF KeysInv, KeysTypes
  <2>4. BytesAccounted'
    BY <1>2, <2>1, <2>3 DEF BytesAccounted, Keys!BytesAccounted, Keys!Account
  <2> QED
    BY <2>1, <2>2, <2>4 DEF KeysInv
<1>10. CASE Keys!ReturnLocal
  <2>1. /\ queue # << >> /\ queue' = Tail(queue) /\ call' = Keys!Idle
        /\ UNCHANGED <<szCurrentSequence, bDoorwaySequence, bDoorwaySequencePending, overrun, owed>>
    BY <1>10 DEF Keys!ReturnLocal, Keys!MoreToCome
  <2>2. KeysTypes' /\ call'.at = "idle"
    BY <2>1, QueueHead, CallEnds DEF KeysInv, KeysTypes
  <2>3. BytesAccounted'
    BY <2>1 DEF KeysInv, BytesAccounted, Keys!BytesAccounted, Keys!Account
  <2> QED
    BY <2>2, <2>3 DEF KeysInv
<1>11. CASE Keys!Extend
  <2> DEFINE bytes == Append(szCurrentSequence, Keys!NextKey.byte)
             key == Keys!GetCodeIfLongest(bytes)
  <2>1. /\ call.at = "more" /\ queue # << >> /\ queue' = Tail(queue)
        /\ ~bDoorwaySequence /\ ~bDoorwaySequencePending
        /\ \/ UNCHANGED <<bDoorwaySequence, bDoorwaySequencePending, overrun>>
           \/ /\ overrun' = TRUE
              /\ bDoorwaySequence' \in BOOLEAN /\ bDoorwaySequencePending' \in BOOLEAN
    BY <1>11 DEF Keys!Extend, Keys!MoreToCome
  <2>2. Keys!NextKey.byte \in Keys!Remote
    BY <2>1, QueueHead DEF Keys!NextKey, KeysInv
  <2>3. bytes \in Seq(Keys!Remote) /\ bytes # << >> /\ Len(bytes) = Len(szCurrentSequence) + 1
    BY <2>2 DEF KeysInv, KeysTypes
  <2>4. ~overrun => owed = szCurrentSequence
    BY <1>2, <2>1
  <2>5. key # << >> => Len(key) \in 1..Len(bytes)
    <3>1. key # << >> => key = Keys!LongestFullCode(bytes)
      BY DEF Keys!GetCodeIfLongest
    <3>2. LET code == Keys!LongestFullCode(bytes)
          IN  code # << >> => Len(code) \in 1..Len(bytes)
      BY <2>3, FullCode DEF KeysInv
    <3> HIDE DEF key, bytes
    <3> QED
      BY <3>1, <3>2
  <2>6. /\ szCurrentSequence' = SubSeq(bytes, Len(key) + 1, Len(bytes))
        /\ ~overrun' => owed' = szCurrentSequence'
        /\ IF key = << >> THEN UNCHANGED call ELSE call' = Keys!Idle
    <3>1. \/ owed' = SubSeq(bytes, Len(key) + 1, Len(bytes))
          \/ /\ overrun' = overrun
             /\ owed' = SubSeq(Append(owed, Keys!NextKey.byte), Len(key) + 1,
                              Len(Append(owed, Keys!NextKey.byte)))
      BY <1>11 DEF Keys!Extend
    <3>2. /\ szCurrentSequence' = SubSeq(bytes, Len(key) + 1, Len(bytes))
          /\ IF key = << >> THEN UNCHANGED call ELSE call' = Keys!Idle
      BY <1>11 DEF Keys!Extend
    <3> QED
      BY <2>4, <3>1, <3>2
  <2>7. queue' \in Seq(Keys!Events)
    BY <2>1, QueueHead DEF KeysInv
  <2> HIDE DEF key, bytes
  <2>8. /\ szCurrentSequence' \in Seq(Keys!Remote)
        /\ szCurrentSequence' # << >> \/ call' = Keys!Idle
    <3>1. CASE key = << >>
      BY <2>3, <2>6, <3>1, SubSeqFull
    <3>2. CASE key # << >>
      <4>1. SubSeq(bytes, Len(key) + 1, Len(bytes)) \in Seq(Keys!Remote)
        BY <2>3, <2>5, <3>2
      <4> QED
        BY <2>6, <3>2, <4>1
    <3> QED
      BY <3>1, <3>2
  <2>9. call' \in {call, Keys!Idle}
    BY <2>6
  <2>10. KeysTypes' /\ call'.at \in {"more", "idle"}
    BY <2>1, <2>7, <2>8, <2>9, CallEnds DEF KeysInv, KeysTypes
  <2>11. BytesAccounted'
    <3>1. szCurrentSequence' \o << >> = szCurrentSequence'
      BY <2>8, ConcatEmptySeq
    <3>2. CASE overrun' = TRUE
      BY <3>2 DEF BytesAccounted, Keys!BytesAccounted
    <3>3. CASE /\ ~overrun'
               /\ UNCHANGED <<bDoorwaySequence, bDoorwaySequencePending, overrun>>
      <4>1. owed' = szCurrentSequence' /\ ~bDoorwaySequence' /\ ~bDoorwaySequencePending'
        BY <2>1, <2>6, <3>3
      <4> QED
        BY <3>1, <4>1 DEF BytesAccounted, Keys!BytesAccounted, Keys!Account
    <3>4. overrun' => overrun' = TRUE
      BY <2>1 DEF KeysInv, KeysTypes
    <3> QED
      BY <2>1, <3>2, <3>3, <3>4
  <2> QED
    BY <2>1, <2>8, <2>10, <2>11, CallEnds DEF KeysInv
<1>12. CASE Keys!Settle
  <2> DEFINE key == Keys!LongestFullCode(szCurrentSequence)
  <2>0. key # << >> => Len(key) \in 1..Len(szCurrentSequence)
    BY FullCode DEF KeysInv, KeysTypes
  <2>1. call.at = "more" /\ UNCHANGED <<queue, bDoorwaySequencePending, overrun>>
    BY <1>12 DEF Keys!Settle
  <2> HIDE DEF key
  <2>2. CASE bDoorwaySequence
    <3>1. /\ bDoorwaySequence' = FALSE /\ Keys!Return(<<"NUL">>) /\ UNCHANGED szCurrentSequence
      BY <1>12, <2>2 DEF Keys!Settle
    <3>2. ~overrun =>
            szCurrentSequence = << >> /\ ~bDoorwaySequencePending /\ owed = <<"NUL">>
      BY <1>1, <2>2 DEF ZeroByte
    <3>3. (~overrun => owed' = << >>) /\ call' = Keys!Idle
      BY <3>1, <3>2 DEF Keys!Return
    <3>4. KeysTypes' /\ call'.at = "idle"
      BY <2>1, <3>1, <3>3, CallEnds DEF KeysInv, KeysTypes
    <3>5. BytesAccounted'
      BY <2>1, <3>1, <3>2, <3>3 DEF BytesAccounted, Keys!BytesAccounted, Keys!Account
    <3> QED
      BY <3>4, <3>5 DEF KeysInv
  <2>3. CASE ~bDoorwaySequence /\ key # << >>
    <3>1. Keys!ShiftSeq(Len(key)) /\ Keys!Return(key) /\ UNCHANGED bDoorwaySequence
      BY <1>12, <2>3 DEF Keys!Settle, key
    <3>2. owed' = SubSeq(owed, Len(key) + 1, Len(owed)) /\ call' = Keys!Idle
      BY <3>1 DEF Keys!Return
    <3> QED
      BY <2>0, <2>1, <2>3, <3>1, <3>2, ShiftsWhatIsOwed
  <2>4. CASE ~bDoorwaySequence /\ key = << >>
    <3>1. /\ Keys!ShiftSeq(1) /\ Keys!Return(<<szCurrentSequence[1]>>)
          /\ UNCHANGED bDoorwaySequence
      BY <1>12, <2>4 DEF Keys!Settle, key
    <3>2. 1 \in 1..Len(szCurrentSequence) /\ Len(<<szCurrentSequence[1]>>) = 1
      BY <2>1, <2>4, EmptySeq DEF KeysInv, KeysTypes
    <3>3. owed' = SubSeq(owed, 1 + 1, Len(owed)) /\ call' = Keys!Idle
      BY <3>1, <3>2 DEF Keys!Return
    <3> QED
      BY <2>1, <2>4, <3>1, <3>2, <3>3, ShiftsWhatIsOwed
  <2> QED
    BY <2>2, <2>3, <2>4
<1>13. ASSUME NEW b \in Keys!Remote
       PROVE  /\ <<b>> \in Seq(Keys!Remote)
              /\ \A i \in 1..Len(<<b>>) : [remote |-> TRUE, byte |-> <<b>>[i]] \in Keys!Events
  BY DEF Keys!Events
<1>14. ASSUME NEW key \in Keys!LocalKeys
       PROVE  /\ key \in Seq(Keys!Remote)
              /\ \A i \in 1..Len(key) : [remote |-> FALSE, byte |-> key[i]] \in Keys!Events
  <2>1. CASE key = <<"A">>
    BY <2>1 DEF Keys!Events, Keys!Remote
  <2>2. CASE key = <<"NUL", "H">>
    BY <2>2 DEF Keys!Events, Keys!Remote
  <2> QED
    BY <2>1, <2>2 DEF Keys!LocalKeys
<1> QED
  BY <1>3, <1>4, <1>5, <1>6, <1>7, <1>8, <1>9, <1>10, <1>11, <1>12, <1>13, <1>14 DEF Keys!KeysNext

---------------------------------------------------------------------------
(* The line promises.                                                      *)

LEMMA LineStarts ==
    ASSUME LineInit
    PROVE  Transmit!Init /\ Receive!Init /\ Port!PortInit /\ Keys!Init
<1>1. Transmit!Init
  BY DEF LineInit
<1>2. Receive!Init
  BY DEF LineInit
<1>3. Port!PortInit
  BY DEF LineInit
<1>4. Keys!Init
  BY DEF LineInit
<1> QED
  BY <1>1, <1>2, <1>3, <1>4

LEMMA TransmitInvInit ==
    ASSUME Transmit!Init
    PROVE  TransmitInv
BY DEF TransmitInv, TransmitterArmed, DrainedIsSent, Transmit!Init, Transmit!TransmitterArmed,
   Transmit!DrainedIsSent

LEMMA PortInvInit ==
    ASSUME Port!PortInit
    PROVE  PortTypes /\ PortPlaces
<1>1. /\ found \in Port!Hardware /\ found.vector = "other"
      /\ vector = found.vector /\ masked = found.masked
      /\ ier = found.ier /\ mcr = found.mcr
      /\ saved = found /\ step = "closed"
  BY DEF Port!PortInit
<1>2. PortTypes
  BY <1>1, Restored DEF PortTypes, Port!PortInit
<1>3. PortPlaces
  BY <1>1, <1>2 DEF PortTypes, PortPlaces, InterruptsAsFound, ModemAsFound, VectorIsOther,
     MaskIsFound, LineIsMasked, InterruptsAreOff, InterruptsAreSaved, ModemIsSaved
<1> QED
  BY <1>2, <1>3

LEMMA KeysInvInit ==
    ASSUME Keys!Init
    PROVE  KeysInv
<1>1. /\ queue = << >> /\ szCurrentSequence = << >> /\ owed = << >> /\ call = Keys!Idle
      /\ bDoorwaySequence = FALSE /\ bDoorwaySequencePending = FALSE /\ overrun = FALSE
  BY DEF Keys!Init
<1>2. KeysTypes
  <2>1. {bDoorwaySequence, bDoorwaySequencePending, overrun} \subseteq BOOLEAN
    BY Zenon, <1>1
  <2> QED
    BY <1>1, <2>1, CallEnds DEF KeysTypes
<1>3. BytesAccounted
  BY <1>1 DEF BytesAccounted, Keys!BytesAccounted, Keys!Account
<1>4. call.at = "idle"
  BY <1>1, CallEnds
<1> QED
  BY <1>2, <1>3, <1>4 DEF KeysInv

LEMMA Transmitting == LineSpec => []TransmitInv
<1>1. LineInit => TransmitInv
  BY LineStarts, TransmitInvInit
<1>2. TransmitInv /\ [LineNext]_lineVars => TransmitInv'
  <2> SUFFICES ASSUME TransmitInv, [LineNext]_lineVars
               PROVE  TransmitInv'
    OBVIOUS
  <2>1. CASE UNCHANGED transmitVars
    BY <2>1 DEF transmitVars, TransmitInv, TransmitterArmed, DrainedIsSent,
       Transmit!TransmitterArmed, Transmit!DrainedIsSent
  <2> QED
    BY <2>1, TransmitMoves, TransmitInvStep
<1> QED
  BY <1>1, <1>2, PTL DEF LineSpec

\* TransmitterArmed: while the ring holds something that the modem would take,
\* the transmit interrupt is enabled and has a cause to occur (ODCom.c:586-592,
\* 605-611, 3375-3377), in rings of any size.
THEOREM KeepsSending == LineSpec => []TransmitterArmed
<1>1. TransmitInv => TransmitterArmed
  BY DEF TransmitInv
<1> QED
  BY <1>1, Transmitting, PTL

\* DrainedIsSent: when ODWaitDrain ends before its time is up, neither the ring
\* nor the UART holds a byte (ODCore.c:234-250, ODCom.c:2440-2449), though the
\* ring and the line status are looked at one after the other.
THEOREM DrainsAll == LineSpec => []DrainedIsSent
<1>1. TransmitInv => DrainedIsSent
  BY DEF TransmitInv
<1> QED
  BY <1>1, Transmitting, PTL

\* FlowControlWorks: with RTS/CTS no byte is lost while the ring's last quarter
\* holds twice the modem's skid, and RTS is not left low by a ring with room,
\* but for the bulk reads (ODCom.c:645-662, 2896-2907), for rings of any size.
THEOREM LosesNothing == LineSpec => []FlowControlWorks
<1>1. LineInit => FlowInv
  BY LineStarts, FlowInvInit
<1>2. FlowInv /\ [LineNext]_lineVars => FlowInv'
  <2> SUFFICES ASSUME FlowInv, [LineNext]_lineVars
               PROVE  FlowInv'
    OBVIOUS
  <2>1. CASE UNCHANGED receiveVars
    BY <2>1, Marks DEF receiveVars, FlowInv, FlowTypes, LowForCause, NothingLost, RoomWhenHigh,
       RoomWhenLow, RoomToRaise, RoomForSkid, Pending
  <2> QED
    BY <2>1, ReceiveMoves, FlowInvStep
<1> QED
  BY <1>1, <1>2, FlowWorks, PTL DEF LineSpec

\* What a run keeps of the port that is opened and closed.
LEMMA PortKeeps == LineSpec => [](PortTypes /\ PortPlaces)
<1>1. LineInit => PortTypes /\ PortPlaces
  BY LineStarts, PortInvInit
<1>2. PortTypes /\ PortPlaces /\ [LineNext]_lineVars => PortTypes' /\ PortPlaces'
  <2> SUFFICES ASSUME PortTypes, PortPlaces, [LineNext]_lineVars
               PROVE  PortTypes' /\ PortPlaces'
    OBVIOUS
  <2>1. CASE UNCHANGED portVars
    <3>0. /\ step' = step /\ vector' = vector /\ masked' = masked /\ ier' = ier /\ mcr' = mcr
          /\ saved' = saved /\ rings' = rings /\ toSend' = toSend /\ full' = full
          /\ stopped' = stopped /\ rtsCts' = rtsCts /\ found' = found
      BY Zenon, <2>1 DEF portVars
    <3>1. PortTypes'
      BY Zenon, <3>0 DEF PortTypes
    <3>2. PortPlaces'
      BY Zenon, <3>0 DEF PortPlaces, InterruptsAsFound, ModemAsFound, VectorIsOther,
         MaskIsFound, LineIsMasked, InterruptsAreOff, InterruptsAreSaved, ModemIsSaved
    <3> QED
      BY <3>1, <3>2
  <2> QED
    BY <2>1, PortMoves, PortTypeStep, PortInvStep
<1> QED
  BY <1>1, <1>2, PTL DEF LineSpec

\* PortChangesHands: while the vector is ODComInternalISR's the rings are there
\* for it, and a closed port's vector, interrupt line and registers are as the
\* BBS left them, whatever interrupts came meanwhile (ODCom.c:1489-1632,
\* 2037-2060); with OUT2 left on, RTS and THRE may have been turned off.
THEOREM PortReturned == LineSpec => []PortChangesHands
<1> QED
  BY PortKeeps, PortIsGivenBack, PTL

\* What a run keeps of the key sequences.
LEMMA KeysHold == LineSpec => []KeysInv
<1>1. LineInit => KeysInv
  BY LineStarts, KeysInvInit
<1>2. KeysInv /\ [LineNext]_lineVars => KeysInv'
  <2> SUFFICES ASSUME KeysInv, [LineNext]_lineVars
               PROVE  KeysInv'
    OBVIOUS
  <2>1. CASE UNCHANGED keysVars
    BY <2>1 DEF keysVars, KeysInv, KeysTypes, BytesAccounted, Keys!BytesAccounted, Keys!Account
  <2> QED
    BY <2>1, KeysMove, KeysInvStep
<1> QED
  BY <1>1, <1>2, PTL DEF LineSpec

\* BytesAccounted: od_get_input returns every byte it read once and in order,
\* or still holds it, whatever keys, zero bytes, timeouts, modes and clearings
\* are between (ODGetIn.c:333-364, 405-477, 655-671), for a buffer of any size
\* that the keys of the table fit, any number of bytes and any number of calls,
\* until bytes are held that do not fit it.
THEOREM KeysAccounted == LineSpec => []BytesAccounted
<1>1. KeysInv => BytesAccounted
  BY DEF KeysInv
<1> QED
  BY <1>1, KeysHold, PTL

---------------------------------------------------------------------------
(* What the bytes stand for.                                               *)

\* A set of numbers has a least one.
LEMMA Least ==
    ASSUME NEW S \in SUBSET Nat, S # {}
    PROVE  Keys!Min(S) \in S
<1> DEFINE Less == OpToRel(<, Nat)
<1>1. IsWellFoundedOn(Less, Nat)
  BY NatLessThanWellFounded
<1>2. \A x, y \in Nat : <<y, x>> \in Less <=> y < x
  BY DEF OpToRel
<1> HIDE DEF Less
<1>3. \E x \in S : \A y \in S : ~(<<y, x>> \in Less)
  BY <1>1, WFMin
<1>4. \E x \in S : \A y \in S : x <= y
  <2>1. PICK x \in S : \A y \in S : ~(<<y, x>> \in Less)
    BY <1>3
  <2>2. ASSUME NEW y \in S PROVE x <= y
    <3>1. x \in Nat /\ y \in Nat /\ ~(y < x)
      BY <1>2, <2>1
    <3> QED
      BY <3>1
  <2> QED
    BY <2>2
<1> QED
  BY <1>4 DEF Keys!Min

\* k is the start of s.
Starts(k, s) == Len(k) <= Len(s) /\ \A i \in 1..Len(k) : k[i] = s[i]

\* IsPrefix, place by place.
LEMMA PrefixStarts ==
    ASSUME NEW S, NEW k \in Seq(S), NEW s \in Seq(S)
    PROVE  /\ Keys!IsPrefix(k, s) <=> Starts(k, s)
           /\ TelnetIn!IsPrefix(k, s) <=> Starts(k, s)
           /\ TelnetOut!IsPrefix(k, s) <=> Starts(k, s)
<1>1. /\ Len(k) \in Nat /\ Len(s) \in Nat /\ \A i \in 1..Len(k) : k[i] \in S
      /\ \A i \in 1..Len(s) : s[i] \in S
  BY ElementOfSeq, LenProperties
<1> SUFFICES ASSUME Len(k) <= Len(s)
             PROVE  SubSeq(k, 1, Len(k)) = SubSeq(s, 1, Len(k))
                       <=> \A i \in 1..Len(k) : k[i] = s[i]
  BY DEF Keys!IsPrefix, TelnetIn!IsPrefix, TelnetOut!IsPrefix, Starts
<1> DEFINE a == SubSeq(k, 1, Len(k))
           b == SubSeq(s, 1, Len(k))
<1>2. a \in Seq(S) /\ Len(a) = Len(k) /\ \A i \in 1..Len(k) : a[i] = k[i]
  BY <1>1, SubSeqProperties
<1>3. b \in Seq(S) /\ Len(b) = Len(k) /\ \A i \in 1..Len(k) : b[i] = s[i]
  BY <1>1, SubSeqProperties
<1> HIDE DEF a, b
<1>4. a = b <=> \A i \in 1..Len(k) : k[i] = s[i]
  BY <1>2, <1>3, SeqEqual
<1> QED
  BY <1>4 DEF a, b

\* The sequences of the table are of bytes.
LEMMA KnownAreBytes ==
    ASSUME KeysTypes
    PROVE  Keys!Known \subseteq Seq(Keys!Remote) /\ << >> \notin Keys!Known
<1>1. Keys!Known \subseteq Keys!Table
  BY LineAssumption DEF KeysTypes, Calls, Keys!Known, Keys!KeysAssumption
<1>2. Keys!Table \subseteq Seq(Keys!Remote) /\ << >> \notin Keys!Table
  BY DEF Keys!Table, Keys!Remote
<1> QED
  BY <1>1, <1>2

\* If nothing that is known goes on after the bytes, what follows them does not
\* change what they stand for.
LEMMA MoreIsTheSame ==
    ASSUME KeysTypes, NEW bytes \in Seq(Keys!Remote), NEW all \in Seq(Keys!Remote),
           Starts(bytes, all),
           \A key \in Keys!Known : Len(key) > Len(bytes) => ~Keys!IsPrefix(bytes, key)
    PROVE  Keys!LongestFullCode(all) = Keys!LongestFullCode(bytes)
<1>1. Len(bytes) \in Nat /\ Len(all) \in Nat /\ Len(bytes) <= Len(all)
      /\ \A i \in 1..Len(bytes) : bytes[i] = all[i]
  BY LenProperties DEF Starts
<1>2. ASSUME NEW key \in Keys!Known
      PROVE  Keys!IsPrefix(key, all) <=> Keys!IsPrefix(key, bytes)
  <2>1. key \in Seq(Keys!Remote) /\ Len(key) \in Nat
    BY KnownAreBytes, LenProperties
  <2>2. /\ Keys!IsPrefix(key, all) <=> Starts(key, all)
        /\ Keys!IsPrefix(key, bytes) <=> Starts(key, bytes)
        /\ Keys!IsPrefix(bytes, key) <=> Starts(bytes, key)
    BY <2>1, PrefixStarts
  <2>3. CASE Len(key) <= Len(bytes)
    <3>1. Starts(key, all) <=> Starts(key, bytes)
      BY <1>1, <2>1, <2>3 DEF Starts
    <3> QED
      BY <2>2, <3>1
  <2>4. CASE Len(key) > Len(bytes)
    <3>1. ~Starts(bytes, key)
      BY <2>2, <2>4
    <3>2. ~Starts(key, all)
      BY <1>1, <2>1, <2>4, <3>1 DEF Starts
    <3>3. ~Starts(key, bytes)
      BY <1>1, <2>1, <2>4 DEF Starts
    <3> QED
      BY <2>2, <3>2, <3>3
  <2> QED
    BY <1>1, <2>1, <2>3, <2>4
<1>3. {key \in Keys!Known : Keys!IsPrefix(key, all)}
        = {key \in Keys!Known : Keys!IsPrefix(key, bytes)}
  BY <1>2
<1> DEFINE Longest(codes) ==
        IF codes = {} THEN << >> ELSE CHOOSE key \in codes : \A k \in codes : Len(k) <= Len(key)
<1>4. /\ Keys!LongestFullCode(all) = Longest({key \in Keys!Known : Keys!IsPrefix(key, all)})
      /\ Keys!LongestFullCode(bytes) = Longest({key \in Keys!Known : Keys!IsPrefix(key, bytes)})
  BY DEF Keys!LongestFullCode
<1> HIDE DEF Longest
<1> QED
  BY Zenon, <1>3, <1>4

\* A call may read the bytes it holds and the remote bytes behind them, up to
\* the first key of another kind.
LEMMA MayRead ==
    ASSUME KeysInv
    PROVE  LET more == Append(szCurrentSequence, Head(queue).byte)
           IN /\ Keys!Readable \in Seq(Keys!Remote)
              /\ Starts(szCurrentSequence, Keys!Readable)
              /\ bDoorwaySequencePending \/ queue = << >> => Keys!Readable = szCurrentSequence
              /\ ~bDoorwaySequencePending /\ queue # << >>
                   /\ Head(queue).remote /\ Head(queue).byte # "NUL" =>
                      more \in Seq(Keys!Remote) /\ Starts(more, Keys!Readable)
<1> DEFINE foreign == {i \in 1..Len(queue) : ~queue[i].remote \/ queue[i].byte = "NUL"}
           reads == IF bDoorwaySequencePending THEN 0
                    ELSE IF foreign = {} THEN Len(queue) ELSE Keys!Min(foreign) - 1
           after == [i \in 1..reads |-> queue[i].byte]
           have == szCurrentSequence
           more == Append(have, Head(queue).byte)
<1>1. /\ have \in Seq(Keys!Remote) /\ Len(have) \in Nat /\ Len(queue) \in Nat
      /\ \A i \in 1..Len(queue) : queue[i].byte \in Keys!Remote
  <2>1. queue \in Seq(Keys!Events) /\ have \in Seq(Keys!Remote)
    BY DEF KeysInv, KeysTypes
  <2>2. \A e \in Keys!Events : e.byte \in Keys!Remote
    BY DEF Keys!Events, Keys!Remote
  <2> QED
    BY <2>1, <2>2, LenProperties, ElementOfSeq
<1>2. foreign # {} => Keys!Min(foreign) \in foreign
  <2>1. foreign \in SUBSET Nat
    OBVIOUS
  <2> QED
    BY <2>1, Least
<1>3. reads \in 0..Len(queue)
  BY <1>1, <1>2
<1>4. Keys!Readable = have \o after
  BY DEF Keys!Readable
<1>5. after \in Seq(Keys!Remote) /\ Len(after) = reads /\ \A i \in 1..reads : after[i] = queue[i].byte
  BY <1>1, <1>3
<1>6. bDoorwaySequencePending \/ queue = << >> => reads = 0
  BY <1>1, <1>3
<1>7. ASSUME ~bDoorwaySequencePending, queue # << >>, Head(queue).remote, Head(queue).byte # "NUL"
      PROVE  reads >= 1 /\ queue[1] = Head(queue)
  <2>1. queue[1] = Head(queue) /\ Len(queue) >= 1
    BY <1>1, <1>7 DEF KeysInv, KeysTypes
  <2>2. 1 \notin foreign
    BY <1>7, <2>1
  <2> QED
    BY <1>1, <1>2, <1>7, <2>1, <2>2
<1> HIDE DEF after, reads, foreign, have
<1>8. /\ have \o after \in Seq(Keys!Remote) /\ Len(have \o after) = Len(have) + reads
      /\ \A i \in 1..(Len(have) + reads) :
            (have \o after)[i] = IF i <= Len(have) THEN have[i] ELSE after[i - Len(have)]
  <2>1. /\ have \o after \in Seq(Keys!Remote) /\ Len(have \o after) = Len(have) + Len(after)
        /\ \A i \in 1..(Len(have) + Len(after)) :
              (have \o after)[i] = IF i <= Len(have) THEN have[i] ELSE after[i - Len(have)]
    BY <1>1, <1>5, ConcatProperties
  <2> QED
    BY <1>5, <2>1
<1>9. Starts(have, have \o after)
  BY <1>1, <1>3, <1>8 DEF Starts
<1>10. reads = 0 => have \o after = have
  <2>1. ASSUME reads = 0 PROVE after = << >>
    BY <1>5, <2>1, EmptySeq
  <2> QED
    BY <1>1, <2>1, ConcatEmptySeq
<1>11. ASSUME ~bDoorwaySequencePending, queue # << >>, Head(queue).remote, Head(queue).byte # "NUL"
       PROVE  more \in Seq(Keys!Remote) /\ Starts(more, have \o after)
  <2>1. reads >= 1 /\ queue[1] = Head(queue) /\ Head(queue).byte \in Keys!Remote
    <3>1. reads >= 1 /\ queue[1] = Head(queue)
      BY <1>7, <1>11
    <3> QED
      BY <1>1, <1>3, <3>1
  <2>2. /\ more \in Seq(Keys!Remote) /\ Len(more) = Len(have) + 1
        /\ \A i \in 1..Len(have) : more[i] = have[i]
        /\ more[Len(have) + 1] = Head(queue).byte
    BY <1>1, <2>1, AppendProperties
  <2> HIDE DEF more
  <2>3. (have \o after)[Len(have) + 1] = Head(queue).byte
    <3>1. (Len(have) + 1) - Len(have) = 1 /\ ~(Len(have) + 1 <= Len(have))
          /\ Len(have) + 1 \in 1..(Len(have) + reads)
      BY <1>1, <1>3, <2>1
    <3>2. after[1] = queue[1].byte
      BY <1>3, <1>5, <2>1
    <3> QED
      BY <1>8, <2>1, <3>1, <3>2
  <2>4. \A i \in 1..Len(have) : (have \o after)[i] = have[i]
    BY <1>1, <1>3, <1>8
  <2> QED
    BY <1>1, <1>3, <1>8, <2>1, <2>2, <2>3, <2>4 DEF Starts
<1> QED
  BY <1>4, <1>6, <1>8, <1>9, <1>10, <1>11 DEF have

\* What a call returns for the bytes it may read.
Meaning == LET key == Keys!LongestFullCode(Keys!Readable)
           IN IF key = << >> THEN <<Keys!Readable[1]>> ELSE key

\* The three ways in which a call returns bytes that it held.
LEMMA LooksForLongest ==
    ASSUME KeysInv, Keys!Look, call'.at = "idle", ~bDoorwaySequence
    PROVE  event' = Meaning
<1> DEFINE key == Keys!GetCodeIfLongest(szCurrentSequence)
<1>1. KeysTypes /\ szCurrentSequence \in Seq(Keys!Remote) /\ szCurrentSequence # << >>
  BY DEF KeysInv, KeysTypes, Keys!Look
<1>2. /\ Keys!Readable \in Seq(Keys!Remote) /\ Starts(szCurrentSequence, Keys!Readable)
      /\ szCurrentSequence[1] = Keys!Readable[1]
  <2>1. Keys!Readable \in Seq(Keys!Remote) /\ Starts(szCurrentSequence, Keys!Readable)
    BY MayRead
  <2>2. Len(szCurrentSequence) \in Nat /\ Len(szCurrentSequence) # 0
    BY <1>1, LenProperties, EmptySeq
  <2> QED
    BY <2>1, <2>2 DEF Starts
<1>3. \/ /\ ~Keys!HaveStartOfSequence(szCurrentSequence)
         /\ event' = <<szCurrentSequence[1]>>
      \/ /\ key # << >> /\ event' = key
  <2>1. [call EXCEPT !.at = "more"].at = "more"
    BY <1>1 DEF KeysTypes, Calls
  <2>2. call' # [call EXCEPT !.at = "more"]
    BY <2>1
  <2> HIDE DEF key
  <2> QED
    BY <2>2 DEF Keys!Look, Keys!Return, key
<1>4. CASE ~Keys!HaveStartOfSequence(szCurrentSequence) /\ event' = <<szCurrentSequence[1]>>
  <2>1. /\ \A k \in Keys!Known : ~Keys!IsPrefix(k, szCurrentSequence)
        /\ \A k \in Keys!Known : ~Keys!IsPrefix(szCurrentSequence, k)
    BY <1>4 DEF Keys!HaveStartOfSequence
  <2>2. Keys!LongestFullCode(Keys!Readable) = Keys!LongestFullCode(szCurrentSequence)
    BY <1>1, <1>2, <2>1, MoreIsTheSame
  <2>3. Keys!LongestFullCode(szCurrentSequence) = << >>
    BY <2>1 DEF Keys!LongestFullCode
  <2> QED
    BY <1>2, <1>4, <2>2, <2>3 DEF Meaning
<1>5. CASE key # << >> /\ event' = key
  <2>1. /\ \A k \in Keys!Known :
              Len(k) > Len(szCurrentSequence) => ~Keys!IsPrefix(szCurrentSequence, k)
        /\ key = Keys!LongestFullCode(szCurrentSequence)
    BY <1>5 DEF Keys!GetCodeIfLongest
  <2>2. Keys!LongestFullCode(Keys!Readable) = Keys!LongestFullCode(szCurrentSequence)
    BY <1>1, <1>2, <2>1, MoreIsTheSame
  <2> QED
    BY <1>5, <2>1, <2>2 DEF Meaning
<1> QED
  BY <1>3, <1>4, <1>5

LEMMA ExtendsToLongest ==
    ASSUME KeysInv, Keys!Extend, call'.at = "idle"
    PROVE  event' = Meaning
<1> DEFINE bytes == Append(szCurrentSequence, Head(queue).byte)
           key == Keys!GetCodeIfLongest(bytes)
<1>1. /\ ~bDoorwaySequencePending /\ queue # << >> /\ Head(queue).byte # "NUL"
      /\ Head(queue).remote /\ key # << >> /\ event' = key
  BY DEF Keys!Extend, Keys!MoreToCome, Keys!NextKey
<1>2. /\ bytes \in Seq(Keys!Remote) /\ Starts(bytes, Keys!Readable)
      /\ Keys!Readable \in Seq(Keys!Remote)
  BY <1>1, MayRead
<1> HIDE DEF bytes
<1>3. /\ \A k \in Keys!Known : Len(k) > Len(bytes) => ~Keys!IsPrefix(bytes, k)
      /\ key = Keys!LongestFullCode(bytes)
  BY <1>1 DEF Keys!GetCodeIfLongest
<1>4. Keys!LongestFullCode(Keys!Readable) = Keys!LongestFullCode(bytes)
  <2>1. KeysTypes
    BY DEF KeysInv
  <2> QED
    BY <1>2, <1>3, <2>1, MoreIsTheSame
<1> QED
  BY <1>1, <1>3, <1>4 DEF Meaning

LEMMA SettlesForLongest ==
    ASSUME KeysInv, Keys!Settle, ~bDoorwaySequence, ~call.limited
    PROVE  event' = Meaning
<1>1. bDoorwaySequencePending \/ queue = << >>
  BY DEF Keys!Settle
<1>2. Keys!Readable = szCurrentSequence
  BY <1>1, MayRead
<1> QED
  BY <1>2 DEF Keys!Settle, Keys!Return, Meaning

\* TranslatesLongest: a call without a deadline returns the longest sequence at
\* the start of the bytes that have arrived, or else the first of them, whatever the
\* pieces in which they came and the calls that held them (ODGetIn.c:374-477): no
\* look returns what a later byte, already there, would make longer.  For a buffer
\* of any size, until bytes are held that do not fit it.
THEOREM LongestIsReturned == LineSpec => TranslatesLongest
<1> DEFINE A == call.at \in {"look", "more"} /\ call'.at = "idle" /\ owed' # owed
                   /\ ~bDoorwaySequence /\ ~call.limited /\ ~overrun' =>
                LET key == Keys!LongestFullCode(Keys!Readable)
                IN event' = IF key = << >> THEN <<Keys!Readable[1]>> ELSE key
<1>1. KeysInv /\ [LineNext]_lineVars => [A]_(Keys!keysVars)
  <2> SUFFICES ASSUME KeysInv, Keys!KeysNext, call.at \in {"look", "more"}, call'.at = "idle",
                      owed' # owed, ~bDoorwaySequence, ~call.limited
               PROVE  event' = Meaning
    BY KeysMove DEF Meaning, keysVars, Keys!keysVars
  <2>1. CASE Keys!Look
    BY <2>1, LooksForLongest
  <2>2. CASE Keys!Extend
    BY <2>2, ExtendsToLongest
  <2>3. CASE Keys!Settle
    BY <2>3, SettlesForLongest
  <2>4. ~Keys!Clear /\ ~Keys!First /\ ~Keys!NoInput /\ ~Keys!CompleteDoorway
        /\ ~Keys!PostponeDoorway /\ ~Keys!ReturnLocal
    BY DEF Keys!Clear, Keys!First, Keys!NoInput, Keys!CompleteDoorway, Keys!PostponeDoorway,
       Keys!ReturnLocal, Keys!held
  <2>5. /\ \A bytes, far : ~Keys!Type(bytes, far)
        /\ \A flags, limited : ~Keys!Call(flags, limited)
    BY DEF Keys!Type, Keys!Call
  <2> QED
    BY <2>1, <2>2, <2>3, <2>4, <2>5 DEF Keys!KeysNext
<1> QED
  BY <1>1, KeysHold, PTL DEF LineSpec, TranslatesLongest, Keys!TranslatesLongest

---------------------------------------------------------------------------
(* The rings.                                                              *)

\* A place of a ring of N places, and what n of them from o hold.
At(x, N) == x % N
Places(q, o, n, N) == [i \in 1..n |-> q[At(o + i - 1, N)]]

\* A place less than a turn before the ring or after it.
LEMMA Around ==
    ASSUME NEW N \in Nat \ {0}, NEW x \in Int, 0 <= x + N, x < 2 * N
    PROVE  /\ At(x, N) = IF x < 0 THEN x + N ELSE IF x < N THEN x ELSE x - N
           /\ At(x, N) \in 0..(N - 1)
<1>1. CASE x < 0
  BY <1>1 DEF At
<1>2. CASE x >= 0 /\ x < N
  BY <1>2 DEF At
<1>3. CASE x >= N
  BY <1>3 DEF At
<1> QED
  BY <1>1, <1>2, <1>3

\* How far one place is behind another.
LEMMA Apart ==
    ASSUME NEW N \in Nat \ {0}, NEW a \in 0..(N - 1), NEW b \in 0..(N - 1)
    PROVE  At(a - b, N) = IF a < b THEN a - b + N ELSE a - b
BY Around

\* A ring of N places for members of S, and n members from the place o.
IsRing(q, o, n, N, S) ==
    N \in Nat \ {0} /\ o \in 0..(N - 1) /\ n \in 0..N /\ q \in [0..(N - 1) -> S]

\* p is what they hold.
Holds(p, q, o, n, N, S) ==
    p \in Seq(S) /\ Len(p) = n /\ \A i \in 1..n : p[i] = q[At(o + i - 1, N)]

\* The places of a ring hold a sequence of members.
LEMMA PlacesAreBytes ==
    ASSUME NEW S, NEW N, NEW o, NEW n, NEW q, IsRing(q, o, n, N, S)
    PROVE  Holds(Places(q, o, n, N), q, o, n, N, S)
<1>0. N \in Nat \ {0} /\ o \in 0..(N - 1) /\ n \in 0..N /\ n \in Nat /\ q \in [0..(N - 1) -> S]
  BY DEF IsRing
<1>1. \A i \in 1..n : At(o + i - 1, N) \in 0..(N - 1)
  BY <1>0, Around
<1>2. \A i \in 1..n : q[At(o + i - 1, N)] \in S
  BY <1>0, <1>1
<1>3. Places(q, o, n, N) \in [1..n -> S]
  BY <1>2 DEF Places
<1>4. Places(q, o, n, N) \in Seq(S) /\ Len(Places(q, o, n, N)) = n
  BY <1>0, <1>3
<1> QED
  BY <1>0, <1>4 DEF Places, Holds

\* Moving the front by k leaves all but the first k.
LEMMA TakenFromFront ==
    ASSUME NEW S, NEW N, NEW o, NEW n, NEW q, IsRing(q, o, n, N, S), NEW k \in 0..n
    PROVE  Places(q, At(o + k, N), n - k, N) = SubSeq(Places(q, o, n, N), k + 1, n)
<1> DEFINE rest == Places(q, At(o + k, N), n - k, N)
           cut == SubSeq(Places(q, o, n, N), k + 1, n)
<1>0. N \in Nat \ {0} /\ o \in 0..(N - 1) /\ n \in 0..N
  BY DEF IsRing
<1>1. IsRing(q, At(o + k, N), n - k, N, S) /\ At(o + k, N) \in 0..(N - 1)
  BY Around DEF IsRing
<1>2. rest \in Seq(S) /\ Len(rest) = n - k
      /\ \A i \in 1..(n - k) : rest[i] = q[At(At(o + k, N) + i - 1, N)]
  <2>1. Holds(rest, q, At(o + k, N), n - k, N, S)
    BY <1>1, PlacesAreBytes
  <2> QED
    BY <2>1 DEF Holds
<1>3. /\ Places(q, o, n, N) \in Seq(S) /\ Len(Places(q, o, n, N)) = n
      /\ \A i \in 1..n : Places(q, o, n, N)[i] = q[At(o + i - 1, N)]
  <2>1. Holds(Places(q, o, n, N), q, o, n, N, S)
    BY PlacesAreBytes
  <2> QED
    BY <2>1 DEF Holds
<1>4. cut \in Seq(S) /\ Len(cut) = n - k
      /\ \A i \in 1..(n - k) : cut[i] = Places(q, o, n, N)[k + i]
  BY <1>0, <1>3, SubSeqProperties, ElementOfSeq
<1>5. ASSUME NEW i \in 1..(n - k)
      PROVE  At(At(o + k, N) + i - 1, N) = At(o + (k + i) - 1, N)
  <2>1. At(o + k, N) = IF o + k < N THEN o + k ELSE o + k - N
    BY <1>0, Around
  <2>2. At(At(o + k, N) + i - 1, N)
          = IF At(o + k, N) + i - 1 < N THEN At(o + k, N) + i - 1 ELSE At(o + k, N) + i - 1 - N
    BY <1>0, <1>1, Around
  <2>3. At(o + (k + i) - 1, N)
          = IF o + (k + i) - 1 < N THEN o + (k + i) - 1 ELSE o + (k + i) - 1 - N
    BY <1>0, Around
  <2> QED
    BY <1>0, <1>1, <2>1, <2>2, <2>3
<1>6. ASSUME NEW i \in 1..(n - k)
      PROVE  rest[i] = cut[i]
  <2>1. k + i \in 1..n
    BY <1>0
  <2>2. rest[i] = q[At(o + (k + i) - 1, N)]
    BY <1>2, <1>5
  <2>3. Places(q, o, n, N)[k + i] = q[At(o + (k + i) - 1, N)]
    BY <1>3, <2>1
  <2> QED
    BY <1>4, <2>2, <2>3
<1> HIDE DEF rest, cut
<1>7. rest = cut
  BY <1>2, <1>4, <1>6, SeqEqual
<1> QED
  BY <1>7 DEF rest, cut

\* The ring r is q with the k members of group put at its end.
IsPut(r, q, o, n, k, N, group, S) ==
    /\ k \in 0..(N - n) /\ r \in [0..(N - 1) -> S] /\ group \in Seq(S) /\ Len(group) = k
    /\ \A j \in 0..(N - 1) :
          r[j] = IF At(j - At(o + n, N), N) < k THEN group[At(j - At(o + n, N), N) + 1] ELSE q[j]

\* What is put at the end follows what the ring held.
LEMMA PutAtEnd ==
    ASSUME NEW S, NEW N, NEW o, NEW n, NEW q, IsRing(q, o, n, N, S),
           NEW k, NEW r, NEW group, IsPut(r, q, o, n, k, N, group, S)
    PROVE  Places(r, o, n + k, N) = Places(q, o, n, N) \o group
<1> DEFINE more == Places(r, o, n + k, N)
           joined == Places(q, o, n, N) \o group
<1>0. N \in Nat \ {0} /\ o \in 0..(N - 1) /\ n \in 0..N /\ k \in 0..(N - n)
  BY DEF IsRing, IsPut
<1>8. group \in Seq(S) /\ Len(group) = k
  BY DEF IsPut
<1>7. /\ r \in [0..(N - 1) -> S] /\ group \in Seq(S) /\ Len(group) = k
      /\ \A j \in 0..(N - 1) :
            r[j] = IF At(j - At(o + n, N), N) < k THEN group[At(j - At(o + n, N), N) + 1] ELSE q[j]
  BY DEF IsPut
<1>1. more \in Seq(S) /\ Len(more) = n + k
      /\ \A i \in 1..(n + k) : more[i] = r[At(o + i - 1, N)]
  <2>1. IsRing(r, o, n + k, N, S)
    BY <1>0, <1>7 DEF IsRing
  <2>2. Holds(more, r, o, n + k, N, S)
    BY <2>1, PlacesAreBytes
  <2> QED
    BY <2>2 DEF Holds
<1>2. /\ Places(q, o, n, N) \in Seq(S) /\ Len(Places(q, o, n, N)) = n
      /\ \A i \in 1..n : Places(q, o, n, N)[i] = q[At(o + i - 1, N)]
  <2>1. Holds(Places(q, o, n, N), q, o, n, N, S)
    BY PlacesAreBytes
  <2> QED
    BY <2>1 DEF Holds
<1>3. joined \in Seq(S) /\ Len(joined) = n + k
      /\ \A i \in 1..(n + k) :
            joined[i] = IF i <= n THEN Places(q, o, n, N)[i] ELSE group[i - n]
  <2> DEFINE before == Places(q, o, n, N)
  <2>1. before \in Seq(S) /\ Len(before) = n
    BY <1>2
  <2> HIDE DEF before
  <2>2. before \o group \in Seq(S) /\ Len(before \o group) = n + k
    BY <2>1, <1>8, ConcatProperties
  <2>3. \A i \in 1..(n + k) : (before \o group)[i] = IF i <= n THEN before[i] ELSE group[i - n]
    BY <2>1, <1>8, ConcatProperties
  <2> QED
    BY <2>2, <2>3 DEF before
<1>4. ASSUME NEW i \in 1..(n + k)
      PROVE  more[i] = IF i <= n THEN q[At(o + i - 1, N)] ELSE group[i - n]
  <2> DEFINE end == At(o + n, N)
             j == At(o + i - 1, N)
             far == At(j - end, N)
  <2>1. end = (IF o + n < N THEN o + n ELSE o + n - N) /\ end \in 0..(N - 1)
    <3>1. o + n \in Int /\ 0 <= o + n /\ o + n < 2 * N
      BY <1>0
    <3> QED
      BY <1>0, <3>1, Around
  <2>2. j = (IF o + i - 1 < N THEN o + i - 1 ELSE o + i - 1 - N) /\ j \in 0..(N - 1)
    BY <1>0, Around
  <2>3. more[i] = IF far < k THEN group[far + 1] ELSE q[j]
    BY <1>0, <1>1, <1>7, <2>2
  <2> HIDE DEF end, j
  <2>4. far = IF j < end THEN j - end + N ELSE j - end
    BY <1>0, <2>1, <2>2, Apart
  <2> HIDE DEF far
  <2>5. CASE i <= n
    <3>0. far = i - 1 - n + N
      <4>1. CASE o + n < N
        BY <1>0, <2>1, <2>2, <2>4, <2>5, <4>1
      <4>2. CASE o + n >= N
        BY <1>0, <2>1, <2>2, <2>4, <2>5, <4>2
      <4> QED
        BY <1>0, <4>1, <4>2
    <3>1. far >= k
      BY <3>0, <1>0, <2>1, <2>2, <2>4, <2>5
    <3> QED
      BY <1>0, <2>1, <2>2, <2>3, <2>4, <2>5, <3>1 DEF j
  <2>6. CASE i > n
    <3>1. far = i - n - 1
      BY <1>0, <2>1, <2>2, <2>4, <2>6
    <3> QED
      BY <1>0, <2>3, <2>6, <3>1
  <2> QED
    BY <1>0, <2>5, <2>6
<1>5. ASSUME NEW i \in 1..(n + k)
      PROVE  more[i] = joined[i]
  <2>1. more[i] = IF i <= n THEN q[At(o + i - 1, N)] ELSE group[i - n]
    BY <1>4
  <2>2. joined[i] = IF i <= n THEN Places(q, o, n, N)[i] ELSE group[i - n]
    BY <1>3
  <2>3. i <= n => Places(q, o, n, N)[i] = q[At(o + i - 1, N)]
    BY <1>0, <1>2
  <2> HIDE DEF more, joined
  <2> QED
    BY <2>1, <2>2, <2>3
<1> HIDE DEF more, joined
<1>6. more = joined
  BY <1>1, <1>3, <1>5, SeqEqual
<1> QED
  BY <1>6 DEF more, joined

\* The ring the door fills: its end is where its bytes end, and the door that has
\* seen room finds room, since only the door adds bytes.
TxRing ==
    /\ IsRing(pbtTXQueue, nTXOutIndex, nTXChars, TXQueueSize, 0..(Numbers - 1))
    /\ nTXInIndex = At(nTXOutIndex + nTXChars, TXQueueSize)
    /\ txDoor = "room" => nTXChars < TXQueueSize
    /\ left \in Nat /\ txNext \in 0..(Numbers - 1)

\* What it holds.
TxBytes == Places(pbtTXQueue, nTXOutIndex, nTXChars, TXQueueSize)

\* The refinement mapping, seen as places of the ring.
LEMMA TxBytesAre == Transmit!Waiting = TxBytes /\ Transmit!Waiting' = TxBytes'
BY DEF Transmit!Waiting, TxBytes, Places, At

\* The constants' types.
LEMMA TxSizes ==
    /\ TXQueueSize \in Nat \ {0} /\ BufferMax \in Nat \ {0}
    /\ Numbers \in Nat /\ Numbers > 1
BY LineAssumption DEF Transmit!TransmitAssumption

\* Where the end of the ring is when its front or its end moves by k.
LEMMA EndStays ==
    ASSUME NEW N \in Nat \ {0}, NEW o \in 0..(N - 1), NEW n \in 0..N, NEW k \in 0..n
    PROVE  At(At(o + k, N) + (n - k), N) = At(o + n, N) /\ At(o + k, N) \in 0..(N - 1)
<1>1. At(o + k, N) = IF o + k < N THEN o + k ELSE o + k - N
  BY Around
<1>2. At(o + k, N) \in 0..(N - 1)
  BY Around
<1>3. At(o + n, N) = IF o + n < N THEN o + n ELSE o + n - N
  BY Around
<1>4. At(At(o + k, N) + (n - k), N)
        = IF At(o + k, N) + (n - k) < N THEN At(o + k, N) + (n - k) ELSE At(o + k, N) + (n - k) - N
  BY <1>2, Around
<1> QED
  BY <1>1, <1>2, <1>3, <1>4

LEMMA EndMoves ==
    ASSUME NEW N \in Nat \ {0}, NEW o \in 0..(N - 1), NEW n \in 0..N, NEW k \in 0..(N - n)
    PROVE  At(At(o + n, N) + k, N) = At(o + (n + k), N)
<1>1. At(o + n, N) = (IF o + n < N THEN o + n ELSE o + n - N) /\ At(o + n, N) \in 0..(N - 1)
  BY Around
<1>2. At(o + (n + k), N) = IF o + (n + k) < N THEN o + (n + k) ELSE o + (n + k) - N
  BY Around
<1>3. At(At(o + n, N) + k, N)
        = IF At(o + n, N) + k < N THEN At(o + n, N) + k ELSE At(o + n, N) + k - N
  BY <1>1, Around
<1> QED
  BY <1>1, <1>2, <1>3

\* A cleared ring begins and ends at place 0.
LEMMA ZeroPlace ==
    ASSUME NEW N \in Nat \ {0}
    PROVE  At(0, N) = 0
BY Around

\* The numbers of k bytes from the byte first.
Numbered(first, k) == [i \in 1..k |-> At(first + (i - 1), Numbers)]

\* They are numbers of bytes, and so is the next.
LEMMA NumberedBytes ==
    ASSUME NEW first \in 0..(Numbers - 1), NEW k \in Nat
    PROVE  /\ Numbered(first, k) \in Seq(0..(Numbers - 1)) /\ Len(Numbered(first, k)) = k
           /\ \A i \in 1..k : Numbered(first, k)[i] = At(first + (i - 1), Numbers)
           /\ At(first + k, Numbers) \in 0..(Numbers - 1)
<1>1. \A x \in Nat : At(x, Numbers) \in 0..(Numbers - 1)
  BY TxSizes DEF At
<1>2. \A i \in 1..k : first + (i - 1) \in Nat
  BY TxSizes
<1>3. Numbered(first, k) \in [1..k -> 0..(Numbers - 1)]
  BY <1>1, <1>2 DEF Numbered
<1>4. first + k \in Nat
  BY TxSizes
<1> QED
  BY <1>1, <1>3, <1>4 DEF Numbered

\* The bytes stored follow those the ring holds.
LEMMA StoredAtEnd ==
    ASSUME TxRing, NEW k \in 0..(TXQueueSize - nTXChars), Transmit!Store(k)
    PROVE  /\ TxBytes' = TxBytes \o Numbered(txNext, k)
           /\ nTXChars' = nTXChars + k /\ txNext' = At(txNext + k, Numbers)
           /\ IsRing(pbtTXQueue', nTXOutIndex', nTXChars', TXQueueSize, 0..(Numbers - 1))
           /\ nTXInIndex' = At(nTXOutIndex' + nTXChars', TXQueueSize)
           /\ txNext' \in 0..(Numbers - 1)
           /\ Len(TxBytes) = nTXChars
<1> DEFINE S == 0..(Numbers - 1)
<1>0. /\ TXQueueSize \in Nat \ {0} /\ nTXOutIndex \in 0..(TXQueueSize - 1)
      /\ nTXChars \in 0..TXQueueSize /\ pbtTXQueue \in [0..(TXQueueSize - 1) -> S]
      /\ txNext \in S /\ nTXInIndex = At(nTXOutIndex + nTXChars, TXQueueSize)
      /\ IsRing(pbtTXQueue, nTXOutIndex, nTXChars, TXQueueSize, S)
  BY DEF TxRing, IsRing
<1>1. /\ pbtTXQueue' = [j \in 0..(TXQueueSize - 1) |->
            IF At(j - nTXInIndex, TXQueueSize) < k
            THEN At(txNext + At(j - nTXInIndex, TXQueueSize), Numbers) ELSE pbtTXQueue[j]]
      /\ nTXInIndex' = At(nTXInIndex + k, TXQueueSize)
      /\ nTXChars' = nTXChars + k /\ txNext' = At(txNext + k, Numbers)
      /\ nTXOutIndex' = nTXOutIndex
  BY DEF Transmit!Store, Transmit!After, At
<1>2. k \in Nat
  BY <1>0
<1>3. /\ Numbered(txNext, k) \in Seq(S) /\ Len(Numbered(txNext, k)) = k
      /\ \A i \in 1..k : Numbered(txNext, k)[i] = At(txNext + (i - 1), Numbers)
      /\ At(txNext + k, Numbers) \in S
  BY <1>0, <1>2, NumberedBytes
<1>4. ASSUME NEW j \in 0..(TXQueueSize - 1)
      PROVE  /\ At(j - nTXInIndex, TXQueueSize) \in Nat
             /\ pbtTXQueue'[j] = IF At(j - nTXInIndex, TXQueueSize) < k
                                 THEN Numbered(txNext, k)[At(j - nTXInIndex, TXQueueSize) + 1]
                                 ELSE pbtTXQueue[j]
             /\ pbtTXQueue'[j] \in S
  <2> DEFINE d == At(j - nTXInIndex, TXQueueSize)
  <2>1. nTXInIndex \in 0..(TXQueueSize - 1)
    <3>1. 0 <= nTXOutIndex + nTXChars /\ nTXOutIndex + nTXChars < 2 * TXQueueSize
      BY <1>0
    <3> QED
      BY <1>0, <3>1, Around
  <2>2. d \in Nat
    <3>1. d = IF j < nTXInIndex THEN j - nTXInIndex + TXQueueSize ELSE j - nTXInIndex
      BY <1>0, <2>1, Apart
    <3>2. /\ j \in Nat /\ nTXInIndex \in Nat /\ nTXInIndex <= TXQueueSize - 1
          /\ TXQueueSize \in Nat
      BY <1>0, <2>1
    <3> HIDE DEF d
    <3> QED
      BY <3>1, <3>2
  <2>3. pbtTXQueue'[j] = IF d < k THEN At(txNext + d, Numbers) ELSE pbtTXQueue[j]
    BY <1>1
  <2> HIDE DEF d
  <2>4. CASE d < k
    <3>1. d + 1 \in 1..k /\ (d + 1) - 1 = d
      BY <1>2, <2>2, <2>4
    <3>2. Numbered(txNext, k)[d + 1] = At(txNext + d, Numbers) /\ Numbered(txNext, k)[d + 1] \in S
      BY <1>3, <3>1, ElementOfSeq
    <3> QED
      BY <2>2, <2>3, <2>4, <3>2 DEF d
  <2>5. CASE ~(d < k)
    BY <1>0, <2>2, <2>3, <2>5 DEF d
  <2> QED
    BY <2>4, <2>5
<1>5. pbtTXQueue' \in [0..(TXQueueSize - 1) -> S]
  BY <1>1, <1>4
<1>6. Places(pbtTXQueue', nTXOutIndex, nTXChars + k, TXQueueSize) = TxBytes \o Numbered(txNext, k)
  <2>1. IsPut(pbtTXQueue', pbtTXQueue, nTXOutIndex, nTXChars, k, TXQueueSize,
               Numbered(txNext, k), S)
    BY <1>0, <1>3, <1>4, <1>5 DEF IsPut
  <2>2. IsRing(pbtTXQueue, nTXOutIndex, nTXChars, TXQueueSize, S)
    BY <1>0
  <2> HIDE DEF S
  <2> QED
    BY <2>1, <2>2, PutAtEnd DEF TxBytes
<1>7. nTXInIndex' = At(nTXOutIndex + (nTXChars + k), TXQueueSize)
  BY <1>0, <1>1, EndMoves
<1>8. IsRing(pbtTXQueue', nTXOutIndex, nTXChars + k, TXQueueSize, S)
  BY <1>0, <1>2, <1>5 DEF IsRing
<1>9. Len(TxBytes) = nTXChars
  <2>1. Holds(TxBytes, pbtTXQueue, nTXOutIndex, nTXChars, TXQueueSize, S)
    BY <1>0, PlacesAreBytes DEF TxBytes
  <2> QED
    BY <2>1 DEF Holds
<1> QED
  BY <1>1, <1>3, <1>6, <1>7, <1>8, <1>9 DEF TxBytes

\* What the ring's variables do is a step of the stream.
TxStep ==
    Transmit!Stream!Next \/ UNCHANGED <<Transmit!Waiting, txNext, txLast>>

\* Storing bytes puts them into the stream.
LEMMA TxPut ==
    ASSUME TxRing, NEW k \in 1..(TXQueueSize - nTXChars), Transmit!Store(k), txLast' = txLast
    PROVE  TxStep
<1>1. k \in 0..(TXQueueSize - nTXChars) /\ k \in 1..TXQueueSize /\ nTXChars + k <= TXQueueSize
  BY TxSizes DEF TxRing, IsRing
<1>2. /\ TxBytes' = TxBytes \o Numbered(txNext, k) /\ txNext' = At(txNext + k, Numbers)
      /\ Len(TxBytes) = nTXChars
  BY <1>1, StoredAtEnd
<1>3. /\ Transmit!Waiting' = Transmit!Waiting \o Numbered(txNext, k)
      /\ Len(Transmit!Waiting) = nTXChars
  BY <1>2, TxBytesAre
<1>4. Numbered(txNext, k) = [i \in 1..k |-> Transmit!Stream!After(txNext, i - 1)]
      /\ txNext' = Transmit!Stream!After(txNext, k)
  BY <1>2 DEF Numbered, At, Transmit!Stream!After
<1>5. Transmit!Stream!Put(k)
  BY <1>1, <1>3, <1>4 DEF Transmit!Stream!Put
<1> QED
  BY <1>1, <1>5 DEF TxStep, Transmit!Stream!Next

\* The byte given to the UART is the stream's oldest.
LEMMA TxTake ==
    ASSUME TxRing, nTXChars > 0, txLast' = pbtTXQueue[nTXOutIndex],
           nTXOutIndex' = At(nTXOutIndex + 1, TXQueueSize), nTXChars' = nTXChars - 1,
           pbtTXQueue' = pbtTXQueue, nTXInIndex' = nTXInIndex, txNext' = txNext
    PROVE  /\ TxStep
           /\ IsRing(pbtTXQueue', nTXOutIndex', nTXChars', TXQueueSize, 0..(Numbers - 1))
           /\ nTXInIndex' = At(nTXOutIndex' + nTXChars', TXQueueSize)
<1> DEFINE S == 0..(Numbers - 1)
<1>0. /\ TXQueueSize \in Nat \ {0} /\ nTXOutIndex \in 0..(TXQueueSize - 1)
      /\ nTXChars \in 1..TXQueueSize /\ 1 \in 0..nTXChars
      /\ pbtTXQueue \in [0..(TXQueueSize - 1) -> S]
      /\ nTXInIndex = At(nTXOutIndex + nTXChars, TXQueueSize)
      /\ IsRing(pbtTXQueue, nTXOutIndex, nTXChars, TXQueueSize, S)
  BY DEF TxRing, IsRing
<1>1. /\ At(At(nTXOutIndex + 1, TXQueueSize) + (nTXChars - 1), TXQueueSize)
           = At(nTXOutIndex + nTXChars, TXQueueSize)
      /\ At(nTXOutIndex + 1, TXQueueSize) \in 0..(TXQueueSize - 1)
  <2>1. /\ TXQueueSize \in Nat \ {0} /\ nTXOutIndex \in 0..(TXQueueSize - 1)
        /\ nTXChars \in 0..TXQueueSize /\ 1 \in 0..nTXChars
    BY <1>0
  <2> QED
    BY <2>1, EndStays
<1>2. IsRing(pbtTXQueue, At(nTXOutIndex + 1, TXQueueSize), nTXChars - 1, TXQueueSize, S)
  BY <1>0, <1>1 DEF IsRing
<1>3. TxBytes' = SubSeq(TxBytes, 1 + 1, nTXChars)
  <2>1. TxBytes' = Places(pbtTXQueue, At(nTXOutIndex + 1, TXQueueSize), nTXChars - 1, TXQueueSize)
    BY Zenon DEF TxBytes
  <2>2. IsRing(pbtTXQueue, nTXOutIndex, nTXChars, TXQueueSize, S)
    BY <1>0
  <2>3. 1 \in 0..nTXChars
    BY <1>0
  <2> HIDE DEF S
  <2> QED
    BY <2>1, <2>2, <2>3, TakenFromFront DEF TxBytes
<1>4. Len(TxBytes) = nTXChars /\ TxBytes[1] = pbtTXQueue[nTXOutIndex]
  <2>1. Holds(TxBytes, pbtTXQueue, nTXOutIndex, nTXChars, TXQueueSize, S)
    BY <1>0, PlacesAreBytes DEF TxBytes
  <2>2. Len(TxBytes) = nTXChars /\ TxBytes[1] = pbtTXQueue[At(nTXOutIndex + 1 - 1, TXQueueSize)]
    BY <1>0, <2>1 DEF Holds
  <2>3. At(nTXOutIndex + 1 - 1, TXQueueSize) = nTXOutIndex
    BY <1>0, Around
  <2> QED
    BY <2>2, <2>3
<1>5. Transmit!Stream!Take(1)
  BY <1>0, <1>3, <1>4, TxBytesAre DEF Transmit!Stream!Take
<1> QED
  BY <1>0, <1>1, <1>2, <1>5 DEF TxStep, Transmit!Stream!Next

\* An empty ring holds nothing.
LEMMA NoPlaces ==
    ASSUME NEW q, NEW o, NEW N
    PROVE  Places(q, o, 0, N) = << >>
BY DEF Places

\* A pass of ODComSendBuffer puts what fits into the stream, if anything does.
LEMMA TxCopies ==
    ASSUME TxRing, Transmit!CopyBuffer
    PROVE  TxRing' /\ TxStep
<1>0. /\ TXQueueSize \in Nat /\ nTXChars \in 0..TXQueueSize /\ left \in Nat
  BY DEF TxRing, IsRing
<1>1. /\ Transmit!Fitting \in 0..(TXQueueSize - nTXChars)
      /\ Transmit!Fitting \in 0..left
  BY <1>0 DEF Transmit!Fitting
<1>2. /\ Transmit!Store(Transmit!Fitting) /\ txLast' = txLast
      /\ left' = left - Transmit!Fitting /\ txDoor' # "room"
  BY DEF Transmit!CopyBuffer
<1> DEFINE k == Transmit!Fitting
<1> HIDE DEF k
<1>3. k \in 0..(TXQueueSize - nTXChars) /\ Transmit!Store(k)
  BY <1>1, <1>2 DEF k
<1>4. TxRing'
  <2>1. left' \in Nat
    BY <1>0, <1>1, <1>2
  <2>2. /\ IsRing(pbtTXQueue', nTXOutIndex', nTXChars', TXQueueSize, 0..(Numbers - 1))
        /\ nTXInIndex' = At(nTXOutIndex' + nTXChars', TXQueueSize)
        /\ txNext' \in 0..(Numbers - 1)
    BY <1>3, StoredAtEnd
  <2> QED
    BY <1>2, <2>1, <2>2 DEF TxRing
<1>5. CASE k = 0
  <2>1. /\ TxBytes' = TxBytes \o Numbered(txNext, 0) /\ txNext' = At(txNext + 0, Numbers)
        /\ Len(TxBytes) = nTXChars
    BY <1>3, <1>5, StoredAtEnd
  <2>2. Numbered(txNext, 0) = << >>
    BY DEF Numbered
  <2>3. TxBytes \in Seq(0..(Numbers - 1))
    <3>1. Holds(TxBytes, pbtTXQueue, nTXOutIndex, nTXChars, TXQueueSize, 0..(Numbers - 1))
      BY PlacesAreBytes DEF TxBytes, TxRing
    <3> QED
      BY <3>1 DEF Holds
  <2>4. TxBytes' = TxBytes
    BY <2>1, <2>2, <2>3, ConcatEmptySeq
  <2>5. txNext' = txNext
    <3>1. txNext \in Nat /\ txNext < Numbers /\ Numbers \in Nat \ {0}
      BY TxSizes DEF TxRing
    <3>2. At(txNext + 0, Numbers) = txNext
      BY <3>1, Around
    <3> QED
      BY <2>1, <3>2
  <2> QED
    BY <1>2, <1>4, <2>4, <2>5, TxBytesAre DEF TxStep
<1>6. CASE k # 0
  <2>1. k \in 1..(TXQueueSize - nTXChars)
    BY <1>0, <1>3, <1>6
  <2> QED
    BY <1>2, <1>3, <1>4, <2>1, TxPut
<1> QED
  BY <1>5, <1>6

\* Each step of the transmitter is a step of its stream or none.
LEMMA TxRingStep ==
    ASSUME TxRing, Transmit!Next
    PROVE  TxRing' /\ TxStep
<1>0. /\ IsRing(pbtTXQueue, nTXOutIndex, nTXChars, TXQueueSize, 0..(Numbers - 1))
      /\ TXQueueSize \in Nat \ {0} /\ nTXChars \in 0..TXQueueSize /\ nTXChars \in Nat
      /\ pbtTXQueue \in [0..(TXQueueSize - 1) -> 0..(Numbers - 1)]
      /\ nTXInIndex = At(nTXOutIndex + nTXChars, TXQueueSize)
      /\ left \in Nat /\ txNext \in 0..(Numbers - 1)
  BY TxSizes DEF TxRing, IsRing
<1>1. ASSUME UNCHANGED <<Transmit!ring, txNext, txLast>>, left' \in Nat,
             txDoor' = "room" => nTXChars < TXQueueSize
      PROVE  TxRing' /\ TxStep
  <2>1. /\ pbtTXQueue' = pbtTXQueue /\ nTXOutIndex' = nTXOutIndex /\ nTXChars' = nTXChars
        /\ nTXInIndex' = nTXInIndex /\ txNext' = txNext /\ txLast' = txLast
    BY <1>1 DEF Transmit!ring
  <2>2. TxRing'
    BY <1>1, <2>1 DEF TxRing
  <2>3. TxBytes' = TxBytes
    BY <2>1 DEF TxBytes
  <2> QED
    BY <2>1, <2>2, <2>3, TxBytesAre DEF TxStep
<1>2. CASE Transmit!StoreByte
  <2>1. nTXChars < TXQueueSize /\ Transmit!Store(1) /\ txLast' = txLast /\ left' = left
        /\ txDoor' # "room"
    BY <1>2 DEF Transmit!StoreByte, TxRing
  <2>2. 1 \in 1..(TXQueueSize - nTXChars) /\ 1 \in 0..(TXQueueSize - nTXChars)
    BY <1>0, <2>1
  <2>3. /\ IsRing(pbtTXQueue', nTXOutIndex', nTXChars', TXQueueSize, 0..(Numbers - 1))
        /\ nTXInIndex' = At(nTXOutIndex' + nTXChars', TXQueueSize)
        /\ txNext' \in 0..(Numbers - 1)
    BY <2>1, <2>2, StoredAtEnd
  <2>4. TxStep
    BY <2>1, <2>2, TxPut
  <2> QED
    BY <1>0, <2>1, <2>3, <2>4 DEF TxRing
<1>3. CASE Transmit!CopyBuffer
  BY <1>3, TxCopies
<1>4. CASE Transmit!ClearOutbound
  <2>1. /\ nTXChars' = 0 /\ nTXInIndex' = 0 /\ nTXOutIndex' = 0 /\ pbtTXQueue' = pbtTXQueue
        /\ txNext' = txNext /\ txLast' = txLast /\ left' = left /\ txDoor' # "room"
    BY <1>4 DEF Transmit!ClearOutbound, Transmit!call
  <2>2. TxBytes' = << >>
    BY <2>1, NoPlaces DEF TxBytes
  <2>3. IsRing(pbtTXQueue', nTXOutIndex', nTXChars', TXQueueSize, 0..(Numbers - 1))
    BY <1>0, <2>1 DEF IsRing
  <2>4. nTXInIndex' = At(nTXOutIndex' + nTXChars', TXQueueSize)
    <3>1. At(0, TXQueueSize) = 0
      BY <1>0, ZeroPlace
    <3> QED
      BY <2>1, <3>1
  <2>5. Transmit!Stream!Clear
    BY <2>1, <2>2, TxBytesAre DEF Transmit!Stream!Clear
  <2> QED
    BY <1>0, <2>1, <2>3, <2>4, <2>5 DEF TxRing, TxStep, Transmit!Stream!Next
<1>5. CASE Transmit!Load
  <2>1. /\ nTXChars > 0 /\ pbtTXQueue' = pbtTXQueue /\ nTXInIndex' = nTXInIndex
        /\ txNext' = txNext /\ left' = left /\ txDoor' = txDoor
    BY <1>5 DEF Transmit!Load, Transmit!call
  <2>2. CASE holding
    <3>1. UNCHANGED <<Transmit!ring, txNext, txLast>>
      BY <1>5, <2>1, <2>2 DEF Transmit!Load, Transmit!ring
    <3> QED
      BY <1>0, <1>1, <2>1, <3>1 DEF TxRing
  <2>3. CASE ~holding
    <3>1. /\ txLast' = pbtTXQueue[nTXOutIndex] /\ nTXChars' = nTXChars - 1
          /\ nTXOutIndex' = At(nTXOutIndex + 1, TXQueueSize)
      BY <1>5, <2>3 DEF Transmit!Load, At
    <3>2. /\ TxStep
          /\ IsRing(pbtTXQueue', nTXOutIndex', nTXChars', TXQueueSize, 0..(Numbers - 1))
          /\ nTXInIndex' = At(nTXOutIndex' + nTXChars', TXQueueSize)
      BY <2>1, <3>1, TxTake
    <3>3. nTXChars' < TXQueueSize
      BY <1>0, <3>1
    <3> QED
      BY <1>0, <2>1, <3>2, <3>3 DEF TxRing
  <2> QED
    BY <2>2, <2>3
<1>6. CASE Transmit!SeeRoom
  BY <1>0, <1>1, <1>6 DEF Transmit!SeeRoom, Transmit!TXReady
<1>7. CASE Transmit!BeginSendBuffer
  <2>1. left' \in 1..BufferMax /\ txDoor' # "room" /\ UNCHANGED <<Transmit!ring, txNext, txLast>>
    BY <1>7 DEF Transmit!BeginSendBuffer
  <2>2. left' \in Nat
    BY <2>1, TxSizes
  <2> QED
    BY <1>1, <2>1, <2>2
<1>8. CASE \/ Transmit!BeginSendByte \/ Transmit!BeginDrain \/ Transmit!SeeRingEmpty
           \/ Transmit!SeeLineStatus \/ Transmit!EndDrain \/ Transmit!DrainTimeout
  <2>1. left' = left /\ txDoor' # "room" /\ UNCHANGED <<Transmit!ring, txNext, txLast>>
    BY <1>8 DEF Transmit!BeginSendByte, Transmit!BeginDrain, Transmit!SeeRingEmpty,
       Transmit!SeeLineStatus, Transmit!EndDrain, Transmit!DrainTimeout
  <2> QED
    BY <1>0, <1>1, <2>1
<1>9. CASE Transmit!TurnOff \/ Transmit!ModemStatus \/ Transmit!Hardware
  <2>1. UNCHANGED <<Transmit!ring, Transmit!call, txLast>>
    BY <1>9 DEF Transmit!TurnOff, Transmit!ModemStatus, Transmit!Hardware, Transmit!Shift,
       Transmit!SignalEarly, Transmit!ShiftOut, Transmit!ChangeCTS
  <2>2. left' = left /\ txDoor' = txDoor /\ UNCHANGED <<Transmit!ring, txNext, txLast>>
    BY <2>1 DEF Transmit!call
  <2> QED
    BY <1>0, <1>1, <2>2 DEF TxRing
<1> QED
  BY <1>2, <1>3, <1>4, <1>5, <1>6, <1>7, <1>8, <1>9 DEF Transmit!Next, Transmit!Interrupt,
     Transmit!Door

\* The ring the interrupt routine fills: the door that has seen a byte finds one,
\* since only the door takes bytes.
RxRing ==
    /\ IsRing(pbtRXQueue, nRXOutIndex, nRXChars, RXQueueSize, 0..(Numbers - 1))
    /\ nRXInIndex = At(nRXOutIndex + nRXChars, RXQueueSize)
    /\ rxDoor = "take" => nRXChars > 0
    /\ rxNext \in 0..(Numbers - 1)

\* What it holds.
RxBytes == Places(pbtRXQueue, nRXOutIndex, nRXChars, RXQueueSize)

\* The refinement mapping, seen as places of the ring.
LEMMA RxBytesAre == Receive!Waiting = RxBytes /\ Receive!Waiting' = RxBytes'
BY DEF Receive!Waiting, RxBytes, Places, At

\* What its variables do is a step of the stream.
RxStep ==
    Receive!Stream!Next \/ UNCHANGED <<Receive!Waiting, rxNext, rxLast, lost>>

\* As many bytes as the count says.
LEMMA RxLength ==
    ASSUME RxRing
    PROVE  Len(RxBytes) = nRXChars
<1>1. Holds(RxBytes, pbtRXQueue, nRXOutIndex, nRXChars, RXQueueSize, 0..(Numbers - 1))
  BY PlacesAreBytes DEF RxBytes, RxRing
<1> QED
  BY <1>1 DEF Holds

\* The byte the interrupt routine stores goes into the stream.
LEMMA RxStored ==
    ASSUME RxRing, Receive!ReceiveData, nRXChars < RXQueueSize
    PROVE  RxRing' /\ RxStep
<1> DEFINE S == 0..(Numbers - 1)
<1>0. /\ RXQueueSize \in Nat \ {0} /\ nRXOutIndex \in 0..(RXQueueSize - 1)
      /\ nRXChars \in 0..RXQueueSize /\ pbtRXQueue \in [0..(RXQueueSize - 1) -> S]
      /\ rxNext \in S /\ nRXInIndex = At(nRXOutIndex + nRXChars, RXQueueSize)
      /\ IsRing(pbtRXQueue, nRXOutIndex, nRXChars, RXQueueSize, S)
  BY DEF RxRing, IsRing
<1>1. /\ pbtRXQueue' = [pbtRXQueue EXCEPT ![nRXInIndex] = rxNext]
      /\ nRXInIndex' = At(nRXInIndex + 1, RXQueueSize) /\ nRXChars' = nRXChars + 1
      /\ rxNext' = At(rxNext + 1, Numbers) /\ nRXOutIndex' = nRXOutIndex
      /\ rxDoor' = rxDoor /\ rxLast' = rxLast /\ lost' = lost
  BY DEF Receive!ReceiveData, At
<1>2. /\ Numbered(rxNext, 1) \in Seq(S) /\ Len(Numbered(rxNext, 1)) = 1
      /\ Numbered(rxNext, 1)[1] = At(rxNext + (1 - 1), Numbers)
      /\ At(rxNext + 1, Numbers) \in S
  <2>1. rxNext \in 0..(Numbers - 1) /\ 1 \in Nat /\ 1 \in 1..1
    BY <1>0
  <2> QED
    BY <2>1, NumberedBytes
<1>3. Numbered(rxNext, 1)[1] = rxNext
  <2>1. rxNext \in Nat /\ rxNext < Numbers /\ Numbers \in Nat \ {0}
    BY <1>0, TxSizes
  <2>2. At(rxNext + (1 - 1), Numbers) = rxNext
    BY <2>1, Around
  <2> QED
    BY <1>2, <2>2
<1>4. nRXInIndex \in 0..(RXQueueSize - 1)
  <2>1. 0 <= nRXOutIndex + nRXChars /\ nRXOutIndex + nRXChars < 2 * RXQueueSize
    BY <1>0
  <2> QED
    BY <1>0, <2>1, Around
<1>5. ASSUME NEW j \in 0..(RXQueueSize - 1)
      PROVE  pbtRXQueue'[j] = IF At(j - nRXInIndex, RXQueueSize) < 1
                              THEN Numbered(rxNext, 1)[At(j - nRXInIndex, RXQueueSize) + 1]
                              ELSE pbtRXQueue[j]
  <2>1. At(j - nRXInIndex, RXQueueSize)
          = IF j < nRXInIndex THEN j - nRXInIndex + RXQueueSize ELSE j - nRXInIndex
    BY <1>0, <1>4, Apart
  <2>2. CASE j = nRXInIndex
    <3>1. At(j - nRXInIndex, RXQueueSize) = 0 /\ pbtRXQueue'[j] = rxNext
      BY <1>0, <1>1, <1>4, <2>1, <2>2
    <3> QED
      BY <1>3, <3>1
  <2>3. CASE j # nRXInIndex
    <3>1. ~(At(j - nRXInIndex, RXQueueSize) < 1)
      <4>1. /\ j \in Int /\ nRXInIndex \in Int /\ nRXInIndex <= RXQueueSize - 1
            /\ RXQueueSize \in Int /\ 0 <= j
        BY <1>0, <1>4
      <4> QED
        BY <2>1, <2>3, <4>1
    <3>2. pbtRXQueue'[j] = pbtRXQueue[j]
      BY <1>0, <1>1, <2>3
    <3> QED
      BY <3>1, <3>2
  <2> QED
    BY <2>2, <2>3
<1>6. pbtRXQueue' \in [0..(RXQueueSize - 1) -> S]
  BY <1>0, <1>1, <1>4
<1>7. 1 \in 0..(RXQueueSize - nRXChars)
  BY <1>0
<1>8. RxBytes' = RxBytes \o Numbered(rxNext, 1)
  <2>1. IsPut(pbtRXQueue', pbtRXQueue, nRXOutIndex, nRXChars, 1, RXQueueSize,
              Numbered(rxNext, 1), S)
    BY <1>0, <1>2, <1>5, <1>6, <1>7 DEF IsPut
  <2>2. RxBytes' = Places(pbtRXQueue', nRXOutIndex, nRXChars + 1, RXQueueSize)
    BY <1>1 DEF RxBytes
  <2>3. IsRing(pbtRXQueue, nRXOutIndex, nRXChars, RXQueueSize, S)
    BY <1>0
  <2> HIDE DEF S
  <2> QED
    BY <2>1, <2>2, <2>3, PutAtEnd DEF RxBytes
<1>9. RxRing'
  <2>1. nRXInIndex' = At(nRXOutIndex + (nRXChars + 1), RXQueueSize)
    BY <1>0, <1>1, <1>7, EndMoves
  <2>2. IsRing(pbtRXQueue', nRXOutIndex, nRXChars + 1, RXQueueSize, S)
    BY <1>0, <1>6, <1>7 DEF IsRing
  <2>3. nRXChars + 1 > 0
    BY <1>0
  <2> QED
    BY <1>1, <1>2, <2>1, <2>2, <2>3 DEF RxRing
<1>10. Receive!Stream!Put(1)
  <2>1. Numbered(rxNext, 1) = [i \in 1..1 |-> Receive!Stream!After(rxNext, i - 1)]
        /\ rxNext' = Receive!Stream!After(rxNext, 1)
    BY <1>1 DEF Numbered, At, Receive!Stream!After
  <2>2. Len(RxBytes) + 1 <= RXQueueSize
    BY <1>0, RxLength
  <2> QED
    BY <1>1, <1>8, <2>1, <2>2, RxBytesAre DEF Receive!Stream!Put
<1> QED
  BY <1>0, <1>9, <1>10 DEF RxStep, Receive!Stream!Next

\* The bytes the door removes are the stream's oldest.
LEMMA RxRemoved ==
    ASSUME RxRing, NEW k \in 1..nRXChars, Receive!Remove(k), rxNext' = rxNext, lost' = lost,
           rxDoor' # "take"
    PROVE  RxRing' /\ RxStep
<1> DEFINE S == 0..(Numbers - 1)
<1>0. /\ RXQueueSize \in Nat \ {0} /\ nRXOutIndex \in 0..(RXQueueSize - 1)
      /\ nRXChars \in 0..RXQueueSize /\ k \in 0..nRXChars /\ k \in 1..RXQueueSize
      /\ pbtRXQueue \in [0..(RXQueueSize - 1) -> S]
      /\ nRXInIndex = At(nRXOutIndex + nRXChars, RXQueueSize)
      /\ IsRing(pbtRXQueue, nRXOutIndex, nRXChars, RXQueueSize, S)
  BY DEF RxRing, IsRing
<1>1. /\ nRXOutIndex' = At(nRXOutIndex + k, RXQueueSize) /\ nRXChars' = nRXChars - k
      /\ rxLast' = pbtRXQueue[At(nRXOutIndex + k - 1, RXQueueSize)]
      /\ pbtRXQueue' = pbtRXQueue /\ nRXInIndex' = nRXInIndex
  BY <1>0 DEF Receive!Remove, At
<1>2. /\ At(At(nRXOutIndex + k, RXQueueSize) + (nRXChars - k), RXQueueSize)
           = At(nRXOutIndex + nRXChars, RXQueueSize)
      /\ At(nRXOutIndex + k, RXQueueSize) \in 0..(RXQueueSize - 1)
  <2>1. /\ RXQueueSize \in Nat \ {0} /\ nRXOutIndex \in 0..(RXQueueSize - 1)
        /\ nRXChars \in 0..RXQueueSize /\ k \in 0..nRXChars
    BY <1>0
  <2> QED
    BY <2>1, EndStays
<1>3. IsRing(pbtRXQueue, At(nRXOutIndex + k, RXQueueSize), nRXChars - k, RXQueueSize, S)
  BY <1>0, <1>2 DEF IsRing
<1>4. RxBytes' = SubSeq(RxBytes, k + 1, nRXChars)
  <2>1. RxBytes' = Places(pbtRXQueue, At(nRXOutIndex + k, RXQueueSize), nRXChars - k, RXQueueSize)
    BY <1>1 DEF RxBytes
  <2>2. IsRing(pbtRXQueue, nRXOutIndex, nRXChars, RXQueueSize, S)
    BY <1>0
  <2>3. k \in 0..nRXChars
    BY <1>0
  <2> HIDE DEF S
  <2> QED
    BY <2>1, <2>2, <2>3, TakenFromFront DEF RxBytes
<1>5. RxBytes[k] = pbtRXQueue[At(nRXOutIndex + k - 1, RXQueueSize)]
  <2>1. Holds(RxBytes, pbtRXQueue, nRXOutIndex, nRXChars, RXQueueSize, S)
    BY <1>0, PlacesAreBytes DEF RxBytes
  <2> QED
    BY <1>0, <2>1 DEF Holds
<1>6. Receive!Stream!Take(k)
  <2>1. k <= nRXChars /\ Len(RxBytes) = nRXChars
    BY <1>0, RxLength
  <2>2. rxLast' = RxBytes[k]
    BY <1>1, <1>5
  <2> QED
    BY <1>4, <2>1, <2>2, RxBytesAre DEF Receive!Stream!Take
<1>7. RxRing'
  BY <1>1, <1>2, <1>3 DEF RxRing
<1> QED
  BY <1>0, <1>6, <1>7 DEF RxStep, Receive!Stream!Next

\* Each step of the receiver is a step of its stream or none.
LEMMA RxRingStep ==
    ASSUME RxRing, Receive!Next
    PROVE  RxRing' /\ RxStep
<1>0. /\ IsRing(pbtRXQueue, nRXOutIndex, nRXChars, RXQueueSize, 0..(Numbers - 1))
      /\ RXQueueSize \in Nat \ {0} /\ nRXChars \in 0..RXQueueSize /\ nRXChars \in Nat
      /\ pbtRXQueue \in [0..(RXQueueSize - 1) -> 0..(Numbers - 1)]
      /\ nRXInIndex = At(nRXOutIndex + nRXChars, RXQueueSize)
      /\ rxNext \in 0..(Numbers - 1)
  BY DEF RxRing, IsRing
<1>1. ASSUME UNCHANGED <<Receive!ring, rxNext, rxLast, lost>>,
             rxDoor' = "take" => nRXChars > 0
      PROVE  RxRing' /\ RxStep
  <2>1. /\ pbtRXQueue' = pbtRXQueue /\ nRXOutIndex' = nRXOutIndex /\ nRXChars' = nRXChars
        /\ nRXInIndex' = nRXInIndex /\ rxNext' = rxNext /\ rxLast' = rxLast /\ lost' = lost
    BY <1>1 DEF Receive!ring
  <2>2. RxRing'
    BY <1>1, <2>1 DEF RxRing
  <2>3. RxBytes' = RxBytes
    BY <2>1 DEF RxBytes
  <2> QED
    BY <2>1, <2>2, <2>3, RxBytesAre DEF RxStep
<1>2. CASE Receive!ReceiveData
  <2>1. CASE nRXChars < RXQueueSize
    BY <1>2, <2>1, RxStored
  <2>2. CASE ~(nRXChars < RXQueueSize)
    <3>1. /\ lost' = TRUE /\ pbtRXQueue' = pbtRXQueue /\ nRXOutIndex' = nRXOutIndex
          /\ nRXChars' = nRXChars /\ nRXInIndex' = nRXInIndex /\ rxNext' = rxNext
          /\ rxLast' = rxLast /\ rxDoor' = rxDoor
      BY <1>2, <2>2 DEF Receive!ReceiveData
    <3>2. RxBytes' = RxBytes /\ nRXChars = RXQueueSize
      BY <1>0, <2>2, <3>1 DEF RxBytes
    <3>3. Receive!Stream!Lose
      BY <3>1, <3>2, RxLength, RxBytesAre DEF Receive!Stream!Lose
    <3>4. RxRing'
      BY <3>1 DEF RxRing
    <3> QED
      BY <3>3, <3>4 DEF RxStep, Receive!Stream!Next
  <2> QED
    BY <2>1, <2>2
<1>3. CASE Receive!TakeByte
  <2>1. /\ Receive!Remove(1) /\ rxNext' = rxNext /\ lost' = lost /\ rxDoor' # "take"
        /\ nRXChars > 0
    BY <1>3 DEF Receive!TakeByte, RxRing
  <2>2. 1 \in 1..nRXChars
    BY <1>0, <2>1
  <2> QED
    BY <2>1, <2>2, RxRemoved
<1>4. ASSUME NEW size \in 1..ReadMax, Receive!GetBuffer(size)
      PROVE  RxRing' /\ RxStep
  <2> DEFINE k == IF nRXChars < size THEN nRXChars ELSE size
  <2>1. Receive!Remove(k) /\ rxNext' = rxNext /\ lost' = lost /\ rxDoor' = "idle"
    BY <1>4 DEF Receive!GetBuffer
  <2>2. k \in 0..nRXChars
    BY <1>0, LineAssumption DEF Receive!ReceiveAssumption
  <2> HIDE DEF k
  <2>3. CASE k = 0
    <3>1. At(nRXOutIndex + 0, RXQueueSize) = nRXOutIndex
      BY <1>0, Around DEF IsRing
    <3>2. UNCHANGED <<Receive!ring, rxLast>>
      BY <1>0, <2>1, <2>3, <3>1 DEF Receive!Remove, Receive!ring, At
    <3> QED
      BY <1>1, <2>1, <3>2
  <2>4. CASE k # 0
    <3>1. k \in 1..nRXChars
      BY <1>0, <2>2, <2>4
    <3>2. rxDoor' # "take"
      BY <2>1
    <3> QED
      BY <2>1, <3>1, <3>2, RxRemoved
  <2> QED
    BY <2>3, <2>4
<1>5. CASE Receive!ClearInbound
  <2>1. /\ nRXChars' = 0 /\ nRXInIndex' = 0 /\ nRXOutIndex' = 0 /\ pbtRXQueue' = pbtRXQueue
        /\ rxNext' = rxNext /\ rxLast' = rxLast /\ lost' = lost /\ rxDoor' # "take"
    BY <1>5 DEF Receive!ClearInbound
  <2>2. RxBytes' = << >>
    BY <2>1, NoPlaces DEF RxBytes
  <2>3. IsRing(pbtRXQueue', nRXOutIndex', nRXChars', RXQueueSize, 0..(Numbers - 1))
    BY <1>0, <2>1 DEF IsRing
  <2>4. nRXInIndex' = At(nRXOutIndex' + nRXChars', RXQueueSize)
    <3>1. At(0, RXQueueSize) = 0
      BY <1>0, ZeroPlace
    <3> QED
      BY <2>1, <3>1
  <2>5. Receive!Stream!Clear
    BY <2>1, <2>2, RxBytesAre DEF Receive!Stream!Clear
  <2> QED
    BY <1>0, <2>1, <2>3, <2>4, <2>5 DEF RxRing, RxStep, Receive!Stream!Next
<1>6. CASE Receive!BeginGetByte \/ Receive!SeeByte
  BY <1>1, <1>6 DEF Receive!BeginGetByte, Receive!SeeByte
<1>7. CASE Receive!SeeLow \/ Receive!RaiseRTS
  BY <1>1, <1>7 DEF Receive!SeeLow, Receive!RaiseRTS
<1>8. CASE Receive!CallIdle \/ Receive!Arrive
  <2>1. rxDoor' = rxDoor /\ UNCHANGED <<Receive!ring, rxNext, rxLast, lost>>
    BY <1>8 DEF Receive!CallIdle, Receive!Arrive, Receive!vars
  <2> QED
    BY <1>1, <2>1 DEF RxRing
<1> QED
  BY <1>2, <1>3, <1>4, <1>5, <1>6, <1>7, <1>8 DEF Receive!Next, Receive!Door

\* Both rings and both streams are empty at first.
LEMMA RingsStart ==
    ASSUME LineInit
    PROVE  TxRing /\ RxRing /\ Transmit!Stream!Init /\ Receive!Stream!Init
<1>0. /\ RXQueueSize \in Nat \ {0} /\ TXQueueSize \in Nat \ {0} /\ Numbers \in Nat
      /\ 0 \in 0..(Numbers - 1)
  BY LineAssumption, TxSizes DEF Receive!ReceiveAssumption
<1>1. At(0 + 0, TXQueueSize) = 0 /\ At(0 + 0, RXQueueSize) = 0
  BY <1>0, ZeroPlace
<1>2. /\ pbtTXQueue = [i \in 0..(TXQueueSize - 1) |-> 0] /\ nTXInIndex = 0
      /\ nTXOutIndex = 0 /\ nTXChars = 0 /\ txDoor = "idle" /\ left = 0
      /\ txNext = 0 /\ txLast = Numbers - 1
  BY DEF LineInit, Transmit!Init
<1>3. /\ pbtRXQueue = [i \in 0..(RXQueueSize - 1) |-> 0] /\ nRXInIndex = 0
      /\ nRXOutIndex = 0 /\ nRXChars = 0 /\ rxDoor = "idle" /\ lost = FALSE
      /\ rxNext = 0 /\ rxLast = Numbers - 1
  BY DEF LineInit, Receive!Init
<1>4. TxRing
  BY <1>0, <1>1, <1>2 DEF TxRing, IsRing
<1>5. RxRing
  BY <1>0, <1>1, <1>3 DEF RxRing, IsRing
<1>6. Transmit!Stream!Init
  BY <1>2, NoPlaces, TxBytesAre DEF Transmit!Stream!Init, TxBytes
<1>7. Receive!Stream!Init
  BY <1>3, NoPlaces, RxBytesAre DEF Receive!Stream!Init, RxBytes
<1> QED
  BY <1>4, <1>5, <1>6, <1>7

\* RingsKeepOrder: the rings of the serial port implement byte streams, for rings
\* of every size (ODCom.c:605-676, 2866-2894, 3357-3379, 3620-3676, 3978-4048).
\* The interrupt routine may come between any two steps of the door: it only takes
\* from the ring the door fills and only fills the ring the door takes from.
THEOREM KeepsOrder == LineSpec => RingsKeepOrder
<1>1. LineInit => TxRing /\ RxRing /\ Transmit!Stream!Init /\ Receive!Stream!Init
  BY RingsStart
<1>2. ASSUME TxRing, [LineNext]_lineVars
      PROVE  TxRing' /\ [Transmit!Stream!Next]_<<Transmit!Waiting, txNext, txLast, FALSE>>
  <2>1. CASE Transmit!Next
    BY <1>2, <2>1, TxRingStep DEF TxStep
  <2>2. CASE UNCHANGED transmitVars
    BY <1>2, <2>2 DEF transmitVars, TxRing, Transmit!Waiting
  <2> QED
    BY <1>2, <2>1, <2>2, TransmitMoves
<1>3. ASSUME RxRing, [LineNext]_lineVars
      PROVE  RxRing' /\ [Receive!Stream!Next]_<<Receive!Waiting, rxNext, rxLast, lost>>
  <2>1. CASE Receive!Next
    BY <1>3, <2>1, RxRingStep DEF RxStep
  <2>2. CASE UNCHANGED receiveVars
    BY <1>3, <2>2 DEF receiveVars, RxRing, Receive!Waiting
  <2> QED
    BY <1>3, <2>1, <2>2, ReceiveMoves
<1> QED
  BY <1>1, <1>2, <1>3, PTL DEF LineSpec, RingsKeepOrder, Transmit!TransmitsInOrder,
     Transmit!Stream!Spec, Receive!ReceivesInOrder, Receive!Stream!Spec

---------------------------------------------------------------------------
(* What a Telnet caller's bytes stand for.                                 *)

LEMMA TelnetInMoves ==
    ASSUME [LineNext]_lineVars
    PROVE  TelnetIn!Next \/ UNCHANGED telnetInVars
BY DEF LineNext, ReceiveStep, Transmits, TransmitStep, TelnetInStep, TelnetOutStep, QueueStep,
   KeysStep, PortStep, lineVars, telnetInVars

\* The port's state and the keys returned, and what a byte makes of them: the
\* rules of ODComGetByte, where a byte that is put back is read at once.
Keyed == Seq(TelnetIn!Bytes)
ReaderStates == [at : TelnetIn!States, keys : Keyed]
To(state, keys) == [at |-> state, keys |-> keys]

DataReads(keys, b) ==
    IF b = "IAC" THEN To("IAC", keys)
    ELSE IF b = "CR" THEN To("CR", keys)
    ELSE To("Data", Append(keys, b))

Reads(v, b) ==
    CASE v.at = "Data" -> DataReads(v.keys, b)
      [] v.at = "IAC" ->
            IF b = "IAC" THEN To("Data", Append(v.keys, b))
            ELSE IF b = "WILL" THEN To("Negotiation", v.keys)
            ELSE IF b = "SB" THEN To("Subnegotiation", v.keys)
            ELSE To("Data", v.keys)
      [] v.at = "Negotiation" -> To("Data", v.keys)
      [] v.at = "Subnegotiation" ->
            To(IF b = "IAC" THEN "SubnegotiationIAC" ELSE "Subnegotiation", v.keys)
      [] v.at = "SubnegotiationIAC" ->
            To(IF b = "SE" THEN "Data" ELSE "Subnegotiation", v.keys)
      [] v.at = "CR" ->
            IF b \in {"LF", "NUL"} THEN To("Data", Append(v.keys, "CR"))
            ELSE DataReads(Append(v.keys, "CR"), b)

reader == [v \in ReaderStates |-> [b \in TelnetIn!Bytes |-> Reads(v, b)]]

\* The bytes take the reader from s to e.
Tells(bytes, s, e) == Run(ReaderStates, reader, bytes, s, e)

\* What has been read, with the byte that was put back.
Now ==
    IF replay = TelnetIn!None THEN To(TelnetInputState, read)
    ELSE Reads(To(TelnetInputState, read), replay)

\* The bytes on the way tell the keys that were pressed and not read, but for a
\* carriage return by itself that the end of the connection takes away.
Foretold ==
    \/ \E k \in Keyed :
          /\ typed = IF bare THEN Append(k, "CR") ELSE k
          /\ Tells(socket, Now, To(IF bare THEN "CR" ELSE "Data", k))
    \/ /\ closed /\ socket = << >> /\ replay = TelnetIn!None
       /\ TelnetInputState = "Data" /\ typed = Append(read, "CR")

ReaderInv ==
    /\ TelnetIn!TypeOK
    /\ replay # TelnetIn!None => TelnetInputState = "Data"
    /\ ~callFailed => Foretold

LEMMA ToAState ==
    ASSUME NEW at \in TelnetIn!States, NEW keys \in Keyed
    PROVE  To(at, keys) \in ReaderStates /\ To(at, keys).at = at /\ To(at, keys).keys = keys
BY DEF To, ReaderStates

LEMMA ReadsType ==
    ASSUME NEW v \in ReaderStates, NEW b \in TelnetIn!Bytes
    PROVE  Reads(v, b) \in ReaderStates
<1>1. v.at \in TelnetIn!States /\ v.keys \in Keyed
  BY DEF ReaderStates
<1>2. "CR" \in TelnetIn!Bytes
  BY DEF TelnetIn!Bytes
<1>3. Append(v.keys, b) \in Keyed /\ Append(v.keys, "CR") \in Keyed
  BY <1>1, <1>2, AppendProperties DEF Keyed
<1>4. Append(Append(v.keys, "CR"), b) \in Keyed
  BY <1>3, AppendProperties DEF Keyed
<1>5. ASSUME NEW keys \in Keyed, Append(keys, b) \in Keyed
      PROVE  DataReads(keys, b) \in ReaderStates
  BY <1>5, ToAState DEF DataReads, TelnetIn!States
<1> QED
  BY <1>1, <1>3, <1>4, <1>5, ToAState DEF Reads, TelnetIn!States

LEMMA ReaderType ==
    /\ reader \in [ReaderStates -> [TelnetIn!Bytes -> ReaderStates]]
    /\ \A v \in ReaderStates, b \in TelnetIn!Bytes : reader[v][b] = Reads(v, b)
BY ReadsType DEF reader

LEMMA NowType ==
    ASSUME TelnetIn!TypeOK
    PROVE  Now \in ReaderStates
<1>1. read \in Keyed /\ TelnetInputState \in TelnetIn!States
      /\ (replay # TelnetIn!None => replay \in TelnetIn!Bytes)
  BY DEF TelnetIn!TypeOK, Keyed
<1> QED
  BY <1>1, ToAState, ReadsType DEF Now

---------------------------------------------------------------------------
(* The forms.                                                              *)

\* What a form tells, from keys on.
LEMMA FormTells ==
    ASSUME NEW p \in Keyed, NEW form \in TelnetIn!Forms
    PROVE  /\ form.bytes \in Keyed /\ form.bytes # << >> /\ Head(form.bytes) = form.bytes[1]
           /\ form.bytes[1] \in TelnetIn!Bytes \ {"NUL"} /\ form.keys \in Keyed
           /\ \E k \in Keyed :
                 /\ p \o form.keys = IF form.bytes = <<"CR">> THEN Append(k, "CR") ELSE k
                 /\ Tells(form.bytes, To("Data", p),
                          To(IF form.bytes = <<"CR">> THEN "CR" ELSE "Data", k))
<1> USE DEF TelnetIn!Key, TelnetIn!Command
<1> DEFINE B == TelnetIn!Bytes
           Good(bytes, keys) ==
             /\ bytes \in Keyed /\ bytes # << >> /\ Head(bytes) = bytes[1]
             /\ bytes[1] \in B \ {"NUL"} /\ keys \in Keyed
             /\ \E k \in Keyed :
                   /\ p \o keys = IF bytes = <<"CR">> THEN Append(k, "CR") ELSE k
                   /\ Tells(bytes, To("Data", p), To(IF bytes = <<"CR">> THEN "CR" ELSE "Data", k))
<1> HIDE DEF Good
<1>0. /\ "a" \in B /\ "LF" \in B /\ "SE" \in B /\ "IAC" \in B /\ "CR" \in B /\ "NUL" \in B
      /\ "NOP" \in B /\ "WILL" \in B /\ "SB" \in B
  BY DEF TelnetIn!Bytes, TelnetIn!Verbs
<1> HIDE DEF B
<1>1. /\ p \in Keyed /\ p \o << >> = p /\ << >> \in Keyed
      /\ \A b \in B : Append(p, b) \in Keyed /\ p \o <<b>> = Append(p, b) /\ <<b>> \in Keyed
  BY ConcatEmptySeq, EmptySeq, AppendProperties, AppendIsConcat DEF Keyed, B
<1>2. \A at \in TelnetIn!States : To(at, p) \in ReaderStates
  BY ToAState
<1>3. \A b \in B : To("Data", Append(p, b)) \in ReaderStates
  BY <1>1, ToAState DEF TelnetIn!States
<1>4. \A v \in ReaderStates, b \in B : reader[v][b] = Reads(v, b) /\ Reads(v, b) \in ReaderStates
  BY ReaderType, ReadsType DEF B
<1> DEFINE D(k) == To("Data", k)
<1>5. ASSUME NEW bytes \in Keyed, bytes # << >>, bytes # <<"CR">>, bytes[1] \in B, bytes[1] # "NUL",
             NEW keys \in Keyed, p \o keys \in Keyed, Tells(bytes, D(p), D(p \o keys))
      PROVE  Good(bytes, keys)
  <2>1. Head(bytes) = bytes[1]
    BY <1>5 DEF Keyed
  <2> QED
    BY <1>5, <2>1 DEF Good
<1>6. ASSUME NEW bytes \in Keyed, bytes # << >>, bytes # <<"CR">>, bytes[1] \in B, bytes[1] # "NUL",
             Tells(bytes, D(p), D(p))
      PROVE  Good(bytes, << >>)
  BY <1>1, <1>5, <1>6
<1>7. ASSUME NEW bytes \in Keyed, bytes # << >>, bytes # <<"CR">>, bytes[1] \in B, bytes[1] # "NUL",
             NEW b \in B, Tells(bytes, D(p), D(Append(p, b)))
      PROVE  Good(bytes, <<b>>)
  BY <1>1, <1>5, <1>7
<1>8. \A v \in ReaderStates, a \in B : Tells(<<a>>, v, reader[v][a])
  BY ReaderType, RunOne DEF Tells, B
<1>9. \A v \in ReaderStates, a \in B, b \in B : Tells(<<a, b>>, v, reader[reader[v][a]][b])
  BY ReaderType, RunTwo DEF Tells, B
<1>10. \A v \in ReaderStates, a \in B, b \in B, c \in B :
          Tells(<<a, b, c>>, v, reader[reader[reader[v][a]][b]][c])
  BY ReaderType, RunThree DEF Tells, B
<1>11. ASSUME NEW q \in Keyed, NEW r \in Keyed, NEW s, NEW m, NEW e, Tells(q, s, m), Tells(r, m, e)
       PROVE  Tells(q \o r, s, e)
  BY <1>11, RunOn DEF Tells, Keyed
<1>12. \A a \in B : <<a>> \in Keyed /\ <<a>>[1] = a /\ <<a>> # << >> /\ (a # "CR" => <<a>> # <<"CR">>)
  BY DEF Keyed, B
<1>13. ASSUME NEW a \in B, NEW b \in B
       PROVE  <<a, b>> \in Keyed /\ <<a, b>>[1] = a /\ <<a, b>> # << >> /\ <<a, b>> # <<"CR">>
  <2> DEFINE q == <<a, b>>
  <2>1. q \in Keyed /\ Len(q) = 2 /\ q[1] = a
    BY DEF Keyed, B
  <2> HIDE DEF q
  <2>2. q # << >> /\ q # <<"CR">>
    <3>1. Len(<< >>) = 0 /\ Len(<<"CR">>) = 1 /\ 2 # 0 /\ 2 # 1
      OBVIOUS
    <3> QED
      BY Zenon, <2>1, <3>1
  <2> QED
    BY <2>1, <2>2 DEF q
<1>14. ASSUME NEW a \in B, NEW b \in B, NEW c \in B
       PROVE  <<a, b, c>> \in Keyed /\ <<a, b, c>>[1] = a /\ <<a, b, c>> # << >> /\ <<a, b, c>> # <<"CR">>
  <2> DEFINE q == <<a, b, c>>
  <2>1. q \in Keyed /\ Len(q) = 3 /\ q[1] = a
    BY DEF Keyed, B
  <2> HIDE DEF q
  <2>2. q # << >> /\ q # <<"CR">>
    <3>1. Len(<< >>) = 0 /\ Len(<<"CR">>) = 1 /\ 3 # 0 /\ 3 # 1
      OBVIOUS
    <3> QED
      BY Zenon, <2>1, <3>1
  <2> QED
    BY <2>1, <2>2 DEF q
<1>15. ASSUME NEW b \in B, b # "IAC", b # "CR"
       PROVE  reader[D(p)][b] = D(Append(p, b))
  BY <1>2, <1>4, <1>15, ToAState DEF Reads, DataReads, TelnetIn!States
<1>16. reader[D(p)]["IAC"] = To("IAC", p) /\ reader[D(p)]["CR"] = To("CR", p)
  BY <1>0, <1>2, <1>4, ToAState DEF Reads, DataReads, TelnetIn!States
<1>17. /\ reader[To("CR", p)]["LF"] = D(Append(p, "CR"))
       /\ reader[To("CR", p)]["NUL"] = D(Append(p, "CR"))
  BY <1>0, <1>2, <1>4, ToAState DEF Reads, DataReads, TelnetIn!States
<1>18. /\ reader[To("IAC", p)]["IAC"] = D(Append(p, "IAC"))
       /\ reader[To("IAC", p)]["NOP"] = D(p)
       /\ reader[To("IAC", p)]["WILL"] = To("Negotiation", p)
       /\ reader[To("IAC", p)]["SB"] = To("Subnegotiation", p)
  BY <1>0, <1>2, <1>4, ToAState DEF Reads, TelnetIn!States
<1>19. \A b \in B : reader[To("Negotiation", p)][b] = D(p)
  BY <1>2, <1>4, ToAState DEF Reads, TelnetIn!States
<1>20. /\ reader[To("Subnegotiation", p)]["IAC"] = To("SubnegotiationIAC", p)
       /\ \A b \in B : b # "IAC" => reader[To("Subnegotiation", p)][b] = To("Subnegotiation", p)
       /\ reader[To("SubnegotiationIAC", p)]["SE"] = D(p)
       /\ reader[To("SubnegotiationIAC", p)]["IAC"] = To("Subnegotiation", p)
  BY <1>0, <1>2, <1>4, ToAState DEF Reads, TelnetIn!States
<1>21. D(p) \in ReaderStates /\ \A at \in {"IAC", "CR", "Negotiation", "Subnegotiation",
          "SubnegotiationIAC"} : To(at, p) \in ReaderStates
  BY <1>2 DEF TelnetIn!States
<1> HIDE DEF D
<1>22. ASSUME NEW b \in {"a", "LF", "SE"} PROVE Good(<<b>>, <<b>>)
  <2>1. b \in B /\ b # "IAC" /\ b # "CR" /\ b # "NUL"
    BY <1>0
  <2>2. Tells(<<b>>, D(p), D(Append(p, b)))
    BY <1>8, <1>15, <1>21, <2>1
  <2>3. <<b>> \in Keyed /\ <<b>> # << >> /\ <<b>> # <<"CR">> /\ <<b>>[1] = b
    BY <1>12, <2>1
  <2> QED
    BY <1>7, <2>1, <2>2, <2>3
<1>23. Good(<<"IAC", "IAC">>, <<"IAC">>)
  BY <1>0, <1>7, <1>9, <1>13, <1>16, <1>18, <1>21
<1>24. Good(<<"CR", "LF">>, <<"CR">>) /\ Good(<<"CR", "NUL">>, <<"CR">>)
  BY <1>0, <1>7, <1>9, <1>13, <1>16, <1>17, <1>21
<1>25. Good(<<"CR">>, <<"CR">>)
  <2>1. Tells(<<"CR">>, D(p), To("CR", p))
    BY <1>0, <1>8, <1>16, <1>21
  <2>2. Head(<<"CR">>) = "CR" /\ <<"CR">>[1] = "CR"
    OBVIOUS
  <2> QED
    BY <1>0, <1>1, <1>12, <2>1, <2>2 DEF Good, D
<1>26. Good(<<"IAC", "NOP">>, << >>)
  BY <1>0, <1>6, <1>9, <1>13, <1>16, <1>18, <1>21
<1>27. ASSUME NEW option \in {"a", "CR", "IAC"} PROVE Good(<<"IAC", "WILL", option>>, << >>)
  <2>1. option \in B
    BY <1>0
  <2>2. Tells(<<"IAC", "WILL", option>>, D(p), D(p))
    <3>1. reader[reader[reader[D(p)]["IAC"]]["WILL"]][option] = D(p)
      BY <1>16, <1>18, <1>19, <2>1
    <3>2. Tells(<<"IAC", "WILL", option>>, D(p), reader[reader[reader[D(p)]["IAC"]]["WILL"]][option])
      BY <1>0, <1>10, <1>21, <2>1
    <3> QED
      BY <3>1, <3>2
  <2> QED
    BY <1>0, <1>6, <1>14, <2>1, <2>2
<1>28. ASSUME NEW inside \in {<<"a", "CR">>, <<"IAC", "IAC", "SE">>}
       PROVE  Good(<<"IAC", "SB">> \o inside \o <<"IAC", "SE">>, << >>)
  <2> DEFINE first == <<"IAC", "SB">>
             last == <<"IAC", "SE">>
  <2>1. first \in Keyed /\ last \in Keyed /\ inside \in Keyed
    BY <1>0, <1>13, <1>14
  <2>2. Tells(first, D(p), To("Subnegotiation", p))
    BY <1>0, <1>9, <1>16, <1>18, <1>21
  <2>3. Tells(inside, To("Subnegotiation", p), To("Subnegotiation", p))
    <3>1. CASE inside = <<"a", "CR">>
      BY <1>0, <1>9, <1>20, <1>21, <3>1
    <3>2. CASE inside = <<"IAC", "IAC", "SE">>
      <4> DEFINE S == To("Subnegotiation", p)
      <4>1. reader[reader[reader[S]["IAC"]]["IAC"]]["SE"] = S
        BY <1>0, <1>20
      <4>2. S \in ReaderStates
        BY <1>21
      <4> HIDE DEF S
      <4>3. Tells(<<"IAC", "IAC", "SE">>, S, reader[reader[reader[S]["IAC"]]["IAC"]]["SE"])
        BY <1>0, <1>10, <4>2
      <4>4. Tells(<<"IAC", "IAC", "SE">>, S, S)
        BY <4>1, <4>3
      <4> QED
        BY <3>2, <4>4 DEF S
    <3> QED
      BY <3>1, <3>2
  <2>4. Tells(last, To("Subnegotiation", p), D(p))
    BY <1>0, <1>9, <1>20, <1>21
  <2>5. Len(first) = 2 /\ first[1] = "IAC"
    OBVIOUS
  <2> HIDE DEF first, last
  <2>6. first \o inside \in Keyed /\ first \o inside \o last \in Keyed
    BY <2>1, ConcatProperties DEF Keyed
  <2>7. Tells(first \o inside, D(p), To("Subnegotiation", p))
    BY <1>11, <2>1, <2>2, <2>3
  <2>8. Tells(first \o inside \o last, D(p), D(p))
    BY <1>11, <2>1, <2>4, <2>6, <2>7
  <2> DEFINE whole == first \o inside \o last
  <2>9. whole[1] = "IAC" /\ Len(whole) \in Nat /\ Len(whole) >= 2
    <3>1. /\ Len(first \o inside) = Len(first) + Len(inside)
          /\ \A i \in 1..(Len(first) + Len(inside)) :
               (first \o inside)[i] = IF i <= Len(first) THEN first[i] ELSE inside[i - Len(first)]
      BY <2>1, ConcatProperties DEF Keyed
    <3>2. /\ Len(whole) = Len(first \o inside) + Len(last)
          /\ \A i \in 1..(Len(first \o inside) + Len(last)) :
               whole[i] = IF i <= Len(first \o inside) THEN (first \o inside)[i]
                          ELSE last[i - Len(first \o inside)]
      BY <2>1, <2>6, ConcatProperties DEF Keyed
    <3>3. Len(inside) \in Nat /\ Len(last) \in Nat
      BY <2>1, LenProperties DEF Keyed
    <3> HIDE DEF whole
    <3> QED
      BY <2>5, <3>1, <3>2, <3>3
  <2>10. whole \in Keyed /\ Tells(whole, D(p), D(p))
    BY <2>6, <2>8
  <2> HIDE DEF whole
  <2>11. whole # << >> /\ whole # <<"CR">>
    BY <2>9
  <2>12. Good(whole, << >>)
    BY <1>0, <1>6, <2>9, <2>10, <2>11
  <2> QED
    BY <2>12 DEF whole, first, last
<1>29. Good(form.bytes, form.keys)
  <2>1. \/ \E b \in {"a", "LF", "SE"} : form = [bytes |-> <<b>>, keys |-> <<b>>]
        \/ form = [bytes |-> <<"IAC", "IAC">>, keys |-> <<"IAC">>]
        \/ form = [bytes |-> <<"CR", "LF">>, keys |-> <<"CR">>]
        \/ form = [bytes |-> <<"CR", "NUL">>, keys |-> <<"CR">>]
        \/ form = [bytes |-> <<"CR">>, keys |-> <<"CR">>]
        \/ form = [bytes |-> <<"IAC", "NOP">>, keys |-> << >>]
        \/ \E option \in {"a", "CR", "IAC"} :
              form = [bytes |-> <<"IAC", "WILL", option>>, keys |-> << >>]
        \/ \E inside \in {<<"a", "CR">>, <<"IAC", "IAC", "SE">>} :
              form = [bytes |-> <<"IAC", "SB">> \o inside \o <<"IAC", "SE">>, keys |-> << >>]
    BY Zenon DEF TelnetIn!Forms
  <2>2. CASE \E b \in {"a", "LF", "SE"} : form = [bytes |-> <<b>>, keys |-> <<b>>]
    BY <1>22, <2>2
  <2>3. CASE \/ form = [bytes |-> <<"IAC", "IAC">>, keys |-> <<"IAC">>]
             \/ form = [bytes |-> <<"IAC", "NOP">>, keys |-> << >>]
    BY <1>23, <1>26, <2>3
  <2>4. CASE \/ form = [bytes |-> <<"CR", "LF">>, keys |-> <<"CR">>]
             \/ form = [bytes |-> <<"CR", "NUL">>, keys |-> <<"CR">>]
    BY <1>24, <2>4
  <2>5. CASE form = [bytes |-> <<"CR">>, keys |-> <<"CR">>]
    BY <1>25, <2>5
  <2>6. CASE \E option \in {"a", "CR", "IAC"} :
                form = [bytes |-> <<"IAC", "WILL", option>>, keys |-> << >>]
    BY <1>27, <2>6
  <2>7. CASE \E inside \in {<<"a", "CR">>, <<"IAC", "IAC", "SE">>} :
                form = [bytes |-> <<"IAC", "SB">> \o inside \o <<"IAC", "SE">>, keys |-> << >>]
    <3>1. PICK inside : /\ inside \in {<<"a", "CR">>, <<"IAC", "IAC", "SE">>}
                        /\ form = [bytes |-> <<"IAC", "SB">> \o inside \o <<"IAC", "SE">>,
                                   keys |-> << >>]
      BY Zenon, <2>7
    <3>2. Good(<<"IAC", "SB">> \o inside \o <<"IAC", "SE">>, << >>)
      BY <1>28, <3>1
    <3> QED
      BY Zenon, <3>1, <3>2
  <2> QED
    BY Zenon, <2>1, <2>2, <2>3, <2>4, <2>5, <2>6, <2>7
<1> QED
  BY <1>29 DEF Good, B
---------------------------------------------------------------------------
(* The reader.                                                             *)

\* A pass reads the byte it looks at; a byte that was put back had been read.
LEMMA PassReads ==
    ASSUME TelnetIn!TypeOK, replay # TelnetIn!None => TelnetInputState = "Data", TelnetIn!Pass
    PROVE  /\ replay # TelnetIn!None => socket' = socket /\ Now' = Now
           /\ replay = TelnetIn!None =>
                 socket # << >> /\ socket' = Tail(socket) /\ Now' = Reads(Now, Head(socket))
           /\ read' \in Keyed /\ TelnetInputState' \in TelnetIn!States
           /\ replay' \in (TelnetIn!Bytes \ {"LF", "NUL"}) \cup {TelnetIn!None}
           /\ replay' # TelnetIn!None => TelnetInputState' = "Data"
<1> DEFINE b == TelnetIn!Received
<1>1. /\ TelnetInputState \in TelnetIn!States /\ read \in Keyed /\ socket \in Keyed
      /\ replay # TelnetIn!None => replay \in TelnetIn!Bytes \ {"LF", "NUL"}
  BY DEF TelnetIn!TypeOK, Keyed
<1>2. /\ b \in TelnetIn!Bytes
      /\ replay # TelnetIn!None => b = replay /\ socket' = socket
      /\ replay = TelnetIn!None => b = Head(socket) /\ socket # << >> /\ socket' = Tail(socket)
  BY <1>1 DEF TelnetIn!Pass, TelnetIn!Fetch, TelnetIn!Received, Keyed
<1> DEFINE before == To(TelnetInputState, read)
<1>3. before \in ReaderStates /\ before.at = TelnetInputState /\ before.keys = read
  BY <1>1, ToAState
<1> HIDE DEF b, before
<1>4. "CR" \in TelnetIn!Bytes /\ "IAC" \in TelnetIn!Bytes /\ TelnetIn!None \notin TelnetIn!Bytes
  BY DEF TelnetIn!Bytes, TelnetIn!Verbs, TelnetIn!None
<1>5. \A c \in TelnetIn!Bytes : Append(read, c) \in Keyed
  BY <1>1, AppendProperties DEF Keyed
<1>6. \A keys \in Keyed :
         /\ To("Data", keys) \in ReaderStates /\ To("Data", keys).at = "Data"
         /\ To("Data", keys).keys = keys
  BY ToAState DEF TelnetIn!States
<1>7. /\ read' \in Keyed /\ TelnetInputState' \in TelnetIn!States
      /\ replay' \in (TelnetIn!Bytes \ {"LF", "NUL"}) \cup {TelnetIn!None}
      /\ replay' # TelnetIn!None => TelnetInputState' = "Data"
      /\ Now' = Reads(before, b)
  <2> USE DEF TelnetIn!Go, TelnetIn!Return
  <2>1. CASE TelnetIn!InData
    BY <1>1, <1>2, <1>3, <1>5, <2>1
       DEF TelnetIn!InData, Now, Reads, DataReads, TelnetIn!States, b
  <2>2. CASE TelnetIn!InIAC
    BY <1>1, <1>2, <1>3, <1>4, <1>5, <2>2 DEF TelnetIn!InIAC, Now, Reads, TelnetIn!States, b
  <2>3. CASE TelnetIn!InNegotiation
    BY <1>1, <1>2, <1>3, <2>3 DEF TelnetIn!InNegotiation, Now, Reads, TelnetIn!States, b
  <2>4. CASE TelnetIn!InSubnegotiation
    BY <1>1, <1>2, <1>3, <2>4 DEF TelnetIn!InSubnegotiation, Now, Reads, TelnetIn!States, b
  <2>5. CASE TelnetIn!InSubnegotiationIAC
    BY <1>1, <1>2, <1>3, <2>5 DEF TelnetIn!InSubnegotiationIAC, Now, Reads, TelnetIn!States, b
  <2>6. CASE TelnetIn!InCR
    <3>1. /\ TelnetInputState = "CR" /\ TelnetInputState' = "Data"
          /\ replay' = (IF b \in {"LF", "NUL"} THEN TelnetIn!None ELSE b)
          /\ read' = Append(read, "CR")
      BY <2>6 DEF TelnetIn!InCR, b
    <3>2. read' \in Keyed
      BY <1>4, <1>5, <3>1
    <3>3. To("Data", read') \in ReaderStates /\ To("Data", read').at = "Data"
          /\ To("Data", read').keys = read'
      BY <1>6, <3>2
    <3>4. CASE b \in {"LF", "NUL"}
      BY <1>3, <3>1, <3>2, <3>4 DEF Now, Reads, TelnetIn!States
    <3>5. CASE b \notin {"LF", "NUL"}
      <4>1. Reads(before, b) = DataReads(read', b)
        BY <1>3, <3>1, <3>5 DEF Reads
      <4>2. Now' = Reads(To("Data", read'), b)
        BY <1>2, <1>4, <3>1, <3>5 DEF Now
      <4>3. Reads(To("Data", read'), b) = DataReads(read', b)
        BY <3>3 DEF Reads
      <4> QED
        BY <1>2, <3>1, <3>2, <3>5, <4>1, <4>2, <4>3 DEF TelnetIn!States
    <3> QED
      BY <3>4, <3>5
  <2> QED
    BY <2>1, <2>2, <2>3, <2>4, <2>5, <2>6 DEF TelnetIn!Pass
<1> QED
  BY <1>2, <1>7 DEF Now, before

LEMMA ReaderInvInit ==
    ASSUME TelnetIn!Init, MaxForms \in Nat
    PROVE  ReaderInv
<1>1. TelnetIn!TypeOK
  <2>1. << >> \in Seq(TelnetIn!Bytes)
    BY EmptySeq
  <2>2. forms \in 0..MaxForms
    BY DEF TelnetIn!Init
  <2>3. socket \in Seq(TelnetIn!Bytes) /\ typed \in Seq(TelnetIn!Bytes)
        /\ read \in Seq(TelnetIn!Bytes)
    BY Zenon, <2>1 DEF TelnetIn!Init
  <2>4. /\ TelnetInputState \in TelnetIn!States /\ {bare, callFailed, closed} \subseteq BOOLEAN
        /\ replay \in (TelnetIn!Bytes \ {"LF", "NUL"}) \cup {TelnetIn!None}
    BY DEF TelnetIn!Init, TelnetIn!States
  <2> QED
    BY <2>2, <2>3, <2>4 DEF TelnetIn!TypeOK
<1>2. << >> \in Keyed /\ To("Data", << >>) \in ReaderStates
  BY EmptySeq, ToAState DEF Keyed, TelnetIn!States
<1>3. Tells(<< >>, To("Data", << >>), To("Data", << >>))
  BY <1>2, RunNothing DEF Tells
<1>4. Foretold
  BY <1>2, <1>3 DEF TelnetIn!Init, Foretold, Now
<1> QED
  BY <1>1, <1>4 DEF ReaderInv, TelnetIn!Init

\* Keys that are pressed are told by the bytes that are sent for them.
LEMMA SendTells ==
    ASSUME ReaderInv, Foretold, NEW form \in TelnetIn!Forms, TelnetIn!Send(form)
    PROVE  Foretold'
<1>1. /\ socket' = socket \o form.bytes /\ typed' = typed \o form.keys
      /\ bare' = (form.bytes = <<"CR">>) /\ Now' = Now /\ ~closed
      /\ ~(bare /\ form.bytes[1] = "LF")
  BY DEF TelnetIn!Send, Now
<1>2. socket \in Keyed /\ typed \in Keyed
  BY DEF ReaderInv, TelnetIn!TypeOK, Keyed
<1>3. PICK k \in Keyed : /\ typed = IF bare THEN Append(k, "CR") ELSE k
                         /\ Tells(socket, Now, To(IF bare THEN "CR" ELSE "Data", k))
  BY <1>1 DEF Foretold
<1>4. /\ form.bytes \in Keyed /\ form.bytes # << >> /\ Head(form.bytes) = form.bytes[1]
      /\ form.bytes[1] \in TelnetIn!Bytes \ {"NUL"}
  BY <1>2, FormTells
<1>5. PICK j \in Keyed :
         /\ typed \o form.keys = IF form.bytes = <<"CR">> THEN Append(j, "CR") ELSE j
         /\ Tells(form.bytes, To("Data", typed), To(IF form.bytes = <<"CR">> THEN "CR" ELSE "Data", j))
  BY <1>2, FormTells
<1> DEFINE e == To(IF form.bytes = <<"CR">> THEN "CR" ELSE "Data", j)
           s == To(IF bare THEN "CR" ELSE "Data", k)
<1>6. Tells(form.bytes, s, e)
  <2>1. CASE ~bare
    BY <1>3, <1>5, <2>1
  <2>2. CASE bare
    <3> DEFINE b == Head(form.bytes)
               c == To("CR", k)
               d == To("Data", typed)
    <3>1. /\ c \in ReaderStates /\ c.at = "CR" /\ c.keys = k
          /\ d \in ReaderStates /\ d.at = "Data" /\ d.keys = typed
      BY <1>2, ToAState DEF TelnetIn!States
    <3>2. b \in TelnetIn!Bytes /\ b \notin {"LF", "NUL"} /\ typed = Append(k, "CR")
      BY <1>1, <1>3, <1>4, <2>2
    <3> HIDE DEF b, c, d
    <3>3. Reads(c, b) = Reads(d, b)
      BY <3>1, <3>2 DEF Reads
    <3>4. reader[d][Head(form.bytes)] = reader[c][Head(form.bytes)]
      BY <3>1, <3>2, <3>3, ReaderType DEF b
    <3>5. Run(ReaderStates, reader, form.bytes, d, e)
      BY <1>5 DEF Tells, d
    <3> HIDE DEF e
    <3>6. Run(ReaderStates, reader, form.bytes, c, e)
      BY <1>4, <3>1, <3>4, <3>5, ReaderType, RunFirst DEF Keyed
    <3> QED
      BY <2>2, <3>6 DEF Tells, c
  <2> QED
    BY <2>1, <2>2
<1> HIDE DEF e, s
<1>7. Tells(socket, Now, s)
  BY <1>3 DEF s
<1>8. Tells(socket \o form.bytes, Now, e)
  BY <1>2, <1>4, <1>6, <1>7, RunOn DEF Tells, Keyed
<1>9. Tells(socket', Now', To(IF bare' THEN "CR" ELSE "Data", j))
  BY <1>1, <1>8 DEF e
<1>10. typed' = IF bare' THEN Append(j, "CR") ELSE j
  BY <1>1, <1>5
<1> QED
  BY <1>9, <1>10 DEF Foretold

LEMMA ReaderInvStep ==
    ASSUME ReaderInv, TelnetIn!Next, MaxForms \in Nat
    PROVE  ReaderInv'
<1>1. CASE TelnetIn!Pass
  <2>1. /\ replay # TelnetIn!None => socket' = socket /\ Now' = Now
        /\ replay = TelnetIn!None =>
              socket # << >> /\ socket' = Tail(socket) /\ Now' = Reads(Now, Head(socket))
        /\ read' \in Keyed /\ TelnetInputState' \in TelnetIn!States
        /\ replay' \in (TelnetIn!Bytes \ {"LF", "NUL"}) \cup {TelnetIn!None}
        /\ replay' # TelnetIn!None => TelnetInputState' = "Data"
    BY <1>1, PassReads DEF ReaderInv
  <2>2. typed' = typed /\ forms' = forms /\ bare' = bare /\ callFailed' = callFailed
        /\ closed' = closed
    BY <1>1 DEF TelnetIn!Pass
  <2>3. socket \in Keyed /\ (socket # << >> => Tail(socket) \in Keyed /\ Head(socket) \in TelnetIn!Bytes)
    BY HeadTailProperties DEF ReaderInv, TelnetIn!TypeOK, Keyed
  <2>4. TelnetIn!TypeOK'
    BY <2>1, <2>2, <2>3 DEF ReaderInv, TelnetIn!TypeOK, Keyed
  <2>5. ASSUME ~callFailed PROVE Foretold'
    <3>1. PICK k \in Keyed : /\ typed = IF bare THEN Append(k, "CR") ELSE k
                             /\ Tells(socket, Now, To(IF bare THEN "CR" ELSE "Data", k))
      BY <1>1, <2>5 DEF ReaderInv, Foretold, TelnetIn!Pass, TelnetIn!Fetch
    <3> DEFINE e == To(IF bare THEN "CR" ELSE "Data", k)
    <3> HIDE DEF e
    <3>2. Tells(socket, Now, e)
      BY <3>1 DEF e
    <3>3. Tells(socket', Now', e)
      <4>1. CASE replay # TelnetIn!None
        BY <2>1, <3>2, <4>1
      <4>2. CASE replay = TelnetIn!None
        <5>1. Run(ReaderStates, reader, Tail(socket), reader[Now][Head(socket)], e)
          BY <2>1, <2>3, <3>2, <4>2, RunHead DEF Tells, Keyed
        <5>2. reader[Now][Head(socket)] = Reads(Now, Head(socket))
          BY <2>1, <2>3, <4>2, NowType, ReaderType DEF ReaderInv
        <5> QED
          BY <2>1, <4>2, <5>1, <5>2 DEF Tells
      <4> QED
        BY <4>1, <4>2
    <3> QED
      BY <2>2, <3>1, <3>3 DEF Foretold, e
  <2> QED
    BY <2>1, <2>2, <2>4, <2>5 DEF ReaderInv
<1>2. CASE TelnetIn!Fail
  BY <1>2 DEF TelnetIn!Fail, ReaderInv, TelnetIn!TypeOK, TelnetIn!States
<1>3. CASE TelnetIn!AtEnd
  <2>1. /\ closed /\ socket = << >> /\ replay = TelnetIn!None /\ TelnetInputState' = "Data"
        /\ UNCHANGED <<socket, replay, typed, read, forms, bare, callFailed, closed>>
    BY <1>3 DEF TelnetIn!AtEnd
  <2>2. TelnetIn!TypeOK'
    BY <2>1 DEF ReaderInv, TelnetIn!TypeOK, TelnetIn!States
  <2>3. ASSUME ~callFailed PROVE Foretold'
    <3>1. CASE typed = Append(read, "CR")
      BY <2>1, <3>1 DEF Foretold
    <3>2. CASE typed # Append(read, "CR")
      <4>1. PICK k \in Keyed : /\ typed = IF bare THEN Append(k, "CR") ELSE k
                               /\ Tells(socket, Now, To(IF bare THEN "CR" ELSE "Data", k))
        BY <2>3, <3>2 DEF ReaderInv, Foretold
      <4>2. Now \in ReaderStates /\ Now = To(TelnetInputState, read)
        BY <2>1, NowType DEF ReaderInv, Now
      <4>3. To(IF bare THEN "CR" ELSE "Data", k) = Now
        BY <2>1, <4>1, <4>2, RunNothing DEF Tells
      <4>4. (IF bare THEN "CR" ELSE "Data") = TelnetInputState /\ k = read
        BY <4>2, <4>3 DEF To
      <4>5. ~bare /\ TelnetInputState = "Data"
        BY <3>2, <4>1, <4>4
      <4>6. Now' = Now
        BY <2>1, <4>5 DEF Now
      <4> QED
        BY <2>1, <4>1, <4>6 DEF Foretold
    <3> QED
      BY <3>1, <3>2
  <2> QED
    BY <2>1, <2>2, <2>3 DEF ReaderInv
<1>4. CASE TelnetIn!HangUp
  <2>1. /\ closed' = TRUE /\ ~closed
        /\ UNCHANGED <<socket, TelnetInputState, replay, typed, read, forms, bare, callFailed>>
    BY <1>4 DEF TelnetIn!HangUp
  <2>2. Now' = Now
    BY <2>1 DEF Now
  <2> QED
    BY <2>1, <2>2 DEF ReaderInv, TelnetIn!TypeOK, Foretold
<1>5. ASSUME NEW form \in TelnetIn!Forms, TelnetIn!Send(form) PROVE ReaderInv'
  <2>1. /\ socket' = socket \o form.bytes /\ typed' = typed \o form.keys
        /\ forms < MaxForms /\ forms' = forms + 1 /\ bare' \in BOOLEAN
        /\ UNCHANGED <<TelnetInputState, replay, read, callFailed, closed>>
    BY <1>5 DEF TelnetIn!Send
  <2>2. socket' \in Keyed /\ typed' \in Keyed
    <3>1. << >> \in Keyed /\ socket \in Keyed /\ typed \in Keyed
      BY EmptySeq DEF Keyed, ReaderInv, TelnetIn!TypeOK
    <3>2. form.bytes \in Keyed /\ form.keys \in Keyed
      BY <3>1, FormTells
    <3> QED
      BY <2>1, <3>1, <3>2, ConcatProperties DEF Keyed
  <2>3. TelnetIn!TypeOK'
    BY <2>1, <2>2 DEF ReaderInv, TelnetIn!TypeOK, Keyed
  <2>4. ~callFailed => Foretold'
    BY <1>5, SendTells DEF ReaderInv
  <2> QED
    BY <2>1, <2>3, <2>4 DEF ReaderInv
<1> QED
  BY <1>1, <1>2, <1>3, <1>4, <1>5 DEF TelnetIn!Next

\* What has been read stays the start of what is told.
LEMMA ReadsOn ==
    ASSUME NEW k \in Keyed, NEW v \in ReaderStates, Starts(k, v.keys), NEW b \in TelnetIn!Bytes
    PROVE  Starts(k, Reads(v, b).keys)
<1>1. v.at \in TelnetIn!States /\ v.keys \in Keyed /\ "CR" \in TelnetIn!Bytes
  BY DEF ReaderStates, TelnetIn!Bytes
<1>2. ASSUME NEW s \in Keyed, NEW c \in TelnetIn!Bytes, Starts(k, s)
      PROVE  Append(s, c) \in Keyed /\ Starts(k, Append(s, c))
  <2>1. /\ Append(s, c) \in Seq(TelnetIn!Bytes) /\ Len(Append(s, c)) = Len(s) + 1
        /\ \A i \in 1..Len(s) : Append(s, c)[i] = s[i]
    BY AppendProperties DEF Keyed
  <2>2. Len(s) \in Nat /\ Len(k) \in Nat
    BY LenProperties DEF Keyed
  <2> QED
    BY <1>2, <2>1, <2>2 DEF Starts, Keyed
<1>3. ASSUME NEW s \in Keyed, Starts(k, s) PROVE Starts(k, DataReads(s, b).keys)
  BY <1>2, <1>3 DEF DataReads, To
<1>4. /\ Starts(k, Append(v.keys, b)) /\ Append(v.keys, "CR") \in Keyed
      /\ Starts(k, Append(v.keys, "CR")) /\ Starts(k, DataReads(v.keys, b).keys)
      /\ Starts(k, DataReads(Append(v.keys, "CR"), b).keys)
  BY <1>1, <1>2, <1>3
<1> QED
  BY <1>1, <1>4 DEF Reads, To, TelnetIn!States

LEMMA Survives ==
    ASSUME ReaderInv
    PROVE  TelnetIn!KeysSurviveCommands
<1> SUFFICES ASSUME ~callFailed
             PROVE  /\ TelnetIn!IsPrefix(read, typed)
                    /\ socket = << >> /\ replay = TelnetIn!None /\ TelnetInputState = "Data" =>
                           typed \in {read, Append(read, "CR")}
                    /\ socket = << >> /\ replay = TelnetIn!None /\ ~closed
                           /\ TelnetInputState = "Data" => typed = read
                    /\ socket = << >> /\ replay = TelnetIn!None /\ TelnetInputState # "Data" =>
                           bare /\ typed = Append(read, "CR")
  BY DEF TelnetIn!KeysSurviveCommands
<1>1. /\ read \in Keyed /\ typed \in Keyed /\ socket \in Keyed /\ "CR" \in TelnetIn!Bytes
      /\ TelnetInputState \in TelnetIn!States
  BY DEF ReaderInv, TelnetIn!TypeOK, Keyed, TelnetIn!Bytes
<1>2. ASSUME NEW s \in Keyed, NEW c \in TelnetIn!Bytes, Starts(read, s)
      PROVE  Starts(read, Append(s, c))
  <2>1. /\ Len(Append(s, c)) = Len(s) + 1 /\ \A i \in 1..Len(s) : Append(s, c)[i] = s[i]
    BY AppendProperties DEF Keyed
  <2>2. Len(s) \in Nat /\ Len(read) \in Nat
    BY <1>1, LenProperties DEF Keyed
  <2> QED
    BY <1>2, <2>1, <2>2 DEF Starts
<1>3. Starts(read, read)
  BY <1>1, LenProperties DEF Starts, Keyed
<1>4. Starts(read, typed) => TelnetIn!IsPrefix(read, typed)
  BY <1>1, PrefixStarts DEF Keyed
<1>5. CASE \E k \in Keyed : /\ typed = IF bare THEN Append(k, "CR") ELSE k
                            /\ Tells(socket, Now, To(IF bare THEN "CR" ELSE "Data", k))
  <2>1. PICK k \in Keyed : /\ typed = IF bare THEN Append(k, "CR") ELSE k
                           /\ Tells(socket, Now, To(IF bare THEN "CR" ELSE "Data", k))
    BY <1>5
  <2> DEFINE e == To(IF bare THEN "CR" ELSE "Data", k)
             W == {v \in ReaderStates : Starts(read, v.keys)}
  <2>2. Now \in W
    <3>1. To(TelnetInputState, read) \in ReaderStates /\ To(TelnetInputState, read).keys = read
      BY <1>1, ToAState
    <3>2. replay # TelnetIn!None => replay \in TelnetIn!Bytes
      BY DEF ReaderInv, TelnetIn!TypeOK
    <3>3. Starts(read, Now.keys)
      BY <1>1, <1>3, <3>1, <3>2, ReadsOn DEF Now
    <3> QED
      BY <3>3, NowType DEF ReaderInv
  <2>3. \A v \in W \intersect ReaderStates, b \in TelnetIn!Bytes : reader[v][b] \in W
    BY <1>1, ReaderType, ReadsType, ReadsOn
  <2> HIDE DEF W
  <2>4. Run(ReaderStates, reader, socket, Now, e)
    BY <2>1 DEF Tells
  <2> HIDE DEF e
  <2>5. e \in W
    BY <1>1, <2>2, <2>3, <2>4, RunWithin DEF Keyed
  <2>6. Starts(read, k)
    BY <2>5 DEF W, e, To
  <2>7. Starts(read, typed)
    BY <1>1, <1>2, <2>1, <2>6
  <2>8. ASSUME socket = << >>, replay = TelnetIn!None
        PROVE  (IF bare THEN "CR" ELSE "Data") = TelnetInputState /\ k = read
    <3>1. Now \in ReaderStates /\ Now = To(TelnetInputState, read)
      BY <2>8, NowType DEF ReaderInv, Now
    <3>2. e = Now
      BY <2>4, <2>8, <3>1, RunNothing
    <3> QED
      BY <3>1, <3>2 DEF To, e
  <2> QED
    BY <1>4, <2>1, <2>7, <2>8
<1>6. CASE /\ closed /\ socket = << >> /\ replay = TelnetIn!None
           /\ TelnetInputState = "Data" /\ typed = Append(read, "CR")
  <2>1. Starts(read, typed)
    BY <1>1, <1>2, <1>3, <1>6
  <2> QED
    BY <1>4, <1>6, <2>1
<1> QED
  BY <1>5, <1>6 DEF ReaderInv, Foretold
---------------------------------------------------------------------------
(* What a Telnet caller's terminal shows.                                  *)

LEMMA TelnetOutMoves ==
    ASSUME [LineNext]_lineVars
    PROVE  TelnetOut!Next \/ UNCHANGED telnetOutVars
BY DEF LineNext, ReceiveStep, Transmits, TransmitStep, TelnetInStep, TelnetOutStep, QueueStep,
   KeysStep, PortStep, lineVars, telnetOutVars

Wired == TelnetOut!Bytes \cup {"NUL"}
Wires == Seq(Wired)
Screens == [text : Wires, first : {"none", "IAC", "CR"}]
Screen(shown) == [text |-> shown, first |-> "none"]

terminal == [v \in Screens |-> [b \in Wired |-> TelnetOut!Show(v, b)]]

\* The bytes take the terminal from s to e.
Shows(bytes, s, e) == Run(Screens, terminal, bytes, s, e)

LEMMA TwoMore ==
    ASSUME NEW s \in Wires, NEW a \in Wired, NEW b \in Wired
    PROVE  s \o <<a, b>> = Append(Append(s, a), b) /\ s \o <<a>> = Append(s, a)
<1>1. s \o <<a>> = Append(s, a)
  BY AppendIsConcat DEF Wires
<1> DEFINE t == <<a, b>>
           whole == s \o t
           parts == Append(Append(s, a), b)
<1>2. t \in Seq(Wired) /\ Len(t) = 2 /\ t[1] = a /\ t[2] = b
  OBVIOUS
<1> HIDE DEF t
<1>3. /\ whole \in Seq(Wired) /\ Len(whole) = Len(s) + 2
      /\ \A i \in 1..Len(s) + 2 : whole[i] = IF i <= Len(s) THEN s[i] ELSE t[i - Len(s)]
  <2>1. /\ whole \in Seq(Wired) /\ Len(whole) = Len(s) + Len(t)
        /\ \A i \in 1..Len(s) + Len(t) : whole[i] = IF i <= Len(s) THEN s[i] ELSE t[i - Len(s)]
    BY <1>2, ConcatProperties DEF Wires
  <2> HIDE DEF whole
  <2> QED
    BY <1>2, <2>1
<1>4. /\ Append(s, a) \in Seq(Wired) /\ Len(Append(s, a)) = Len(s) + 1
      /\ \A i \in 1..Len(s) : Append(s, a)[i] = s[i]
      /\ Append(s, a)[Len(s) + 1] = a
  BY AppendProperties DEF Wires
<1>5. /\ parts \in Seq(Wired) /\ Len(parts) = Len(s) + 2
      /\ \A i \in 1..Len(s) + 1 : parts[i] = Append(s, a)[i]
      /\ parts[Len(s) + 2] = b
  <2>1. /\ parts \in Seq(Wired) /\ Len(parts) = Len(Append(s, a)) + 1
        /\ \A i \in 1..Len(Append(s, a)) : parts[i] = Append(s, a)[i]
        /\ parts[Len(Append(s, a)) + 1] = b
    BY <1>4, AppendProperties
  <2>2. Len(s) \in Nat
    BY LenProperties DEF Wires
  <2> HIDE DEF parts
  <2> QED
    BY <1>4, <2>1, <2>2
<1> HIDE DEF whole, parts
<1>6. Len(s) \in Nat
  BY LenProperties DEF Wires
<1>7. ASSUME NEW i \in 1..Len(s) + 2 PROVE whole[i] = parts[i]
  <2>1. CASE i \in 1..Len(s)
    BY <1>3, <1>4, <1>5, <1>6, <2>1
  <2>2. CASE i = Len(s) + 1
    BY <1>2, <1>3, <1>4, <1>5, <1>6, <2>2
  <2>3. CASE i = Len(s) + 2
    BY <1>2, <1>3, <1>5, <1>6, <2>3
  <2> QED
    BY <1>6, <2>1, <2>2, <2>3
<1>8. whole = parts
  BY <1>3, <1>5, <1>7, SeqEqual
<1> QED
  BY <1>1, <1>8 DEF whole, parts, t

\* What a byte makes of the screen.
LEMMA ShowIs ==
    ASSUME NEW v \in Screens, NEW b \in Wired
    PROVE  /\ v.first = "IAC" => TelnetOut!Show(v, b) = Screen(Append(v.text, b))
           /\ v.first = "CR" =>
                 TelnetOut!Show(v, b) = Screen(IF b = "NUL" THEN Append(v.text, "CR")
                                               ELSE Append(Append(v.text, "CR"), b))
           /\ v.first = "none" /\ b \in {"IAC", "CR"} =>
                 TelnetOut!Show(v, b) = [text |-> v.text, first |-> b]
           /\ v.first = "none" /\ b \notin {"IAC", "CR"} =>
                 TelnetOut!Show(v, b) = Screen(Append(v.text, b))
           /\ Append(v.text, b) \in Wires /\ Append(v.text, "CR") \in Wires
           /\ Append(Append(v.text, "CR"), b) \in Wires
<1>1. "CR" \in Wired /\ v.text \in Wires
  BY DEF Wired, TelnetOut!Bytes, Screens
<1>2. Append(v.text, b) \in Wires /\ Append(v.text, "CR") \in Wires
      /\ Append(Append(v.text, "CR"), b) \in Wires
  BY <1>1, AppendProperties DEF Wires
<1>3. v.text \o <<"CR", b>> = Append(Append(v.text, "CR"), b) /\ v.text \o <<"CR">> = Append(v.text, "CR")
  BY <1>1, TwoMore
<1>4. v.first = "IAC" => TelnetOut!Show(v, b) = Screen(Append(v.text, b))
  BY DEF TelnetOut!Show, Screen
<1>5. ASSUME v.first = "CR"
      PROVE  TelnetOut!Show(v, b) = Screen(IF b = "NUL" THEN Append(v.text, "CR")
                                           ELSE Append(Append(v.text, "CR"), b))
  <2>1. TelnetOut!Show(v, b) = Screen(v.text \o (IF b = "NUL" THEN <<"CR">> ELSE <<"CR", b>>))
    BY <1>5 DEF TelnetOut!Show, Screen
  <2> QED
    BY <1>3, <2>1
<1>6. /\ \A first : [v EXCEPT !.first = first] = [text |-> v.text, first |-> first]
      /\ v.first = "none" => \A s : [v EXCEPT !.text = s] = Screen(s)
  BY DEF Screens, Screen
<1>7. v.first = "none" /\ b \in {"IAC", "CR"} => TelnetOut!Show(v, b) = [v EXCEPT !.first = b]
  BY DEF TelnetOut!Show
<1>8. v.first = "none" /\ b \notin {"IAC", "CR"} =>
        TelnetOut!Show(v, b) = [v EXCEPT !.text = Append(v.text, b)]
  BY DEF TelnetOut!Show
<1> QED
  BY <1>2, <1>4, <1>5, <1>6, <1>7, <1>8

LEMMA TerminalType ==
    /\ terminal \in [Screens -> [Wired -> Screens]]
    /\ \A v \in Screens, b \in Wired : terminal[v][b] = TelnetOut!Show(v, b)
<1>1. ASSUME NEW v \in Screens, NEW b \in Wired PROVE TelnetOut!Show(v, b) \in Screens
  <2>1. v.text \in Wires /\ v.first \in {"none", "IAC", "CR"}
    BY DEF Screens
  <2>2. /\ \A s \in Wires : Screen(s) \in Screens
        /\ b \in {"IAC", "CR"} => [text |-> v.text, first |-> b] \in Screens
    BY <2>1 DEF Screen, Screens
  <2> QED
    BY <2>1, <2>2, ShowIs
<1> QED
  BY <1>1 DEF terminal

Drawing(f, q) ==
    f = [i \in 0..Len(q) |-> IF i = 0 THEN TelnetOut!Blank ELSE TelnetOut!Show(f[i - 1], q[i])]

LEMMA BlankIs == TelnetOut!Blank \in Screens /\ TelnetOut!Blank = Screen(<< >>)
BY EmptySeq DEF TelnetOut!Blank, Screens, Screen, Wires

\* Shown is where the bytes take the terminal from a blank screen.
LEMMA ShownIs ==
    ASSUME NEW q \in Wires
    PROVE  TelnetOut!Shown(q) \in Screens /\ Shows(q, TelnetOut!Blank, TelnetOut!Shown(q))
<1>1. Len(q) \in Nat /\ \A i \in 1..Len(q) : q[i] \in Wired
  BY LenProperties, ElementOfSeq DEF Wires
<1>2. PICK e \in Screens : Run(Screens, terminal, q, TelnetOut!Blank, e)
  BY BlankIs, TerminalType, RunExists DEF Wires
<1>3. PICK f \in [0..Len(q) -> Screens] :
         /\ f[0] = TelnetOut!Blank /\ f[Len(q)] = e
         /\ \A n \in 1..Len(q) : f[n] = terminal[f[n - 1]][q[n]]
  BY <1>2 DEF Run
<1>4. ASSUME NEW n \in 1..Len(q) PROVE f[n] = TelnetOut!Show(f[n - 1], q[n])
  <2>1. n - 1 \in 0..Len(q)
    BY <1>1
  <2>2. f[n - 1] \in Screens
    BY <1>3, <2>1
  <2> QED
    BY <1>1, <1>3, <2>2, TerminalType
<1>5. Drawing(f, q)
  <2>1. f = [n \in 0..Len(q) |-> f[n]]
    BY <1>3
  <2>2. \A n \in 0..Len(q) : f[n] = IF n = 0 THEN TelnetOut!Blank
                                    ELSE TelnetOut!Show(f[n - 1], q[n])
    BY <1>1, <1>3, <1>4
  <2> QED
    BY <2>1, <2>2 DEF Drawing
<1> DEFINE g == CHOOSE h : Drawing(h, q)
<1>6. Drawing(g, q)
  BY <1>5, Zenon
<1>7. TelnetOut!Shown(q) = g[Len(q)]
  BY DEF TelnetOut!Shown, Drawing
<1> HIDE DEF g
<1>8. Alike(g, f, Len(q))
  <2>1. g[0] = f[0]
    BY <1>1, <1>5, <1>6 DEF Drawing
  <2>2. ASSUME NEW n \in 1..Len(q), g[n - 1] = f[n - 1] PROVE g[n] = f[n]
    BY <1>1, <1>5, <1>6, <2>2 DEF Drawing
  <2> QED
    BY <2>1, <2>2 DEF Alike
<1>9. g[Len(q)] = f[Len(q)]
  <2>1. \A n \in 0..Len(q) : g[n] = f[n]
    BY <1>1, <1>8, OnlyOne
  <2> QED
    BY <1>1, <2>1
<1> QED
  BY <1>2, <1>3, <1>7, <1>9 DEF Shows

Forming(f, buffer) ==
    f = [i \in 0..Len(buffer) |->
            IF i = 0 THEN << >> ELSE f[i - 1] \o TelnetOut!Form(buffer, i)]

LEMMA FormType ==
    ASSUME NEW buffer \in Seq(TelnetOut!Bytes), NEW i \in 1..Len(buffer)
    PROVE  TelnetOut!Form(buffer, i) \in Wires /\ buffer[i] \in TelnetOut!Bytes
<1>1. buffer[i] \in TelnetOut!Bytes
  BY ElementOfSeq
<1>2. \A a \in Wired : <<a>> \in Wires
  BY DEF Wires
<1>3. \A a, b \in Wired : <<a, b>> \in Wires
  BY DEF Wires
<1>4. << >> \in Wires
  BY EmptySeq DEF Wires
<1>5. "IAC" \in Wired /\ "CR" \in Wired /\ "LF" \in Wired /\ "NUL" \in Wired /\ buffer[i] \in Wired
  BY <1>1 DEF Wired, TelnetOut!Bytes
<1> QED
  BY <1>1, <1>2, <1>3, <1>4, <1>5 DEF TelnetOut!Form

\* Encode joins the forms of the bytes, one after the other.
LEMMA EncodeIs ==
    ASSUME NEW buffer \in Seq(TelnetOut!Bytes)
    PROVE  \E f \in [0..Len(buffer) -> Wires] :
              /\ f[0] = << >> /\ TelnetOut!Encode(buffer) = f[Len(buffer)]
              /\ \A n \in 1..Len(buffer) : f[n] = f[n - 1] \o TelnetOut!Form(buffer, n)
<1> DEFINE N == Len(buffer)
           next == [n \in 1..N |-> [s \in Wires |-> s \o TelnetOut!Form(buffer, n)]]
<1>1. N \in Nat /\ << >> \in Wires
  BY LenProperties, EmptySeq DEF Wires
<1>2. next \in [1..N -> [Wires -> Wires]]
  <2>1. ASSUME NEW n \in 1..N, NEW s \in Wires PROVE s \o TelnetOut!Form(buffer, n) \in Wires
    BY FormType, ConcatProperties DEF Wires
  <2> QED
    BY <2>1
<1>3. ASSUME NEW n \in 1..N, NEW s \in Wires PROVE next[n][s] = s \o TelnetOut!Form(buffer, n)
  OBVIOUS
<1> HIDE DEF next, N
<1>4. PICK f \in [0..N -> Wires] : Steps(f, N, << >>, next)
  BY <1>1, <1>2, OneAtLeast
<1>5. ASSUME NEW n \in 1..N PROVE f[n] = f[n - 1] \o TelnetOut!Form(buffer, n)
  <2>1. n - 1 \in 0..N
    BY <1>1
  <2> QED
    BY <1>3, <1>4, <2>1 DEF Steps
<1>6. Forming(f, buffer)
  <2>1. f = [n \in 0..N |-> f[n]]
    BY <1>4
  <2>2. \A n \in 0..N : f[n] = IF n = 0 THEN << >> ELSE f[n - 1] \o TelnetOut!Form(buffer, n)
    BY <1>1, <1>4, <1>5 DEF Steps
  <2> QED
    BY <2>1, <2>2 DEF Forming, N
<1> DEFINE g == CHOOSE h : Forming(h, buffer)
<1>7. Forming(g, buffer)
  BY <1>6, Zenon
<1>8. TelnetOut!Encode(buffer) = g[N]
  BY DEF TelnetOut!Encode, Forming, N
<1> HIDE DEF g
<1>9. Alike(g, f, N)
  <2>1. g[0] = f[0]
    BY <1>1, <1>6, <1>7 DEF Forming, N
  <2>2. ASSUME NEW n \in 1..N, g[n - 1] = f[n - 1] PROVE g[n] = f[n]
    <3>1. n \in 0..N /\ n # 0
      BY <1>1
    <3>2. g[n] = g[n - 1] \o TelnetOut!Form(buffer, n)
      BY <1>7, <3>1 DEF Forming, N
    <3> QED
      BY <1>5, <2>2, <3>2
  <2> QED
    BY <2>1, <2>2 DEF Alike
<1>10. g[N] = f[N]
  <2>1. \A n \in 0..N : g[n] = f[n]
    BY <1>1, <1>9, OnlyOne
  <2> QED
    BY <1>1, <2>1
<1> QED
  BY <1>4, <1>5, <1>8, <1>10 DEF Steps, N

\* The form of a buffer shows the buffer.
LEMMA EncodeShows ==
    ASSUME NEW buffer \in Seq(TelnetOut!Bytes), NEW s \in Seq(TelnetOut!Bytes)
    PROVE  /\ TelnetOut!Encode(buffer) \in Wires /\ s \o buffer \in Seq(TelnetOut!Bytes)
           /\ Shows(TelnetOut!Encode(buffer), Screen(s), Screen(s \o buffer))
<1> DEFINE N == Len(buffer)
           B == TelnetOut!Bytes
           form(n) == TelnetOut!Form(buffer, n)
           after == [n \in 0..N |-> s \o SubSeq(buffer, 1, n)]
           pair == {n \in 1..N : buffer[n] = "CR" /\ n < N /\ buffer[n + 1] = "LF"}
           upto == [n \in 0..N |-> IF n \in pair THEN n + 1 ELSE n]
<1>1. N \in Nat /\ \A n \in 1..N : buffer[n] \in B
  BY LenProperties, ElementOfSeq
<1>2. PICK f \in [0..N -> Wires] :
         /\ f[0] = << >> /\ TelnetOut!Encode(buffer) = f[N]
         /\ \A n \in 1..N : f[n] = f[n - 1] \o form(n)
  BY EncodeIs
<1>3. after[0] = s /\ after[N] = s \o buffer /\ s \in Seq(B)
  <2>1. SubSeq(buffer, 1, 0) = << >> /\ SubSeq(buffer, 1, N) = buffer
    BY SubSeqEmpty, SubSeqFull
  <2>2. 0 \in 0..N /\ N \in 0..N
    BY <1>1
  <2>3. s \o << >> = s
    BY ConcatEmptySeq
  <2> QED
    BY <2>1, <2>2, <2>3
<1>4. ASSUME NEW n \in 1..N PROVE after[n] = Append(after[n - 1], buffer[n])
  <2>1. 1 \in 1..N /\ n \in 1..N /\ n - 1 \in 0..N /\ n \in 0..N
    BY <1>1
  <2>2. SubSeq(buffer, 1, n) = SubSeq(buffer, 1, n - 1) \o <<buffer[n]>>
    BY <1>1, <2>1, SubSeqRecursiveSecond
  <2>3. SubSeq(buffer, 1, n - 1) \in Seq(B) /\ <<buffer[n]>> \in Seq(B)
    <3>1. \A i \in 1..(n - 1) : buffer[i] \in B
      BY <1>1
    <3> QED
      BY <1>1, <3>1, SubSeqProperties
  <2> DEFINE t == SubSeq(buffer, 1, n - 1)
             b == <<buffer[n]>>
  <2>0. t \in Seq(B) /\ b \in Seq(B) /\ s \in Seq(B)
    BY <2>3
  <2> HIDE DEF t, b, B
  <2>4. (s \o t) \o b = s \o (t \o b)
    BY <2>0, ConcatAssociative
  <2>5. s \o t \in Seq(B)
    BY <2>0, ConcatProperties
  <2>6. Append(s \o t, buffer[n]) = (s \o t) \o b
    BY <1>1, <2>5, AppendIsConcat DEF b, B
  <2> QED
    BY <2>1, <2>2, <2>4, <2>6 DEF t, b, B
<1> HIDE DEF after
<1>5. ASSUME NEW n \in 0..N PROVE after[n] \in Seq(B)
  <2> DEFINE S == {m \in 0..N : after[m] \in Seq(B)}
  <2>1. 0 \in S
    BY <1>1, <1>3
  <2>2. ASSUME NEW m \in 1..N, m - 1 \in S PROVE m \in S
    <3>1. m \in 0..N /\ after[m - 1] \in Seq(B) /\ buffer[m] \in B
      BY <1>1, <2>2
    <3>2. Append(after[m - 1], buffer[m]) \in Seq(B)
      BY <3>1, AppendProperties
    <3> QED
      BY <1>4, <3>1, <3>2
  <2> HIDE DEF S
  <2>3. 0..N \subseteq S
    BY <1>1, <2>1, <2>2, Induction
  <2> QED
    BY <2>3 DEF S
<1>6. /\ upto[0] = 0 /\ upto[N] = N
      /\ \A n \in pair : upto[n] = n + 1
      /\ \A n \in 0..N : n \notin pair => upto[n] = n
  BY <1>1
<1>7. \A n \in 1..N : n \in pair <=> (buffer[n] = "CR" /\ n < N /\ buffer[n + 1] = "LF")
  OBVIOUS
<1>8. 0 \notin pair
  BY <1>1
<1> HIDE DEF upto, pair
<1>9. Seq(B) \subseteq Wires /\ B \subseteq Wired /\ "NUL" \in Wired /\ "IAC" \in Wired
      /\ "CR" \in Wired /\ "LF" \in Wired
  BY SeqMonotonic DEF Wires, Wired, TelnetOut!Bytes
<1>10. ASSUME NEW n \in 1..N PROVE Shows(form(n), Screen(after[upto[n - 1]]), Screen(after[upto[n]]))
  <2>1. CASE n - 1 \in pair
    <3>1. n - 1 \in 1..N /\ (n - 1) + 1 = n
      BY <1>1, <1>8, <2>1
    <3>2. buffer[n - 1] = "CR" /\ buffer[n] = "LF" /\ n > 1
      BY <1>7, <2>1, <3>1
    <3>3. form(n) = << >>
      BY <3>2 DEF TelnetOut!Form
    <3>4. upto[n - 1] = n /\ upto[n] = n
      BY <1>1, <1>6, <1>7, <2>1, <3>1, <3>2
    <3>5. Screen(after[n]) \in Screens
      BY <1>1, <1>5, <1>9 DEF Screen, Screens
    <3> QED
      BY <3>3, <3>4, <3>5, RunNothing DEF Shows
  <2>2. CASE n - 1 \notin pair
    <3> DEFINE u == after[n - 1]
    <3>1. /\ n - 1 \in 0..N /\ upto[n - 1] = n - 1
          /\ ~(buffer[n] = "LF" /\ n > 1 /\ buffer[n - 1] = "CR")
      <4>1. n - 1 \in 0..N /\ (n > 1 => n - 1 \in 1..N /\ n - 1 < N /\ (n - 1) + 1 = n)
        BY <1>1
      <4> QED
        BY <1>6, <1>7, <2>2, <4>1
    <3>2. u \in Wires /\ Screen(u) \in Screens /\ Screen(u).text = u /\ Screen(u).first = "none"
      BY <1>5, <1>9, <3>1 DEF Screen, Screens
    <3>3. after[n] = Append(u, buffer[n]) /\ buffer[n] \in B /\ buffer[n] \in Wired
      BY <1>1, <1>4, <1>9
    <3> HIDE DEF u
    <3>4. ASSUME NEW a \in {"IAC", "CR"}
          PROVE  LET v == [text |-> u, first |-> a]
                 IN v \in Screens /\ terminal[Screen(u)][a] = v /\ v.text = u /\ v.first = a
      <4>1. [text |-> u, first |-> a] \in Screens
        BY <3>2 DEF Screens
      <4>2. a \in Wired
        BY <1>9
      <4>3. TelnetOut!Show(Screen(u), a) = [text |-> u, first |-> a]
        BY <3>2, <4>2, ShowIs
      <4>4. terminal[Screen(u)][a] = [text |-> u, first |-> a]
        BY <3>2, <4>2, <4>3, TerminalType
      <4> QED
        BY <4>1, <4>4
    <3>5. \A a, b \in Wired :
             Shows(<<a, b>>, Screen(u), terminal[terminal[Screen(u)][a]][b])
      BY <3>2, TerminalType, RunTwo DEF Shows
    <3>6. CASE buffer[n] = "IAC"
      <4> DEFINE v == [text |-> u, first |-> "IAC"]
      <4>1. v \in Screens /\ terminal[Screen(u)]["IAC"] = v /\ v.text = u /\ v.first = "IAC"
        BY <3>4
      <4> HIDE DEF v
      <4>2. terminal[v]["IAC"] = Screen(Append(u, "IAC"))
        BY <1>9, <4>1, ShowIs, TerminalType
      <4>3. upto[n] = n /\ form(n) = <<"IAC", "IAC">>
        BY <1>1, <1>6, <1>7, <3>6 DEF TelnetOut!Form
      <4> QED
        BY <1>9, <3>1, <3>3, <3>5, <3>6, <4>1, <4>2, <4>3 DEF u
    <3>7. CASE buffer[n] = "CR"
      <4> DEFINE v == [text |-> u, first |-> "CR"]
      <4>1. v \in Screens /\ terminal[Screen(u)]["CR"] = v /\ v.text = u /\ v.first = "CR"
        BY <3>4
      <4> HIDE DEF v
      <4>2. CASE n \in pair
        <5>1. upto[n] = n + 1 /\ buffer[n + 1] = "LF" /\ n + 1 \in 1..N /\ (n + 1) - 1 = n
          BY <1>1, <1>6, <1>7, <4>2
        <5>2. form(n) = <<"CR", "LF">>
          BY <1>7, <3>7, <4>2 DEF TelnetOut!Form
        <5>3. terminal[v]["LF"] = Screen(Append(Append(u, "CR"), "LF"))
          BY <1>9, <4>1, ShowIs, TerminalType
        <5>4. after[n + 1] = Append(Append(u, "CR"), "LF")
          BY <1>4, <3>3, <3>7, <5>1
        <5> QED
          BY <1>9, <3>1, <3>5, <4>1, <5>1, <5>2, <5>3, <5>4 DEF u
      <4>3. CASE n \notin pair
        <5>1. upto[n] = n
          BY <1>1, <1>6, <4>3
        <5>2. form(n) = <<"CR", "NUL">>
          BY <1>7, <3>7, <4>3 DEF TelnetOut!Form
        <5>3. terminal[v]["NUL"] = Screen(Append(u, "CR"))
          BY <1>9, <4>1, ShowIs, TerminalType
        <5> QED
          BY <1>9, <3>1, <3>3, <3>5, <3>7, <4>1, <5>1, <5>2, <5>3 DEF u
      <4> QED
        BY <4>2, <4>3
    <3>8. CASE buffer[n] \notin {"IAC", "CR"}
      <4>1. upto[n] = n
        BY <1>1, <1>6, <1>7, <3>8
      <4>2. form(n) = <<buffer[n]>>
        BY <3>1, <3>8 DEF TelnetOut!Form
      <4>3. terminal[Screen(u)][buffer[n]] = Screen(Append(u, buffer[n]))
        BY <3>2, <3>3, <3>8, ShowIs, TerminalType
      <4>4. Shows(<<buffer[n]>>, Screen(u), terminal[Screen(u)][buffer[n]])
        BY <3>2, <3>3, TerminalType, RunOne DEF Shows
      <4> QED
        BY <3>1, <3>3, <4>1, <4>2, <4>3, <4>4 DEF u
    <3> QED
      BY <3>6, <3>7, <3>8
  <2> QED
    BY <2>1, <2>2
<1>11. ASSUME NEW n \in 1..N PROVE form(n) \in Seq(Wired)
  BY FormType DEF Wires
<1> HIDE DEF form
<1>12. Shows(f[N], Screen(s), Screen(after[upto[N]]))
  <2> DEFINE S == {n \in 0..N : Shows(f[n], Screen(s), Screen(after[upto[n]]))}
  <2>1. 0 \in S
    <3>1. Screen(s) \in Screens
      BY <1>3, <1>9 DEF Screen, Screens
    <3>2. Shows(f[0], Screen(s), Screen(s))
      BY <1>2, <3>1, RunNothing DEF Shows
    <3> QED
      BY <1>1, <1>3, <1>6, <3>2
  <2>2. ASSUME NEW n \in 1..N, n - 1 \in S PROVE n \in S
    <3>1. n \in 0..N /\ n - 1 \in 0..N /\ f[n] = f[n - 1] \o form(n)
      BY <1>1, <1>2
    <3>2. f[n - 1] \in Seq(Wired) /\ form(n) \in Seq(Wired)
      BY <1>2, <1>11, <3>1 DEF Wires
    <3>3. Shows(f[n - 1], Screen(s), Screen(after[upto[n - 1]]))
      BY <2>2
    <3>4. Shows(form(n), Screen(after[upto[n - 1]]), Screen(after[upto[n]]))
      BY <1>10
    <3> DEFINE a == Screen(s)
               m == Screen(after[upto[n - 1]])
               z == Screen(after[upto[n]])
    <3> HIDE DEF a, m, z
    <3>5. Run(Screens, terminal, f[n - 1] \o form(n), a, z)
      BY <3>2, <3>3, <3>4, RunOn DEF Shows, a, m, z
    <3> QED
      BY <3>1, <3>5 DEF Shows, a, z
  <2> HIDE DEF S
  <2>3. 0..N \subseteq S
    BY <1>1, <2>1, <2>2, Induction
  <2>4. N \in S
    BY <1>1, <2>3
  <2> QED
    BY <2>4 DEF S
<1>13. f[N] \in Wires
  BY <1>1, <1>2
<1> QED
  BY <1>2, <1>3, <1>6, <1>12, <1>13, ConcatProperties

---------------------------------------------------------------------------
(* The sender.                                                             *)

\* What has not been written makes the terminal show the text; once a buffer
\* has been given up, and until the next is begun, it shows a part.
SenderInv ==
    /\ text \in Seq(TelnetOut!Bytes) /\ pending \in Wires /\ wire \in Wires
    /\ count \in 0..Buffers /\ sendFailed \in 0..count
    /\ count = 0 => pending = << >>
    /\ sendFailed = 0 => Shows(pending, TelnetOut!Shown(wire), Screen(text))
    /\ sendFailed # 0 /\ sendFailed = count =>
          pending = << >> /\ Starts(TelnetOut!Shown(wire).text, text)

LEMMA TextIs ==
    ASSUME text \in Seq(TelnetOut!Bytes)
    PROVE  text \in Wires /\ Screen(text) \in Screens /\ Screen(text).text = text
           /\ Screen(text).first = "none"
<1>1. text \in Wires
  BY SeqMonotonic DEF Wires, Wired
<1> QED
  BY <1>1 DEF Screen, Screens

\* What is shown stays the start of what will be shown.
LEMMA ShowsStart ==
    ASSUME NEW q \in Wires, NEW v \in Screens, NEW e, Shows(q, v, e)
    PROVE  Starts(v.text, e.text)
<1> DEFINE W == {w \in Screens : Starts(v.text, w.text)}
<1>1. v.text \in Wires /\ Len(v.text) \in Nat
  BY LenProperties DEF Screens, Wires
<1>2. v \in W
  BY <1>1 DEF Starts
<1>3. ASSUME NEW s \in Wires, NEW c \in Wired, Starts(v.text, s)
      PROVE  Append(s, c) \in Wires /\ Starts(v.text, Append(s, c))
  <2>1. /\ Append(s, c) \in Seq(Wired) /\ Len(Append(s, c)) = Len(s) + 1
        /\ \A i \in 1..Len(s) : Append(s, c)[i] = s[i]
    BY AppendProperties DEF Wires
  <2>2. Len(s) \in Nat
    BY LenProperties DEF Wires
  <2> QED
    BY <1>1, <1>3, <2>1, <2>2 DEF Starts, Wires
<1>4. ASSUME NEW w \in Screens, Starts(v.text, w.text), NEW b \in Wired
      PROVE  terminal[w][b] \in W
  <2>1. w.text \in Wires /\ w.first \in {"none", "IAC", "CR"} /\ "CR" \in Wired
    BY DEF Screens, Wired, TelnetOut!Bytes
  <2>2. /\ Starts(v.text, Append(w.text, b)) /\ Starts(v.text, Append(w.text, "CR"))
        /\ Starts(v.text, Append(Append(w.text, "CR"), b))
    BY <1>3, <1>4, <2>1
  <2>3. terminal[w][b] = TelnetOut!Show(w, b) /\ terminal[w][b] \in Screens
    BY TerminalType
  <2>4. Starts(v.text, TelnetOut!Show(w, b).text)
    <3>1. \A s : Screen(s).text = s
      BY DEF Screen
    <3>2. CASE w.first = "IAC"
      BY <2>2, <3>1, <3>2, ShowIs
    <3>3. CASE w.first = "CR"
      BY <2>2, <3>1, <3>3, ShowIs
    <3>4. CASE w.first = "none"
      BY <1>4, <2>2, <3>1, <3>4, ShowIs
    <3> QED
      BY <2>1, <3>2, <3>3, <3>4
  <2> QED
    BY <2>3, <2>4
<1>5. \A w \in W \intersect Screens, b \in Wired : terminal[w][b] \in W
  BY <1>4
<1> HIDE DEF W
<1>6. e \in W
  BY <1>2, <1>5, RunWithin DEF Shows, Wires
<1> QED
  BY <1>6 DEF W

LEMMA SenderInvInit ==
    ASSUME TelnetOut!Init, Buffers \in Nat
    PROVE  SenderInv
<1>1. << >> \in Seq(TelnetOut!Bytes) /\ << >> \in Wires
  BY EmptySeq DEF Wires
<1>2. TelnetOut!Shown(<< >>) = Screen(<< >>)
  BY <1>1, BlankIs, ShownIs, RunNothing DEF Shows
<1>3. Shows(<< >>, Screen(<< >>), Screen(<< >>))
  BY BlankIs, RunNothing DEF Shows
<1>4. /\ text = << >> /\ pending = << >> /\ wire = << >> /\ count = 0 /\ sendFailed = 0
  BY DEF TelnetOut!Init
<1> QED
  BY <1>1, <1>2, <1>3, <1>4 DEF SenderInv

LEMMA SenderInvStep ==
    ASSUME SenderInv, TelnetOut!Next, TextMax \in Nat, Buffers \in Nat
    PROVE  SenderInv'
<1>1. ASSUME NEW buffer \in TelnetOut!Texts, TelnetOut!Begin(buffer) PROVE SenderInv'
  <2>1. /\ pending = << >> /\ count < Buffers /\ pending' = TelnetOut!Encode(buffer)
        /\ text' = text \o buffer /\ count' = count + 1 /\ wire' = wire /\ sendFailed' = sendFailed
    BY <1>1 DEF TelnetOut!Begin
  <2>2. buffer \in Seq(TelnetOut!Bytes)
    BY DEF TelnetOut!Texts
  <2>3. /\ text' \in Seq(TelnetOut!Bytes) /\ pending' \in Wires
        /\ Shows(pending', Screen(text), Screen(text'))
    BY <2>1, <2>2, EncodeShows DEF SenderInv
  <2>4. count' \in 0..Buffers /\ sendFailed' \in 0..count' /\ count' # 0
        /\ ~(sendFailed' # 0 /\ sendFailed' = count')
    BY <2>1 DEF SenderInv
  <2>5. sendFailed = 0 => TelnetOut!Shown(wire) = Screen(text)
    BY <2>1, ShownIs, RunNothing DEF SenderInv, Shows
  <2>6. sendFailed' = 0 => Shows(pending', TelnetOut!Shown(wire'), Screen(text'))
    BY <2>1, <2>3, <2>5
  <2> QED
    BY <2>1, <2>3, <2>4, <2>6 DEF SenderInv
<1>2. ASSUME NEW n \in 1..(2 * TextMax), TelnetOut!SendSome(n) PROVE SenderInv'
  <2> DEFINE a == SubSeq(pending, 1, n)
             c == SubSeq(pending, n + 1, Len(pending))
  <2>1. /\ n <= Len(pending) /\ wire' = wire \o a /\ pending' = c
        /\ text' = text /\ count' = count /\ sendFailed' = sendFailed
    BY <1>2 DEF TelnetOut!SendSome
  <2>2. n \in 0..Len(pending) /\ n # 0 /\ Len(pending) \in Nat
    BY <2>1, LenProperties DEF SenderInv, Wires
  <2>3. a \in Wires /\ c \in Wires /\ wire \in Wires
    <3>1. \A i \in 1..Len(pending) : pending[i] \in Wired
      BY ElementOfSeq DEF SenderInv, Wires
    <3>2. /\ \A i \in 1..n : pending[i] \in Wired
          /\ \A i \in (n + 1)..Len(pending) : pending[i] \in Wired
      BY <2>2, <3>1
    <3> QED
      BY <2>2, <3>2, SubSeqProperties DEF SenderInv, Wires
  <2>4. wire' \in Wires
    BY <2>1, <2>3, ConcatProperties DEF Wires
  <2>5. pending # << >>
    BY <2>1, <2>2, EmptySeq
  <2>6. ASSUME sendFailed = 0 PROVE Shows(pending', TelnetOut!Shown(wire'), Screen(text'))
    <3> DEFINE v == TelnetOut!Shown(wire)
               e == Screen(text)
    <3>1. v \in Screens /\ Shows(wire, TelnetOut!Blank, v) /\ Shows(pending, v, e)
      BY <2>3, <2>6, ShownIs DEF SenderInv
    <3> HIDE DEF v, e
    <3>2. \E m \in Screens : /\ Run(Screens, terminal, SubSeq(pending, 1, n), v, m)
                             /\ Run(Screens, terminal, SubSeq(pending, n + 1, Len(pending)), m, e)
      BY <2>2, <3>1, RunApart DEF SenderInv, Wires, Shows
    <3>3. PICK m \in Screens : Shows(a, v, m) /\ Shows(c, m, e)
      BY <3>2 DEF Shows
    <3> HIDE DEF a, c
    <3>4. Shows(wire', TelnetOut!Blank, m)
      BY <2>1, <2>3, <3>1, <3>3, RunOn DEF Shows, Wires
    <3>5. Shows(wire', TelnetOut!Blank, TelnetOut!Shown(wire'))
      BY <2>4, ShownIs
    <3>6. m = TelnetOut!Shown(wire')
      BY <2>4, <3>4, <3>5, LenProperties, RunOnce DEF Shows, Wires
    <3> QED
      BY <2>1, <3>3, <3>6 DEF e
  <2> HIDE DEF a, c
  <2> QED
    BY <2>1, <2>3, <2>4, <2>5, <2>6 DEF SenderInv
<1>3. CASE TelnetOut!TryAgain
  BY <1>3 DEF TelnetOut!TryAgain, TelnetOut!vars, SenderInv
<1>4. CASE TelnetOut!GiveUp
  <2>1. /\ pending # << >> /\ pending' = << >>
        /\ sendFailed' = (IF sendFailed = 0 THEN count ELSE sendFailed)
        /\ text' = text /\ wire' = wire /\ count' = count
    BY <1>4 DEF TelnetOut!GiveUp
  <2>2. sendFailed = 0 => Starts(TelnetOut!Shown(wire).text, text)
    BY ShownIs, ShowsStart, TextIs DEF SenderInv
  <2>3. << >> \in Wires
    BY EmptySeq DEF Wires
  <2> QED
    BY <2>1, <2>2, <2>3 DEF SenderInv
<1> QED
  BY <1>1, <1>2, <1>3, <1>4 DEF TelnetOut!Next

LEMMA TextIsShown ==
    ASSUME SenderInv
    PROVE  TelnetOut!TerminalShowsText
<1>1. /\ text \in Wires /\ Screen(text).text = text /\ Screen(text).first = "none"
      /\ TelnetOut!Shown(wire) \in Screens
  BY ShownIs, TextIs DEF SenderInv
<1>2. TelnetOut!Shown(wire).text \in Wires
  BY <1>1 DEF Screens
<1>3. sendFailed \in {0, count} => Starts(TelnetOut!Shown(wire).text, text)
  BY <1>1, ShowsStart DEF SenderInv
<1>4. sendFailed \in {0, count} => TelnetOut!IsPrefix(TelnetOut!Shown(wire).text, text)
  BY <1>1, <1>2, <1>3, PrefixStarts DEF Wires
<1>5. sendFailed = 0 /\ pending = << >> => TelnetOut!Shown(wire) = Screen(text)
  BY <1>1, RunNothing DEF SenderInv, Shows
<1> QED
  BY <1>1, <1>4, <1>5 DEF TelnetOut!TerminalShowsText

\* What a run keeps of the two directions of the socket.
LEMMA TelnetKeeps == LineSpec => [](ReaderInv /\ SenderInv)
<1> DEFINE Both == ReaderInv /\ SenderInv
<1>0. MaxForms \in Nat /\ TextMax \in Nat /\ Buffers \in Nat
  BY LineAssumption DEF TelnetIn!TelnetAssumption, TelnetOut!OutputAssumption
<1>1. LineInit => Both
  BY <1>0, ReaderInvInit, SenderInvInit DEF LineInit
<1>2. Both /\ [LineNext]_lineVars => Both'
  <2> SUFFICES ASSUME Both, [LineNext]_lineVars
               PROVE  Both'
    OBVIOUS
  <2>1. ReaderInv'
    <3>1. CASE UNCHANGED telnetInVars
      BY <3>1 DEF telnetInVars, ReaderInv, TelnetIn!TypeOK, Foretold, Now
    <3> QED
      BY <1>0, <3>1, TelnetInMoves, ReaderInvStep
  <2>2. SenderInv'
    <3>1. CASE UNCHANGED telnetOutVars
      BY <3>1 DEF telnetOutVars, SenderInv
    <3> QED
      BY <1>0, <3>1, TelnetOutMoves, SenderInvStep
  <2> QED
    BY <2>1, <2>2
<1> QED
  BY <1>1, <1>2, PTL DEF LineSpec

\* TelnetIsTransparent: unless a call failed the keys that are pressed are read,
\* in order and unchanged, whatever commands are among them and wherever they
\* are cut; and the terminal shows what is sent, however the socket cuts it, up
\* to a buffer that is given up (ODCom.c:2979-3128, 3826-3889, 4110-4170). For
\* any number of forms and buffers of any length.
THEOREM TelnetCarriesAll == LineSpec => []TelnetIsTransparent
<1>1. ReaderInv /\ SenderInv => TelnetIsTransparent
  BY Survives, TextIsShown DEF TelnetIsTransparent
<1> QED
  BY <1>1, TelnetKeeps, PTL

---------------------------------------------------------------------------
(* What the variables hold.                                                *)

\* The bytes held fit the buffer until something is written past its end.
LEMMA KeysTypeStep ==
    ASSUME KeysInv, KeysInv', Keys!TypeOK, Keys!KeysNext
    PROVE  Keys!TypeOK'
<1> DEFINE Byte == Keys!Remote \ {"NUL"}
           a == szCurrentSequence
<1> USE DEF Keys!held
<1>0. /\ a \in Seq(Byte) /\ queue \in Seq(Keys!Events)
      /\ Len(a) \in Nat /\ SEQUENCE_BUFFER_SIZE \in Nat /\ SEQUENCE_BUFFER_SIZE > 1
      /\ ~overrun => Len(a) < SEQUENCE_BUFFER_SIZE
  <2>1. /\ a \in Seq(Byte) /\ queue \in Seq(Keys!Events)
        /\ ~overrun => Len(a) < SEQUENCE_BUFFER_SIZE
    BY DEF Keys!TypeOK
  <2>2. SEQUENCE_BUFFER_SIZE > 1
    <3>1. \A key \in Keys!Table : Len(key) < SEQUENCE_BUFFER_SIZE
      BY LineAssumption DEF Keys!KeysAssumption
    <3>2. <<"^V">> \in Keys!Table /\ Len(<<"^V">>) = 1
      BY DEF Keys!Table
    <3> QED
      BY <3>1, <3>2
  <2> QED
    BY <2>1, <2>2, LenProperties, LineAssumption DEF Keys!KeysAssumption
<1>1. /\ queue' \in Seq(Keys!Events) /\ a' \in Seq(Keys!Remote)
      /\ {bDoorwaySequence, bDoorwaySequencePending, overrun}' \subseteq BOOLEAN
      /\ call' \in [at : {"idle", "first", "look", "more"}, flags : Modes \cup {"normal"},
                    limited : BOOLEAN]
  BY DEF KeysInv, KeysTypes, Calls
<1> DEFINE HeldFit == a' \in Seq(Byte) /\ (~overrun' => Len(a') < SEQUENCE_BUFFER_SIZE)
<1>2. SUFFICES HeldFit
  BY <1>1, <1>2 DEF Keys!TypeOK
<1> HIDE DEF Byte
<1>3. ASSUME NEW n \in 0..Len(a), a' = SubSeq(a, n + 1, Len(a)), overrun' = overrun
      PROVE  HeldFit
  <2>1. a' \in Seq(Byte) /\ Len(a') = Len(a) - n
    BY <1>0, <1>3, SubSeqProperties
  <2> QED
    BY <1>0, <1>3, <2>1
<1>4. ASSUME a' = a, overrun' = overrun
      PROVE  HeldFit
  BY <1>0, <1>4
<1>5. ASSUME NEW bytes, NEW far, Keys!Type(bytes, far)
      PROVE  HeldFit
  BY <1>4, <1>5 DEF Keys!Type
<1>6. CASE Keys!First
  <2> DEFINE b == Head(queue).byte
  <2>1. /\ a = << >> /\ queue # << >> /\ overrun' = overrun
        /\ a' = a \/ (a' = <<b>> /\ b # "NUL")
    BY <1>6 DEF Keys!First, KeysInv
  <2>2. b \in Keys!Remote
    BY <2>1, QueueHead DEF KeysInv
  <2> HIDE DEF b
  <2>3. CASE a' = a
    BY <1>4, <2>1, <2>3
  <2>4. CASE a' = <<b>> /\ b # "NUL"
    <3>1. b \in Byte
      BY <2>2, <2>4 DEF Byte
    <3>2. a' \in Seq(Byte) /\ Len(a') = 1
      BY <2>4, <3>1
    <3> QED
      BY <1>0, <2>1, <3>2
  <2> QED
    BY <2>1, <2>3, <2>4
<1>7. CASE Keys!Look
  <2> DEFINE key == Keys!GetCodeIfLongest(a)
  <2>0. key # << >> => Len(key) \in 0..Len(a)
    <3>1. key # << >> => key = Keys!LongestFullCode(a)
      BY DEF Keys!GetCodeIfLongest
    <3>2. LET code == Keys!LongestFullCode(a) IN code # << >> => Len(code) \in 1..Len(a)
      BY FullCode DEF KeysInv, KeysTypes
    <3> HIDE DEF key
    <3> QED
      BY <1>0, <3>1, <3>2
  <2> HIDE DEF key
  <2>1. /\ overrun' = overrun
        /\ \/ a' = SubSeq(a, 1 + 1, Len(a)) /\ ~bDoorwaySequence
           \/ key # << >> /\ a' = SubSeq(a, Len(key) + 1, Len(a))
           \/ a' = a
    BY <1>7 DEF Keys!Look, Keys!ShiftSeq, key
  <2>2. ~bDoorwaySequence => 1 \in 0..Len(a)
    BY <1>0, <1>7, EmptySeq DEF Keys!Look, KeysInv
  <2> QED
    BY <1>3, <1>4, <2>0, <2>1, <2>2
<1>8. CASE Keys!Extend
  <2> DEFINE b == Keys!NextKey.byte
             bytes == Append(a, b)
             key == Keys!GetCodeIfLongest(bytes)
  <2>1. /\ queue # << >> /\ b # "NUL"
        /\ a' = SubSeq(bytes, Len(key) + 1, Len(bytes))
        /\ ~overrun' => ~(Len(bytes) >= SEQUENCE_BUFFER_SIZE)
    BY <1>8 DEF Keys!Extend, Keys!MoreToCome
  <2>2. b \in Byte
    BY <2>1, QueueHead DEF Keys!NextKey, KeysInv, Byte
  <2> HIDE DEF b
  <2>3. bytes \in Seq(Byte) /\ bytes \in Seq(Keys!Remote) /\ Len(bytes) = Len(a) + 1
    BY <1>0, <2>2 DEF Byte
  <2>4. key # << >> => Len(key) \in 1..Len(bytes)
    <3>1. key # << >> => key = Keys!LongestFullCode(bytes)
      BY DEF Keys!GetCodeIfLongest
    <3>2. LET code == Keys!LongestFullCode(bytes)
          IN  code # << >> => Len(code) \in 1..Len(bytes)
      BY <2>3, FullCode DEF KeysInv
    <3> HIDE DEF key, bytes
    <3> QED
      BY <3>1, <3>2
  <2> HIDE DEF key, bytes
  <2>5. Len(key) \in 0..Len(bytes)
    BY <1>0, <2>3, <2>4
  <2>6. a' \in Seq(Byte) /\ Len(a') = Len(bytes) - Len(key)
    BY <2>1, <2>3, <2>5, SubSeqProperties
  <2> QED
    BY <1>0, <2>1, <2>3, <2>5, <2>6
<1>9. CASE Keys!Settle
  <2> DEFINE key == Keys!LongestFullCode(a)
  <2>0. key # << >> => Len(key) \in 0..Len(a)
    BY <1>0, FullCode DEF KeysInv, KeysTypes
  <2> HIDE DEF key
  <2>1. /\ overrun' = overrun
        /\ \/ a' = SubSeq(a, 1 + 1, Len(a)) /\ ~bDoorwaySequence
           \/ key # << >> /\ a' = SubSeq(a, Len(key) + 1, Len(a))
           \/ a' = a
    BY <1>9 DEF Keys!Settle, Keys!ShiftSeq, key
  <2>2. ~bDoorwaySequence => 1 \in 0..Len(a)
    BY <1>0, <1>9, EmptySeq DEF Keys!Settle, KeysInv
  <2> QED
    BY <1>3, <1>4, <2>0, <2>1, <2>2
<1>10. CASE \/ Keys!Clear \/ Keys!NoInput \/ Keys!CompleteDoorway \/ Keys!PostponeDoorway
            \/ Keys!ReturnLocal \/ \E flags \in Modes, limited \in BOOLEAN : Keys!Call(flags, limited)
  BY <1>4, <1>10 DEF Keys!Clear, Keys!NoInput, Keys!CompleteDoorway, Keys!PostponeDoorway,
     Keys!ReturnLocal, Keys!Call, Keys!MoreToCome
<1> QED
  BY <1>5, <1>6, <1>7, <1>8, <1>9, <1>10 DEF Keys!KeysNext

\* A ring's in index, which is one of its places.
LEMMA InIndex ==
    ASSUME NEW N \in Nat \ {0}, NEW o \in 0..(N - 1), NEW n \in 0..N
    PROVE  At(o + n, N) \in 0..(N - 1)
<1>1. o + n \in Int /\ 0 <= (o + n) + N /\ o + n < 2 * N
  OBVIOUS
<1> QED
  BY <1>1, Around

\* The indices, counts and bytes of the ring are those of RxRing and FlowTypes.
LEMMA ReceiveTypeStep ==
    ASSUME RxRing, FlowTypes, RxRing', FlowTypes', Receive!TypeOK, Receive!Next
    PROVE  Receive!TypeOK'
<1> DEFINE S == 0..(Numbers - 1)
           Doors == {"idle", "waiting", "take", "taken", "raise"}
<1>1. /\ rxLast \in S /\ held \in BOOLEAN /\ rxDoor \in Doors
      /\ pbtRXQueue \in [0..(RXQueueSize - 1) -> S] /\ RXQueueSize \in Nat \ {0}
      /\ nRXOutIndex \in 0..(RXQueueSize - 1) /\ nRXChars \in 0..RXQueueSize
  BY DEF Receive!TypeOK, Receive!Bytes, RxRing, IsRing
<1>2. \A n \in Int : At(nRXOutIndex + n - 1, RXQueueSize) \in 0..(RXQueueSize - 1)
  BY <1>1 DEF At
<1>3. ASSUME NEW n \in Int, Receive!Remove(n)
      PROVE  rxLast' \in S
  BY <1>1, <1>2, <1>3 DEF Receive!Remove, At
<1> HIDE DEF S, Doors
<1>4. rxLast' \in S
  <2>1. CASE Receive!TakeByte
    BY <1>3, <2>1 DEF Receive!TakeByte
  <2>2. CASE \E size \in 1..ReadMax : Receive!GetBuffer(size)
    BY <1>1, <1>3, <2>2 DEF Receive!GetBuffer
  <2>3. CASE UNCHANGED rxLast
    BY <1>1, <2>3
  <2> QED
    BY <2>1, <2>2, <2>3 DEF Receive!Next, Receive!Door, Receive!ReceiveData, Receive!Arrive,
       Receive!BeginGetByte, Receive!SeeByte, Receive!CallIdle, Receive!SeeLow, Receive!RaiseRTS,
       Receive!ClearInbound, Receive!vars
<1>5. held' \in BOOLEAN /\ rxDoor' \in Doors
  BY <1>1 DEF Receive!Next, Receive!Door, Receive!ReceiveData, Receive!Arrive,
     Receive!BeginGetByte, Receive!SeeByte, Receive!CallIdle, Receive!SeeLow, Receive!RaiseRTS,
     Receive!ClearInbound, Receive!GetBuffer, Receive!TakeByte, Receive!vars, Doors
<1>6. nRXInIndex' \in 0..(RXQueueSize - 1)
  <2>1. /\ RXQueueSize \in Nat \ {0} /\ nRXInIndex' = At(nRXOutIndex' + nRXChars', RXQueueSize)
        /\ nRXOutIndex' \in 0..(RXQueueSize - 1) /\ nRXChars' \in 0..RXQueueSize
    BY DEF RxRing, IsRing
  <2> QED
    BY <2>1, InIndex
<1> QED
  BY <1>4, <1>5, <1>6 DEF Receive!TypeOK, Receive!Bytes, RxRing, IsRing, FlowTypes, S, Doors

\* What TxRing does not say of the transmitter's variables.
TransmitTypes ==
    /\ {bStopTrans, txFlowControl, thre, emptied, holding, shifting, cts, dcts} \subseteq BOOLEAN
    /\ txDoor \in {"idle", "byte", "room", "buffer", "drain", "status", "drained"}
    /\ left \in 0..BufferMax /\ txLast \in 0..(Numbers - 1)

LEMMA TransmitTypeStep ==
    ASSUME TxRing, TransmitTypes, Transmit!Next
    PROVE  TransmitTypes'
<1> USE DEF Transmit!ring, Transmit!modem, Transmit!line, Transmit!call
<1> DEFINE Doors == {"idle", "byte", "room", "buffer", "drain", "status", "drained"}
           Flags == {bStopTrans, txFlowControl, thre, emptied, holding, shifting, cts, dcts}
<1>1. /\ bStopTrans \in BOOLEAN /\ txFlowControl \in BOOLEAN /\ thre \in BOOLEAN
      /\ emptied \in BOOLEAN /\ holding \in BOOLEAN /\ shifting \in BOOLEAN
      /\ cts \in BOOLEAN /\ dcts \in BOOLEAN /\ txDoor \in Doors
      /\ left \in 0..BufferMax /\ txLast \in 0..(Numbers - 1) /\ BufferMax \in Nat
      /\ TXQueueSize \in Nat /\ nTXChars \in 0..TXQueueSize
      /\ nTXOutIndex \in 0..(TXQueueSize - 1)
      /\ pbtTXQueue \in [0..(TXQueueSize - 1) -> 0..(Numbers - 1)]
  BY LineAssumption DEF TransmitTypes, TxRing, IsRing, Transmit!TransmitAssumption
<1>2. SUFFICES
        /\ bStopTrans' \in BOOLEAN /\ txFlowControl' \in BOOLEAN /\ thre' \in BOOLEAN
        /\ emptied' \in BOOLEAN /\ holding' \in BOOLEAN /\ shifting' \in BOOLEAN
        /\ cts' \in BOOLEAN /\ dcts' \in BOOLEAN /\ txDoor' \in Doors
        /\ left' \in 0..BufferMax /\ txLast' \in 0..(Numbers - 1)
  BY <1>2 DEF TransmitTypes
<1>3. CASE Transmit!Door
  <2>1. CASE Transmit!CopyBuffer
    <3>1. Transmit!Fitting \in 0..left
      BY <1>1 DEF Transmit!Fitting
    <3>2. left' \in 0..BufferMax
      BY <1>1, <2>1, <3>1 DEF Transmit!CopyBuffer
    <3> HIDE DEF Doors
    <3>3. txDoor' \in {"idle", "buffer"}
      BY <2>1 DEF Transmit!CopyBuffer
    <3> QED
      BY <1>1, <2>1, <3>2, <3>3 DEF Transmit!CopyBuffer, Transmit!EnableTransmit, Doors
  <2>2. CASE Transmit!BeginSendBuffer
    BY <1>1, <2>2 DEF Transmit!BeginSendBuffer
  <2>3. CASE Transmit!StoreByte \/ Transmit!ClearOutbound
    BY <1>1, <2>3 DEF Transmit!StoreByte, Transmit!EnableTransmit, Transmit!ClearOutbound
  <2>4. CASE \/ Transmit!BeginSendByte \/ Transmit!SeeRoom \/ Transmit!BeginDrain
             \/ Transmit!SeeRingEmpty \/ Transmit!SeeLineStatus \/ Transmit!EndDrain
             \/ Transmit!DrainTimeout
    BY <1>1, <2>4 DEF Transmit!BeginSendByte, Transmit!SeeRoom, Transmit!BeginDrain,
       Transmit!SeeRingEmpty, Transmit!SeeLineStatus, Transmit!EndDrain, Transmit!DrainTimeout
  <2> QED
    BY <1>3, <2>1, <2>2, <2>3, <2>4 DEF Transmit!Door
<1>4. CASE Transmit!Hardware
  BY <1>1, <1>4 DEF Transmit!Hardware, Transmit!Shift, Transmit!SignalEarly, Transmit!ShiftOut,
     Transmit!ChangeCTS
<1>5. CASE Transmit!TurnOff \/ Transmit!ModemStatus
  BY <1>1, <1>5 DEF Transmit!TurnOff, Transmit!ModemStatus, Transmit!EnableTransmit
<1>6. CASE Transmit!Load
  <2>1. txLast' \in 0..(Numbers - 1)
    BY <1>1, <1>6 DEF Transmit!Load
  <2> QED
    BY <1>1, <1>6, <2>1 DEF Transmit!Load
<1> QED
  BY <1>3, <1>4, <1>5, <1>6 DEF Transmit!Next, Transmit!Interrupt

---------------------------------------------------------------------------

\* What a run keeps of each part's types.
LEMMA QueueMoves ==
    ASSUME [LineNext]_lineVars
    PROVE  [Next]_vars
BY DEF LineNext, ReceiveStep, Transmits, TransmitStep, TelnetInStep, TelnetOutStep, QueueStep,
   KeysStep, PortStep, lineVars

LEMMA QueueHolds == LineSpec => []TypeOK
<1>1. LineInit => RingInv
  BY RingInit DEF LineInit
<1>2. RingInv /\ [LineNext]_lineVars => RingInv'
  BY QueueMoves, RingStep, RingStutter
<1>3. RingInv => TypeOK
  BY DEF RingInv
<1> QED
  BY <1>1, <1>2, <1>3, PTL DEF LineSpec

LEMMA ReceiveHolds == LineSpec => []Receive!TypeOK
<1> DEFINE All == RxRing /\ FlowInv /\ Receive!TypeOK
<1>1. LineInit => All
  <2> SUFFICES ASSUME LineInit PROVE All
    OBVIOUS
  <2>1. FlowInv /\ RxRing /\ Receive!Init
    BY LineStarts, FlowInvInit, RingsStart
  <2>2. Numbers \in Nat /\ Numbers > 1 /\ RXQueueSize \in Nat \ {0}
    BY LineAssumption DEF Receive!ReceiveAssumption
  <2>3. /\ held \in BOOLEAN /\ rxDoor = "idle" /\ rxLast \in 0..(Numbers - 1)
        /\ nRXInIndex = 0 /\ 0 \in 0..(RXQueueSize - 1)
    <3>1. held = FALSE /\ rxDoor = "idle" /\ rxLast = Numbers - 1 /\ nRXInIndex = 0
      BY <2>1 DEF Receive!Init
    <3>2. Numbers - 1 \in 0..(Numbers - 1) /\ 0 \in 0..(RXQueueSize - 1)
      BY <2>2
    <3> QED
      BY <3>1, <3>2
  <2>4. Receive!TypeOK
    BY <2>1, <2>3 DEF FlowInv, FlowTypes, Receive!TypeOK, Receive!Bytes, RxRing, IsRing
  <2> QED
    BY <2>1, <2>4
<1>2. All /\ [LineNext]_lineVars => All'
  <2> SUFFICES ASSUME All, [LineNext]_lineVars PROVE All'
    OBVIOUS
  <2>1. CASE Receive!Next
    <3>1. RxRing' /\ FlowInv'
      BY <2>1, RxRingStep, FlowInvStep
    <3>2. FlowTypes /\ FlowTypes'
      BY <3>1 DEF FlowInv
    <3> QED
      BY <2>1, <3>1, <3>2, ReceiveTypeStep
  <2>2. CASE UNCHANGED receiveVars
    BY <2>2 DEF receiveVars, RxRing, FlowInv, FlowTypes, LowForCause, NothingLost, RoomWhenHigh,
       RoomWhenLow, RoomToRaise, RoomForSkid, Pending, Receive!TypeOK
  <2> QED
    BY <2>1, <2>2, ReceiveMoves
<1> QED
  BY <1>1, <1>2, PTL DEF LineSpec

LEMMA TransmitHolds == LineSpec => []Transmit!TypeOK
<1> DEFINE Both == TxRing /\ TransmitTypes
<1>1. LineInit => Both
  <2> SUFFICES ASSUME LineInit PROVE Both
    OBVIOUS
  <2>1. TxRing /\ Transmit!Init
    BY LineStarts, RingsStart
  <2>2. Numbers \in Nat /\ Numbers > 1 /\ BufferMax \in Nat
    BY LineAssumption DEF Transmit!TransmitAssumption
  <2>3. TransmitTypes
    <3>1. Numbers - 1 \in 0..(Numbers - 1) /\ 0 \in 0..BufferMax
      BY <2>2
    <3>2. /\ bStopTrans \in BOOLEAN /\ txFlowControl \in BOOLEAN /\ thre = FALSE
          /\ emptied = TRUE /\ holding = FALSE /\ shifting = FALSE /\ cts \in BOOLEAN
          /\ dcts \in BOOLEAN /\ txDoor = "idle" /\ left = 0 /\ txLast = Numbers - 1
      BY <2>1 DEF Transmit!Init
    <3> QED
      BY <3>1, <3>2 DEF TransmitTypes
  <2> QED
    BY <2>1, <2>3
<1>2. Both /\ [LineNext]_lineVars => Both'
  <2> SUFFICES ASSUME Both, [LineNext]_lineVars PROVE Both'
    OBVIOUS
  <2>1. CASE Transmit!Next
    BY <2>1, TxRingStep, TransmitTypeStep
  <2>2. CASE UNCHANGED transmitVars
    BY <2>2 DEF transmitVars, TxRing, TransmitTypes
  <2> QED
    BY <2>1, <2>2, TransmitMoves
<1>3. Both => Transmit!TypeOK
  <2> SUFFICES ASSUME Both PROVE Transmit!TypeOK
    OBVIOUS
  <2>1. /\ TXQueueSize \in Nat \ {0} /\ nTXOutIndex \in 0..(TXQueueSize - 1)
        /\ nTXChars \in 0..TXQueueSize
    BY DEF TxRing, IsRing
  <2>2. nTXInIndex \in 0..(TXQueueSize - 1)
    BY <2>1, InIndex DEF TxRing
  <2> QED
    BY <2>1, <2>2 DEF Transmit!TypeOK, Transmit!Bytes, TransmitTypes, TxRing, IsRing
<1> QED
  BY <1>1, <1>2, <1>3, PTL DEF LineSpec

LEMMA TelnetHolds == LineSpec => [](TelnetIn!TypeOK /\ TelnetOut!TypeOK)
<1>1. ReaderInv /\ SenderInv => TelnetIn!TypeOK /\ TelnetOut!TypeOK
  <2>1. ReaderInv => TelnetIn!TypeOK
    BY DEF ReaderInv
  <2>2. SenderInv => TelnetOut!TypeOK
    <3> SUFFICES ASSUME SenderInv PROVE TelnetOut!TypeOK
      OBVIOUS
    <3>1. Buffers \in Nat
      BY LineAssumption DEF TelnetOut!OutputAssumption
    <3> QED
      BY <3>1 DEF SenderInv, TelnetOut!TypeOK, Wires, Wired
  <2> QED
    BY <2>1, <2>2
<1> QED
  BY <1>1, TelnetKeeps, PTL

LEMMA KeysTyped == LineSpec => []Keys!TypeOK
<1> DEFINE Both == KeysInv /\ Keys!TypeOK
<1>1. LineInit => Both
  <2> SUFFICES ASSUME LineInit PROVE Both
    OBVIOUS
  <2>1. Keys!Init /\ KeysInv
    BY LineStarts, KeysInvInit
  <2>2. Len(<< >>) < SEQUENCE_BUFFER_SIZE
    <3>1. \A key \in Keys!Table : Len(key) < SEQUENCE_BUFFER_SIZE
      BY LineAssumption DEF Keys!KeysAssumption
    <3>2. <<"^V">> \in Keys!Table /\ Len(<<"^V">>) = 1
      BY DEF Keys!Table
    <3>3. SEQUENCE_BUFFER_SIZE \in Nat
      BY LineAssumption DEF Keys!KeysAssumption
    <3> QED
      BY <3>1, <3>2, <3>3
  <2>3. queue = << >> /\ szCurrentSequence = << >>
    BY <2>1 DEF Keys!Init
  <2>4. << >> \in Seq(Keys!Remote \ {"NUL"})
    OBVIOUS
  <2> QED
    BY <2>1, <2>2, <2>3, <2>4 DEF KeysInv, KeysTypes, Calls, Keys!TypeOK
<1>2. Both /\ [LineNext]_lineVars => Both'
  <2> SUFFICES ASSUME Both, [LineNext]_lineVars PROVE Both'
    OBVIOUS
  <2>1. CASE Keys!KeysNext
    BY <2>1, KeysInvStep, KeysTypeStep
  <2>2. CASE UNCHANGED keysVars
    BY <2>2 DEF keysVars, KeysInv, KeysTypes, BytesAccounted, Keys!BytesAccounted,
       Keys!Account, Keys!TypeOK
  <2> QED
    BY <2>1, <2>2, KeysMove
<1> QED
  BY <1>1, <1>2, PTL DEF LineSpec

\* A call that waits for more bytes holds none that it could return.
Waits ==
    call.at = "more" /\ ~bDoorwaySequence =>
        Keys!GetCodeIfLongest(szCurrentSequence) = << >>

LEMMA SameCodes ==
    ASSUME call'.flags = call.flags, NEW bytes, szCurrentSequence' = bytes
    PROVE  /\ (Keys!GetCodeIfLongest(szCurrentSequence))' = Keys!GetCodeIfLongest(bytes)
           /\ (Keys!LongestFullCode(szCurrentSequence))' = Keys!LongestFullCode(bytes)
BY DEF Keys!GetCodeIfLongest, Keys!LongestFullCode, Keys!Known

LEMMA WaitsStep ==
    ASSUME KeysInv, Waits, Keys!KeysNext
    PROVE  Waits'
<1> DEFINE a == szCurrentSequence
<1> USE DEF Keys!held
<1>0. KeysTypes /\ a \in Seq(Keys!Remote) /\ queue \in Seq(Keys!Events)
  BY DEF KeysInv, KeysTypes
<1>1. SUFFICES ASSUME call'.at = "more", ~bDoorwaySequence'
               PROVE  (Keys!GetCodeIfLongest(szCurrentSequence))' = << >>
  BY DEF Waits
<1>2. call' # Keys!Idle
  BY <1>1, CallEnds
<1>3. CASE Keys!Look
  <2> DEFINE key == Keys!GetCodeIfLongest(a)
  <2>1. a' = a /\ key = << >> /\ call' = [call EXCEPT !.at = "more"]
    <3> HIDE DEF key
    <3> QED
      BY <1>1, <1>2, <1>3 DEF Keys!Look, Keys!Return, key
  <2>2. call'.flags = call.flags
    BY <1>0, <2>1 DEF KeysTypes, Calls
  <2> QED
    BY <2>1, <2>2, SameCodes
<1>4. CASE Keys!Extend
  <2> DEFINE bytes == Append(a, Head(queue).byte)
             key == Keys!GetCodeIfLongest(bytes)
  <2>1. key = << >> /\ call' = call /\ a' = SubSeq(bytes, Len(key) + 1, Len(bytes))
    <3> HIDE DEF key
    <3> QED
      BY <1>2, <1>4 DEF Keys!Extend, Keys!NextKey, key
  <2>2. a' = bytes
    <3>1. queue # << >>
      BY <1>4 DEF Keys!Extend, Keys!MoreToCome
    <3>2. bytes \in Seq(Keys!Remote)
      BY <1>0, <3>1, QueueHead, AppendProperties
    <3> HIDE DEF bytes
    <3>3. SubSeq(bytes, 1, Len(bytes)) = bytes
      BY <3>2, SubSeqFull
    <3>4. Len(key) + 1 = 1
      BY <2>1
    <3> QED
      BY <2>1, <3>3, <3>4
  <2> QED
    BY <2>1, <2>2, SameCodes
<1>5. CASE call' = call /\ a' = a /\ bDoorwaySequence' = bDoorwaySequence
  BY <1>1, <1>5, SameCodes DEF Waits
<1>6. ASSUME NEW bytes, NEW far, Keys!Type(bytes, far)
      PROVE  call' = call /\ a' = a /\ bDoorwaySequence' = bDoorwaySequence
  BY <1>6 DEF Keys!Type
<1>7. Keys!PostponeDoorway => call' = call /\ a' = a /\ bDoorwaySequence' = bDoorwaySequence
  BY DEF Keys!PostponeDoorway
<1>8. ~Keys!Clear
  BY <1>1 DEF Keys!Clear
<1>9. ~Keys!First
  BY <1>0, <1>1, <1>2 DEF Keys!First, KeysTypes, Calls
<1>10. ~Keys!NoInput /\ ~Keys!CompleteDoorway /\ ~Keys!ReturnLocal /\ ~Keys!Settle
  BY <1>2 DEF Keys!NoInput, Keys!CompleteDoorway, Keys!ReturnLocal, Keys!Settle, Keys!Return
<1>11. \A flags, limited : ~Keys!Call(flags, limited)
  BY <1>1 DEF Keys!Call
<1> QED
  BY <1>3, <1>4, <1>5, <1>6, <1>7, <1>8, <1>9, <1>10, <1>11 DEF Keys!KeysNext

\* What a byte makes too long for the buffer begins with no key: the key would
\* be shorter, and what the call held before would have begun with it.
LEMMA TooLongForKeys ==
    ASSUME KeysTypes, NEW a \in Seq(Keys!Remote), NEW b \in Keys!Remote,
           Len(a) < SEQUENCE_BUFFER_SIZE, Len(Append(a, b)) >= SEQUENCE_BUFFER_SIZE,
           Keys!GetCodeIfLongest(a) = << >>
    PROVE  /\ Keys!GetCodeIfLongest(Append(a, b)) = << >>
           /\ Keys!LongestFullCode(Append(a, b)) = << >>
<1> DEFINE bytes == Append(a, b)
<1>1. /\ bytes \in Seq(Keys!Remote) /\ Len(bytes) = Len(a) + 1 /\ Len(a) \in Nat
      /\ \A i \in 1..Len(a) : bytes[i] = a[i]
  BY AppendProperties, LenProperties
<1>2. \A k \in Keys!Known : k \in Seq(Keys!Remote) /\ Len(k) \in Nat /\ Len(k) <= Len(a)
  <2>1. Keys!Known \subseteq Keys!Table /\ Keys!Known \subseteq Seq(Keys!Remote)
    BY KnownAreBytes, LineAssumption DEF KeysTypes, Calls, Keys!Known, Keys!KeysAssumption
  <2>2. SEQUENCE_BUFFER_SIZE \in Nat /\ \A k \in Keys!Table : Len(k) < SEQUENCE_BUFFER_SIZE
    BY LineAssumption DEF Keys!KeysAssumption
  <2>3. SEQUENCE_BUFFER_SIZE <= Len(a) + 1
    BY <1>1, <2>2
  <2>4. ASSUME NEW k \in Keys!Known
        PROVE  k \in Seq(Keys!Remote) /\ Len(k) \in Nat /\ Len(k) <= Len(a)
    <3>1. k \in Seq(Keys!Remote) /\ Len(k) \in Nat /\ Len(k) < SEQUENCE_BUFFER_SIZE
      BY <2>1, <2>2, LenProperties
    <3> QED
      BY <1>1, <2>2, <2>3, <3>1
  <2> QED
    BY <2>4
<1>3. Keys!LongestFullCode(a) = << >>
  <2>1. \A k \in Keys!Known : ~(Len(k) > Len(a))
    BY <1>1, <1>2
  <2>2. Keys!GetCodeIfLongest(a) = Keys!LongestFullCode(a)
    BY <2>1 DEF Keys!GetCodeIfLongest
  <2> QED
    BY <2>2
<1>4. \A k \in Keys!Known : ~Keys!IsPrefix(k, a)
  BY <1>3, FullCode
<1> HIDE DEF bytes
<1>5. ASSUME NEW k \in Keys!Known PROVE ~Keys!IsPrefix(k, bytes)
  <2>1. /\ Keys!IsPrefix(k, bytes) <=> Starts(k, bytes)
        /\ Keys!IsPrefix(k, a) <=> Starts(k, a)
    BY <1>1, <1>2, PrefixStarts
  <2>2. Starts(k, bytes) => Starts(k, a)
    BY <1>1, <1>2 DEF Starts
  <2> QED
    BY <1>4, <2>1, <2>2
<1>6. Keys!LongestFullCode(bytes) = << >>
  <2>1. {k \in Keys!Known : Keys!IsPrefix(k, bytes)} = {}
    BY <1>5
  <2> QED
    BY <2>1 DEF Keys!LongestFullCode
<1> QED
  BY <1>6 DEF Keys!GetCodeIfLongest, bytes

\* OnlyUnknownOverruns: only bytes that begin with no key reach past the end of
\* szCurrentSequence: keys, in any pieces, left over or cut short, are returned
\* before (ODGetIn.c:367-395, 435-447), for a buffer of any size that the keys
\* of the table fit.
THEOREM KeysFitBuffer == LineSpec => OnlyUnknownOverruns
<1> DEFINE All == KeysInv /\ Keys!TypeOK /\ Waits
           A == ~overrun /\ overrun' =>
                   call'.at = "more" /\ (Keys!LongestFullCode(szCurrentSequence))' = << >>
<1>1. LineInit => Waits
  <2>1. LineInit => call = Keys!Idle
    BY LineStarts DEF Keys!Init
  <2> QED
    BY <2>1, CallEnds DEF Waits
<1>2. KeysInv /\ Waits /\ [LineNext]_lineVars => Waits'
  <2> SUFFICES ASSUME KeysInv, Waits, [LineNext]_lineVars PROVE Waits'
    OBVIOUS
  <2>1. CASE UNCHANGED keysVars
    <3>1. call' = call /\ szCurrentSequence' = szCurrentSequence
          /\ bDoorwaySequence' = bDoorwaySequence
      BY <2>1 DEF keysVars
    <3> QED
      BY <3>1, SameCodes DEF Waits
  <2> QED
    BY <2>1, KeysMove, WaitsStep
<1>3. All /\ [LineNext]_lineVars => [A]_(Keys!keysVars)
  <2> SUFFICES ASSUME All, Keys!KeysNext, ~overrun, overrun'
               PROVE  A
    BY KeysMove DEF keysVars, Keys!keysVars
  <2>1. Keys!Extend
    <3>1. \A bytes, far : ~Keys!Type(bytes, far)
      BY DEF Keys!Type, Keys!held
    <3>2. \A flags, limited : ~Keys!Call(flags, limited)
      BY DEF Keys!Call
    <3>3. ~Keys!Clear /\ ~Keys!First /\ ~Keys!NoInput /\ ~Keys!Look
      BY DEF Keys!Clear, Keys!First, Keys!NoInput, Keys!Look, Keys!held
    <3>4. ~Keys!CompleteDoorway /\ ~Keys!PostponeDoorway /\ ~Keys!ReturnLocal /\ ~Keys!Settle
      BY DEF Keys!CompleteDoorway, Keys!PostponeDoorway, Keys!ReturnLocal, Keys!Settle, Keys!held
    <3> QED
      BY <3>1, <3>2, <3>3, <3>4 DEF Keys!KeysNext
  <2> DEFINE bytes == Append(szCurrentSequence, Head(queue).byte)
             key == Keys!GetCodeIfLongest(bytes)
  <2>2. /\ call.at = "more" /\ ~bDoorwaySequence /\ queue # << >>
        /\ Len(bytes) >= SEQUENCE_BUFFER_SIZE
        /\ key = << >> => call' = call
        /\ szCurrentSequence' = SubSeq(bytes, Len(key) + 1, Len(bytes))
    <3> HIDE DEF key
    <3> QED
      BY <2>1 DEF Keys!Extend, Keys!MoreToCome, Keys!NextKey, key
  <2>3. /\ KeysTypes /\ szCurrentSequence \in Seq(Keys!Remote) /\ Head(queue).byte \in Keys!Remote
        /\ Len(szCurrentSequence) < SEQUENCE_BUFFER_SIZE
        /\ Keys!GetCodeIfLongest(szCurrentSequence) = << >>
    BY <2>2, QueueHead DEF KeysInv, KeysTypes, Keys!TypeOK, Waits
  <2>4. key = << >> /\ Keys!LongestFullCode(bytes) = << >>
    BY <2>2, <2>3, TooLongForKeys
  <2>5. szCurrentSequence' = bytes
    <3>1. bytes \in Seq(Keys!Remote)
      BY <2>3, AppendProperties
    <3> HIDE DEF bytes
    <3>2. SubSeq(bytes, 1, Len(bytes)) = bytes
      BY <3>1, SubSeqFull
    <3>3. Len(key) + 1 = 1
      BY <2>4
    <3> QED
      BY <2>2, <3>2, <3>3
  <2> QED
    BY <2>2, <2>4, <2>5, SameCodes
<1> QED
  BY <1>1, <1>2, <1>3, KeysHold, KeysTyped, PTL
     DEF LineSpec, OnlyUnknownOverruns, Keys!OnlyUnknownOverruns

LEMMA PortTyped == LineSpec => []Port!PortTypeOK
<1>1. PortTypes => Port!PortTypeOK
  <2> SUFFICES ASSUME PortTypes PROVE Port!PortTypeOK
    OBVIOUS
  <2>1. Port!Present \in Port!Hardware
    BY DEF PortTypes, Port!Present, Port!Hardware
  <2> QED
    BY <2>1 DEF PortTypes, Port!PortTypeOK
<1> QED
  BY <1>1, PortKeeps, PTL

\* LineTypeOK: indices stay in their rings, counts within their sizes, an event
\* in the queue is one that a caller or the operator can cause, and the bytes that
\* od_get_input holds fit its buffer until one was written past its end
\* (ODInQue.c:291-298, ODCom.c:605-676, ODGetIn.c:435-437), for rings and
\* buffers of any size.
THEOREM LineTypeCorrect == LineSpec => []LineTypeOK
<1>1. /\ TypeOK /\ Receive!TypeOK /\ Transmit!TypeOK /\ TelnetIn!TypeOK /\ TelnetOut!TypeOK
      /\ Keys!TypeOK /\ Port!PortTypeOK
      => LineTypeOK
  BY DEF LineTypeOK
<1> QED
  BY <1>1, QueueHolds, ReceiveHolds, TransmitHolds, TelnetHolds, KeysTyped, PortTyped, PTL
=============================================================================
