----------------------------- MODULE SerialPort -----------------------------
(***************************************************************************)
(* The built-in serial port changes hands (src/src/ODCom.c, ODComOpen and  *)
(* ODComClose, method kComMethodUART): the door takes the UART, its line   *)
(* of the interrupt controller and the interrupt vector from the BBS,      *)
(* gives them back before a child runs and when it ends, and may take them *)
(* again.  Every write of a register or of the vector is an action, and    *)
(* the interrupt routine runs between any two whenever the line is open.   *)
(* What the rings hold is in SerialTransmit and SerialReceive; here it is  *)
(* whether there is something to send, and whether more than the high-     *)
(* water mark was received.  A UART is there, and children leave it alone. *)
(***************************************************************************)

VARIABLES
    step,           \* where ODComOpen or ODComClose is
    vector,         \* whose routine is called: "other" or "ODComInternalISR"
    masked,         \* the interrupt controller holds the line back
    ier, mcr,       \* the UART's registers, as the sets of their bits
    saved,          \* pfOldISR, btI8259Mask, btOldIntEnableReg, btOldModemCtrlReg
    rings,          \* pbtTXQueue and pbtRXQueue point to memory
    toSend, full,   \* of nTXChars and nRXChars
    bStopTrans,
    rtsCts,         \* btFlowControl: RTS/CTS flow control is used
    found           \* history: how the BBS left the hardware

hardware == <<vector, masked, ier, mcr>>
software == <<rings, toSend, full, bStopTrans>>
portVars == <<step, hardware, saved, software, rtsCts, found>>

Hardware == [vector : {"other", "ODComInternalISR"}, masked : BOOLEAN,
             ier : SUBSET {"DR", "THRE", "MS"}, mcr : SUBSET {"DTR", "RTS", "OUT2"}]
Present == [vector |-> vector, masked |-> masked, ier |-> ier, mcr |-> mcr]

PortInit ==
    /\ found \in {h \in Hardware : h.vector = "other"}
    /\ vector = found.vector /\ masked = found.masked
    /\ ier = found.ier /\ mcr = found.mcr
    /\ saved = found
    /\ step = "closed"
    /\ rings = FALSE /\ toSend = FALSE /\ full = FALSE /\ bStopTrans = FALSE
    /\ rtsCts \in BOOLEAN

\* An interrupt of the UART gets through.
Delivered == ier # {} /\ "OUT2" \in mcr /\ ~masked

Goes(from, to) == step = from /\ step' = to /\ UNCHANGED <<rtsCts, found>>
-----------------------------------------------------------------------------
(* ODComOpen *)

Allocate ==
    /\ \/ Goes("closed", "allocated") /\ rings' = TRUE
       \/ Goes("closed", "closed") /\ rings' = FALSE
    /\ UNCHANGED <<hardware, saved, toSend, full, bStopTrans>>

\* Mutant: the UART's interrupts stay enabled for the time being.
TestUARTWithInterrupts ==
    /\ Goes("allocated", "tested")
    /\ saved' = [saved EXCEPT !.ier = ier]
    /\ bStopTrans' \in IF rtsCts THEN BOOLEAN ELSE {bStopTrans}
    /\ UNCHANGED <<hardware, rings, toSend, full>>

\* The UART is there if its interrupts can be turned off; CTS is looked at.
TestUART ==
    /\ Goes("allocated", "tested")
    /\ saved' = [saved EXCEPT !.ier = ier] /\ ier' = {}
    /\ bStopTrans' \in IF rtsCts THEN BOOLEAN ELSE {bStopTrans}
    /\ UNCHANGED <<vector, masked, mcr, rings, toSend, full>>

MaskLine ==
    /\ Goes("tested", "masked")
    /\ saved' = [saved EXCEPT !.masked = masked] /\ masked' = TRUE
    /\ toSend' = FALSE /\ full' = FALSE
    /\ UNCHANGED <<vector, ier, mcr, rings, bStopTrans>>

SetVector ==
    /\ Goes("masked", "vector set")
    /\ saved' = [saved EXCEPT !.vector = vector] /\ vector' = "ODComInternalISR"
    /\ UNCHANGED <<masked, ier, mcr, software>>

SetModemControl ==
    /\ Goes("vector set", "modem set")
    /\ saved' = [saved EXCEPT !.mcr = mcr]
    /\ mcr' = (mcr \intersect {"DTR"}) \union {"OUT2", "RTS"}
    /\ UNCHANGED <<vector, masked, ier, software>>

EnableInterrupts ==
    /\ Goes("modem set", "enabled")
    /\ ier' = {"DR", "MS"}
    /\ UNCHANGED <<vector, masked, mcr, saved, software>>

UnmaskLine ==
    /\ Goes("enabled", "open")
    /\ masked' = FALSE
    /\ UNCHANGED <<vector, ier, mcr, saved, software>>
-----------------------------------------------------------------------------
(* ODComClose *)

RestoreModemControl ==
    /\ Goes("open", "modem restored")
    /\ mcr' = saved.mcr
    /\ UNCHANGED <<vector, masked, ier, saved, software>>

RestoreInterrupts ==
    /\ Goes("modem restored", "interrupts restored")
    /\ ier' = saved.ier
    /\ UNCHANGED <<vector, masked, mcr, saved, software>>

\* Mutant: the line stays unmasked.
RestoreNoMask ==
    /\ Goes("interrupts restored", "mask restored")
    /\ UNCHANGED <<hardware, saved, software>>

RestoreMask ==
    /\ Goes("interrupts restored", "mask restored")
    /\ masked' = saved.masked
    /\ UNCHANGED <<vector, ier, mcr, saved, software>>

RestoreVector ==
    /\ Goes("mask restored", "closed")
    /\ vector' = saved.vector
    /\ UNCHANGED <<masked, ier, mcr, saved, software>>
-----------------------------------------------------------------------------
(* The door uses the port, and the caller. *)

Send ==
    /\ Goes("open", "open")
    /\ toSend' = TRUE /\ ier' = ier \union {"THRE"}
    /\ UNCHANGED <<vector, masked, mcr, saved, rings, full, bStopTrans>>

\* Bytes are taken, or either ring is emptied.
Take ==
    /\ Goes("open", "open")
    /\ full' = FALSE /\ toSend' \in {toSend, FALSE}
    /\ mcr' \in {mcr} \union (IF rtsCts THEN {mcr \union {"RTS"}} ELSE {})
    /\ UNCHANGED <<vector, masked, ier, saved, rings, bStopTrans>>

SetDTR ==
    /\ Goes("open", "open")
    /\ mcr' \in {mcr \union {"DTR"}, mcr \ {"DTR"}}
    /\ UNCHANGED <<vector, masked, ier, saved, software>>

Interrupt(cause) ==
    /\ Delivered /\ vector = "ODComInternalISR" /\ cause \in ier
    /\ UNCHANGED <<step, vector, masked, saved, rings, rtsCts, found>>

ModemStatus ==
    /\ Interrupt("MS")
    /\ bStopTrans' \in IF rtsCts THEN BOOLEAN ELSE {bStopTrans}
    /\ ier' \in {ier} \union
          (IF rtsCts /\ ~bStopTrans' /\ toSend THEN {ier \union {"THRE"}} ELSE {})
    /\ UNCHANGED <<mcr, toSend, full>>

Transmit ==
    /\ Interrupt("THRE")
    /\ IF toSend /\ ~bStopTrans
       THEN toSend' \in BOOLEAN /\ UNCHANGED ier
       ELSE ier' = ier \ {"THRE"} /\ UNCHANGED toSend
    /\ UNCHANGED <<mcr, full, bStopTrans>>

Receive ==
    /\ Interrupt("DR")
    /\ mcr' = IF full /\ rtsCts THEN mcr \ {"RTS"} ELSE mcr
    /\ full' \in {full, TRUE}
    /\ UNCHANGED <<ier, toSend, bStopTrans>>

PortNext ==
    \/ Allocate \/ TestUART \/ MaskLine \/ SetVector \/ SetModemControl
    \/ EnableInterrupts \/ UnmaskLine
    \/ RestoreModemControl \/ RestoreInterrupts \/ RestoreMask \/ RestoreVector
    \/ Send \/ Take \/ SetDTR \/ ModemStatus \/ Transmit \/ Receive

PortSpec == PortInit /\ [][PortNext]_portVars
-----------------------------------------------------------------------------
PortTypeOK ==
    /\ {Present, saved, found} \subseteq Hardware
    /\ {rings, toSend, full, bStopTrans, rtsCts} \subseteq BOOLEAN
    /\ step \in {"closed", "allocated", "tested", "masked", "vector set", "modem set",
                 "enabled", "open", "modem restored", "interrupts restored",
                 "mask restored"}

\* An interrupt finds the routine it is meant for: ODComInternalISR with its
\* rings, or the one that was there before, which is never called for what the
\* door has the UART do (ODCom.c:1489-1632, 2037-2060).
InterruptsFindRoutine ==
    Delivered => IF vector = "ODComInternalISR" THEN rings
                 ELSE step \in {"closed", "allocated"}

\* A port that is closed, for a child or at the end, is as the BBS left it
\* (ODCom.c:2037-2060), whatever interrupts came while it was opened, used and
\* closed.  If the BBS left the UART's interrupts open to the line (OUT2), the
\* interrupt routine may run again once the register is restored: it may lower
\* RTS, and turn the transmit interrupt off or on where others are enabled.
PortIsReturned ==
    step = "closed" =>
        /\ vector = found.vector /\ masked = found.masked
        /\ "OUT2" \notin found.mcr => mcr = found.mcr /\ ier = found.ier
        /\ mcr \in {found.mcr, found.mcr \ {"RTS"}}
        /\ ier \ {"THRE"} = found.ier \ {"THRE"} /\ (found.ier = {} => ier = {})
=============================================================================
