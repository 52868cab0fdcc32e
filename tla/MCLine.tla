------------------------------- MODULE MCLine -------------------------------
\* The line with small rings.
EXTENDS Line

\* What can matter: the part that moves, and of its ring the bytes waiting.
View ==
    CASE part = "receive" ->
            <<part, Receive!Waiting, nRXInIndex, nRXOutIndex, rxFlowControl, rts,
              Receive!caller, lost, held, rxDoor, rxNext, rxLast>>
      [] part = "transmit" ->
            <<part, Transmit!Waiting, nTXInIndex, nTXOutIndex, txFlowControl,
              Transmit!modem, Transmit!line, thre, Transmit!call, txLast>>
      [] part = "telnet in" -> <<part, telnetInVars>>
      [] part = "telnet out" -> <<part, telnetOutVars>>
      [] part = "queue" -> <<part, vars>>
      [] part = "keys" -> <<part, queue, Keys!held, call, owed>>
      [] part = "port" -> <<part, portVars>>
=============================================================================
