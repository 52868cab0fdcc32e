--------------------------- MODULE MCSerialReceive ---------------------------
\* The receive half with a small ring.
EXTENDS SerialReceive

\* What can matter: of the ring the bytes that wait.
View == <<Waiting, nRXInIndex, nRXOutIndex, btFlowControl, rts, caller, lost, held, door,
          next, last>>
=============================================================================
