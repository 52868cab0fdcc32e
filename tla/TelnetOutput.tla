----------------------------- MODULE TelnetOutput -----------------------------
(***************************************************************************)
(* What the door sends on a Telnet socket (src/src/ODCom.c,                *)
(* ODComSendBuffer): every buffer is put into Telnet's form and written in *)
(* pieces as the socket takes them.  The socket may take a part, would     *)
(* block, be interrupted, or fail with a part of the buffer written.  The  *)
(* caller's terminal reads what arrives by the rules of the Network        *)
(* Virtual Terminal.                                                       *)
(***************************************************************************)
EXTENDS Integers, Sequences, SequencesExt

CONSTANTS
    BufferMax,  \* the largest buffer
    Buffers     \* buffers sent

OutputAssumption == BufferMax \in Nat /\ Buffers \in Nat

VARIABLES
    text,     \* what the door has sent, as it gave it
    pending,  \* the part of the current buffer's form not yet written
    wire,     \* what the socket has taken
    count,    \* buffers begun
    failed    \* the first buffer that was given up, or 0

vars == <<text, pending, wire, count, failed>>

Bytes == {"a", "IAC", "CR", "LF"}
Texts == UNION {[1..n -> Bytes] : n \in 1..BufferMax}

\* Mutant: a carriage return by itself is sent as it is.
FormBareReturn(buffer, i) ==
    IF buffer[i] = "IAC" THEN <<"IAC", "IAC">> ELSE <<buffer[i]>>

\* The form of the byte at i of a buffer.  A line feed right after a carriage
\* return belongs to it and has no form of its own.
Form(buffer, i) ==
    CASE buffer[i] = "IAC" -> <<"IAC", "IAC">>
      [] buffer[i] = "CR" ->
            IF i < Len(buffer) /\ buffer[i + 1] = "LF" THEN <<"CR", "LF">> ELSE <<"CR", "NUL">>
      [] buffer[i] = "LF" /\ i > 1 /\ buffer[i - 1] = "CR" -> << >>
      [] OTHER -> <<buffer[i]>>

Encode(buffer) ==
    LET form[i \in 0..Len(buffer)] == IF i = 0 THEN << >> ELSE form[i - 1] \o Form(buffer, i)
    IN form[Len(buffer)]

Init == text = << >> /\ pending = << >> /\ wire = << >> /\ count = 0 /\ failed = 0

Begin(buffer) ==
    /\ pending = << >> /\ count < Buffers
    /\ pending' = Encode(buffer)
    /\ text' = text \o buffer
    /\ count' = count + 1
    /\ UNCHANGED <<wire, failed>>

\* send() takes as much as it likes.
SendSome(n) ==
    /\ n <= Len(pending)
    /\ wire' = wire \o SubSeq(pending, 1, n)
    /\ pending' = SubSeq(pending, n + 1, Len(pending))
    /\ UNCHANGED <<text, count, failed>>

\* The socket would block, or a signal came: the loop tries again.
TryAgain == pending # << >> /\ UNCHANGED vars

\* The socket takes nothing for a second, or fails.
GiveUp ==
    /\ pending # << >> /\ pending' = << >>
    /\ failed' = IF failed = 0 THEN count ELSE failed
    /\ UNCHANGED <<text, wire, count>>

Next ==
    \/ \E buffer \in Texts : Begin(buffer)
    \/ \E n \in 1..(2 * BufferMax) : SendSome(n)
    \/ TryAgain \/ GiveUp

\* The socket takes what is given to it in time, or the buffer is given up.
Spec == Init /\ [][Next]_vars /\ WF_vars(GiveUp \/ \E n \in 1..(2 * BufferMax) : SendSome(n))
-----------------------------------------------------------------------------
\* The caller's terminal (RFC 854): it shows what a form stands for, and keeps
\* the first byte of a form until the second has come.
Blank == [text |-> << >>, first |-> "none"]

Show(screen, b) ==
    CASE screen.first = "IAC" -> [text |-> Append(screen.text, b), first |-> "none"]
      [] screen.first = "CR" ->
            [text |-> screen.text \o (IF b = "NUL" THEN <<"CR">> ELSE <<"CR", b>>),
             first |-> "none"]
      [] screen.first = "none" /\ b \in {"IAC", "CR"} -> [screen EXCEPT !.first = b]
      [] OTHER -> [screen EXCEPT !.text = Append(screen.text, b)]

Shown(bytes) ==
    LET screen[i \in 0..Len(bytes)] == IF i = 0 THEN Blank ELSE Show(screen[i - 1], bytes[i])
    IN screen[Len(bytes)]

TypeOK ==
    /\ text \in Seq(Bytes)
    /\ {pending, wire} \subseteq Seq(Bytes \cup {"NUL"})
    /\ {count, failed} \subseteq 0..Buffers

\* The terminal shows what the door sent, in order, however the text was cut
\* into buffers and the socket cut the buffers; a buffer that is given up is
\* shown in part.  What is sent after that may be misread, as half a form may
\* have been written (ODCom.c:3862-3886, 4110-4170).
TerminalShowsText ==
    /\ failed \in {0, count} => IsPrefix(Shown(wire).text, text)
    /\ failed = 0 /\ pending = << >> => Shown(wire).text = text /\ Shown(wire).first = "none"
=============================================================================
