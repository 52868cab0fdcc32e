----------------------------- MODULE TelnetInput -----------------------------
(***************************************************************************)
(* A caller on a Telnet socket (src/src/ODCom.c, ODComGetByte, method      *)
(* kComMethodSocket with bTelnetSocket): the bytes of the connection carry *)
(* commands, negotiation and two-byte forms of the keys, and the port's    *)
(* state decides what each byte is.  A state is kept between the calls, as *)
(* a form may arrive in pieces; a byte that ends a carriage return without *)
(* belonging to it is put back.  One pass of ODComGetByte's loop is one    *)
(* action; the caller types, and signals and disconnection come, between   *)
(* any two of them.                                                        *)
(***************************************************************************)
EXTENDS Integers, Sequences, SequencesExt

CONSTANT MaxForms  \* forms the caller sends

TelnetAssumption == MaxForms \in Nat

VARIABLES
    socket,  \* bytes that have arrived and not been read
    TelnetInputState,
    replay,  \* the byte that was put back (bTelnetInputReplay), or None
    typed,   \* the keys the caller pressed
    read,    \* the keys ODComGetByte returned
    forms,   \* the number of forms sent
    bare,    \* the last form was a carriage return by itself
    failed,  \* a call failed, and the port forgot its state
    closed   \* the caller is gone

vars == <<socket, TelnetInputState, replay, typed, read, forms, bare, failed, closed>>

None == "none"
Verbs == {"WILL", "SB"}  \* WILL stands for WILL, WONT, DO and DONT
Bytes == {"a", "CR", "LF", "NUL", "IAC", "NOP", "SE"} \cup Verbs
States == {"Data", "IAC", "Negotiation", "Subnegotiation", "SubnegotiationIAC", "CR"}

Init ==
    /\ socket = << >> /\ TelnetInputState = "Data" /\ replay = None
    /\ typed = << >> /\ read = << >> /\ forms = 0
    /\ bare = FALSE /\ failed = FALSE /\ closed = FALSE
-----------------------------------------------------------------------------
(* The caller's Telnet program: what it sends for a key, and what else *)

Key(bytes, key) == [bytes |-> bytes, keys |-> <<key>>]
Command(bytes) == [bytes |-> bytes, keys |-> << >>]

Forms ==
    {Key(<<b>>, b) : b \in {"a", "LF", "SE"}}
    \cup {Key(<<"IAC", "IAC">>, "IAC"), Key(<<"CR", "LF">>, "CR"),
          Key(<<"CR", "NUL">>, "CR"), Key(<<"CR">>, "CR"), Command(<<"IAC", "NOP">>)}
    \cup {Command(<<"IAC", "WILL", option>>) : option \in {"a", "CR", "IAC"}}
    \cup {Command(<<"IAC", "SB">> \o inside \o <<"IAC", "SE">>) :
             inside \in {<<"a", "CR">>, <<"IAC", "IAC", "SE">>}}

\* A line feed after a bare carriage return would be read as a part of it.
Send(form) ==
    /\ forms < MaxForms /\ ~closed
    /\ ~(bare /\ form.bytes[1] = "LF")
    /\ socket' = socket \o form.bytes
    /\ typed' = typed \o form.keys
    /\ forms' = forms + 1
    /\ bare' = (form.bytes = <<"CR">>)
    /\ UNCHANGED <<TelnetInputState, replay, read, failed, closed>>

HangUp ==
    /\ ~closed /\ closed' = TRUE
    /\ UNCHANGED <<socket, TelnetInputState, replay, typed, read, forms, bare, failed>>
-----------------------------------------------------------------------------
(* ODComGetByte *)

\* The byte a pass looks at: the one put back, or the next of the socket.
Received == IF replay # None THEN replay ELSE Head(socket)

Fetch ==
    /\ replay # None \/ socket # << >>
    /\ socket' = IF replay # None THEN socket ELSE Tail(socket)

\* The pass goes on to the next byte.
Go(state) ==
    /\ TelnetInputState' = state
    /\ replay' = None
    /\ UNCHANGED read

\* The call returns a key.
Return(key) ==
    /\ TelnetInputState' = "Data"
    /\ replay' = None
    /\ read' = Append(read, key)

InData ==
    /\ TelnetInputState = "Data"
    /\ IF Received = "IAC" THEN Go("IAC")
       ELSE IF Received = "CR" THEN Go("CR")
       ELSE Return(Received)

InIAC ==
    /\ TelnetInputState = "IAC"
    /\ IF Received = "IAC" THEN Return("IAC")
       ELSE IF Received = "WILL" THEN Go("Negotiation")
       ELSE IF Received = "SB" THEN Go("Subnegotiation")
       ELSE Go("Data")

InNegotiation == TelnetInputState = "Negotiation" /\ Go("Data")

InSubnegotiation ==
    /\ TelnetInputState = "Subnegotiation"
    /\ Go(IF Received = "IAC" THEN "SubnegotiationIAC" ELSE "Subnegotiation")

InSubnegotiationIAC ==
    /\ TelnetInputState = "SubnegotiationIAC"
    /\ Go(IF Received = "SE" THEN "Data" ELSE "Subnegotiation")

\* Mutant: what follows a carriage return is dropped.
InCRDrops ==
    /\ TelnetInputState = "CR"
    /\ TelnetInputState' = "Data"
    /\ replay' = None
    /\ read' = Append(read, "CR")

\* What follows a carriage return is a part of it, or is put back.
InCR ==
    /\ TelnetInputState = "CR"
    /\ TelnetInputState' = "Data"
    /\ replay' = IF Received \in {"LF", "NUL"} THEN None ELSE Received
    /\ read' = Append(read, "CR")

Pass ==
    /\ Fetch
    /\ \/ InData \/ InIAC \/ InNegotiation \/ InSubnegotiation
       \/ InSubnegotiationIAC \/ InCR
    /\ UNCHANGED <<typed, forms, bare, failed, closed>>

\* poll() or recv() fails, as when a signal comes: the port starts afresh.
Fail ==
    /\ replay = None
    /\ TelnetInputState' = "Data"
    /\ failed' = TRUE
    /\ UNCHANGED <<socket, replay, typed, read, forms, bare, closed>>

\* recv() returns nothing once the caller is gone.
AtEnd ==
    /\ closed /\ socket = << >> /\ replay = None
    /\ TelnetInputState' = "Data"
    /\ UNCHANGED <<socket, replay, typed, read, forms, bare, failed, closed>>

Next == Pass \/ Fail \/ AtEnd \/ HangUp \/ \E form \in Forms : Send(form)

Spec == Init /\ [][Next]_vars
-----------------------------------------------------------------------------
TypeOK ==
    /\ socket \in Seq(Bytes) /\ typed \in Seq(Bytes) /\ read \in Seq(Bytes)
    /\ TelnetInputState \in States
    /\ replay \in (Bytes \ {"LF", "NUL"}) \cup {None}
    /\ forms \in 0..MaxForms
    /\ {bare, failed, closed} \subseteq BOOLEAN

\* Unless a call failed, the door reads the keys that were pressed, in order,
\* whatever commands are mixed with them and however they are cut into calls;
\* when everything has been read, all of them but a carriage return that waits
\* for the byte after it (ODCom.c:2979-3128).
KeysSurviveCommands ==
    ~failed =>
        /\ IsPrefix(read, typed)
        /\ socket = << >> /\ replay = None /\ TelnetInputState = "Data" =>
               typed \in {read, Append(read, "CR")}
        /\ socket = << >> /\ replay = None /\ ~closed /\ TelnetInputState = "Data" =>
               typed = read
        /\ socket = << >> /\ replay = None /\ TelnetInputState # "Data" =>
               bare /\ typed = Append(read, "CR")
=============================================================================
