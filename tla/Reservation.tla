---------------------------- MODULE Reservation ----------------------------
(***************************************************************************)
(* What named reservations promise to the programs that use them, without  *)
(* records, locks, tickets or scans: a reservation is held by one client   *)
(* at a time, and whoever was queued for a name before a client asked for  *)
(* it is served, or gives up, before that client.                          *)
(***************************************************************************)
CONSTANTS Client, Name, NoName

VARIABLES
    state,   \* where each client is with its reservation
    wanted,  \* the name it has asked for
    ahead    \* the clients it must let go first

vars == <<state, wanted, ahead>>

State == {"away", "asking", "queued", "holding"}

TypeOK ==
    /\ state \in [Client -> State]
    /\ wanted \in [Client -> Name \union {NoName}]
    /\ ahead \in [Client -> SUBSET Client]

Init ==
    /\ state = [c \in Client |-> "away"]
    /\ wanted = [c \in Client |-> NoName]
    /\ ahead = [c \in Client |-> {}]

Ask(c, n) ==
    /\ state[c] = "away"
    /\ state' = [state EXCEPT ![c] = "asking"]
    /\ wanted' = [wanted EXCEPT ![c] = n]
    /\ ahead' = [ahead EXCEPT ![c] =
                    {d \in Client : /\ state[d] \in {"queued", "holding"}
                                    /\ wanted[d] = n}]

Enqueue(c) ==
    /\ state[c] = "asking"
    /\ state' = [state EXCEPT ![c] = "queued"]
    /\ UNCHANGED <<wanted, ahead>>

Hold(c) ==
    /\ state[c] = "queued"
    /\ ahead[c] = {}
    /\ \A d \in Client : ~(state[d] = "holding" /\ wanted[d] = wanted[c])
    /\ state' = [state EXCEPT ![c] = "holding"]
    /\ UNCHANGED <<wanted, ahead>>

\* The client ends its reservation, fails, leaves or dies.
GiveUp(c) ==
    /\ state[c] # "away"
    /\ state' = [state EXCEPT ![c] = "away"]
    /\ wanted' = [wanted EXCEPT ![c] = NoName]
    /\ ahead' = [d \in Client |-> IF d = c THEN {} ELSE ahead[d] \ {c}]

Next ==
    \E c \in Client :
        (\E n \in Name : Ask(c, n)) \/ Enqueue(c) \/ Hold(c) \/ GiveUp(c)

Spec == Init /\ [][Next]_vars
=============================================================================
