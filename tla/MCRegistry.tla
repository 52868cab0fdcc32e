----------------------------- MODULE MCRegistry -----------------------------
\* Processes of two nodes that find no registry, or a file that is none.
EXTENDS Registry, ReserveInvariant

CONSTANT Alone  \* the process that shares its node with nobody

TwoNodes == [p \in Door |-> IF p = Alone THEN p
                            ELSE CHOOSE i \in Identity : i # Alone]
=============================================================================
