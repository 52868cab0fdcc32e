------------------------------ MODULE Registry ------------------------------
(***************************************************************************)
(* The registry file of the reservations comes to be (src/src/ODRsv.c,     *)
(* ODReserveOpenRegistry and ODReservePrepareHeader): a process that finds *)
(* no file creates it, and whoever created it writes the header, the       *)
(* commit byte last; everybody else waits until the header is committed.   *)
(* Only then does a process take part in Reserve, whose LockRegistry is    *)
(* the step with which ODReservePrepareHeader succeeds.                    *)
(***************************************************************************)
EXTENDS Reserve

VARIABLES
    header,  \* what is in the file before the first record
    at,      \* where a process is that opens the registry, "away" if it does not
    byte     \* who holds byte 0 while it looks at the header or writes it

opening == <<header, at, byte>>
registryVars == <<vars, opening>>

\* A file without any byte, with zeros, with all but the commit byte, with a
\* committed header of this library, and one of something else.
Header == {"absent", "empty", "zeros", "uncommitted", "committed", "foreign"}

RegistryInit ==
    /\ Init
    /\ header \in {"absent", "foreign"}
    /\ at = [p \in Door |-> "away"]
    /\ byte = NoDoor

Advances(p, from, to) ==
    /\ at[p] = from /\ at' = [at EXCEPT ![p] = to]
    /\ UNCHANGED vars

ByteFree == registry = NoDoor /\ byte = NoDoor
-----------------------------------------------------------------------------
\* A process whose session begins looks for the file.
Open(p) ==
    /\ pc[p] = "outside"
    /\ Advances(p, "away", IF header = "absent" THEN "missing" ELSE "opened")
    /\ UNCHANGED <<header, byte>>

\* Mutant: the file is created without O_EXCL.
CreateAnyway(p) ==
    /\ Advances(p, "missing", "created")
    /\ header' = IF header = "absent" THEN "empty" ELSE header
    /\ UNCHANGED byte

\* Of the processes that saw no file one creates it, the others open it.
Create(p) ==
    /\ Advances(p, "missing", IF header = "absent" THEN "created" ELSE "opened")
    /\ header' = IF header = "absent" THEN "empty" ELSE header
    /\ UNCHANGED byte

\* Its creator fills the header with zeros, and has no lock for it.
WriteZeros(p) ==
    /\ Advances(p, "created", "blank")
    /\ header' = "zeros"
    /\ UNCHANGED byte

LockByte(p) ==
    /\ ByteFree /\ byte' = p
    /\ \/ Advances(p, "blank", "writing")
       \/ header # "committed" /\ Advances(p, "opened", "checking")
    /\ UNCHANGED header

WriteHeader(p) ==
    /\ Advances(p, "writing", "written")
    /\ header' = "uncommitted"
    /\ UNCHANGED byte

\* The commit byte is written, and the lock is kept.
CommitHeader(p) ==
    /\ at[p] = "written" /\ at' = [at EXCEPT ![p] = "away"]
    /\ header' = "committed"
    /\ byte' = NoDoor /\ LockRegistry(p)

\* The header of another process is committed: it is read under the lock,
\* which nobody changes it without, and the lock is kept.
FindHeader(p) ==
    /\ at[p] = "opened" /\ at' = [at EXCEPT ![p] = "away"]
    /\ header = "committed" /\ byte = NoDoor
    /\ LockRegistry(p)
    /\ UNCHANGED <<header, byte>>

\* It is not committed yet, and is looked at again after a pause.
Retry(p) ==
    /\ Advances(p, "checking", "opened")
    /\ header # "foreign"
    /\ byte' = NoDoor
    /\ UNCHANGED header

\* A transfer fails, the retry interval is over, the file is not a registry,
\* or the process dies: the file is closed and stays as it is.
GiveUp(p) ==
    /\ at[p] # "away" /\ at' = [at EXCEPT ![p] = "away"]
    /\ byte' = IF byte = p THEN NoDoor ELSE byte
    /\ UNCHANGED <<vars, header>>

Opening(p) ==
    \/ Open(p) \/ Create(p) \/ WriteZeros(p) \/ LockByte(p) \/ WriteHeader(p)
    \/ CommitHeader(p) \/ FindHeader(p) \/ Retry(p) \/ GiveUp(p)

\* Inside, byte 0 is the lock registry of Reserve, and byte is nobody's.
Inside(p) == pc[p] # "outside" /\ Step(p) /\ UNCHANGED opening

RegistryNext == \E p \in Door : Opening(p) \/ Inside(p)

RegistrySpec == RegistryInit /\ [][RegistryNext]_registryVars
-----------------------------------------------------------------------------
RegistryTypeOK ==
    /\ TypeOK
    /\ header \in Header
    /\ at \in [Door -> {"away", "missing", "opened", "created", "blank", "checking",
                        "writing", "written"}]
    /\ byte \in Door \union {NoDoor}
    /\ header = "committed" => byte = NoDoor

\* Nobody takes part in a registry whose header is not committed, and a header
\* that is committed, or that is somebody else's, is never written again: not
\* by a process that saw no file a moment ago, nor by the creator that zeroes
\* the header without a lock, whoever dies where (ODRsv.c:511-532, 554-599).
\* So a registry whose creator died stays shut.
HeaderComesFirst ==
    [][/\ header \in {"committed", "foreign"} => header' = header
       /\ \A p \in Door : pc[p] = "outside" /\ pc'[p] # "outside"
              => header' = "committed"]_registryVars
=============================================================================
