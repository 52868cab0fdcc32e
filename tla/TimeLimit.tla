------------------------------ MODULE TimeLimit ------------------------------
(***************************************************************************)
(* The caller's time (src/src/ODKrnl.c, ODKrnlTimeUpdate): a minute of the *)
(* limit is deducted for every minute online, with warnings before the     *)
(* last one is gone, and a caller who does not press a key for a while is  *)
(* warned and put out.  od_kernel does this when it happens to be called.  *)
(* The application's callback, the child that od_spawnvpe runs             *)
(* (src/src/ODSpawn.c) and chat take any time in between.                  *)
(*                                                                         *)
(* Times are relative to the present: due is the time until the next       *)
(* deduction and idle the time since the last activity.                    *)
(***************************************************************************)
EXTENDS Integers, FiniteSetsExt

CONSTANTS
    Minute,       \* ticks in a minute
    Inactivity,   \* od_inactivity while it is in use
    Warning,      \* od_inactive_warning
    MaxLimit,     \* the largest time limit, in minutes (1440 for the sysop's key)
    MaxLag,       \* bound: how far od_kernel falls behind
    SpawnModes    \* subset of {"frozen", "charged"}: how a child's time counts

TimeAssumption ==
    /\ {Minute, Inactivity, Warning, MaxLimit} \subseteq Nat \ {0}
    /\ MaxLag \in Nat
    /\ SpawnModes \subseteq {"frozen", "charged"}

VARIABLES
    user_timelimit,
    due,                     \* nNextTimeDeductTime - time(NULL)
    idle,                    \* time(NULL) - nLastActivityTime, as far as it matters
    od_inactivity, od_disable_inactivity, nLastInactivitySetting, bWarnedAboutInactivity,
    od_chat_active,
    disTimeout,              \* DIS_TIMEOUT is set
    at,                      \* where od_kernel is
    behind,                  \* time(NULL) - CurrentTime, in a pass
    port,                    \* a byte of the caller waits in the port
    forced,                  \* why the caller was put out, or "no"
    unpaid,                  \* history: ticks online not yet charged
    announced,               \* history: the minutes left that the caller last heard of
    changed,                 \* history: somebody changed the limit since then
    silent                   \* history: how long the caller pressed no key while he had to

inactivity == <<od_inactivity, od_disable_inactivity, nLastInactivitySetting,
                bWarnedAboutInactivity>>
activity == <<idle, inactivity>>
account == <<user_timelimit, due, unpaid>>
said == <<announced, changed>>
timeVars == <<account, activity, od_chat_active, disTimeout, at, behind, port, forced, said,
              silent>>

Longest == Inactivity + Warning + 1  \* idle is not counted further

Init ==
    /\ user_timelimit \in 1..MaxLimit
    /\ due = Minute /\ unpaid = 0
    /\ idle = 0 /\ od_inactivity = Inactivity /\ nLastInactivitySetting = 0
    /\ od_disable_inactivity = FALSE /\ bWarnedAboutInactivity = FALSE
    /\ od_chat_active = FALSE /\ disTimeout \in BOOLEAN
    /\ at = "idle" /\ behind = 0 /\ port = FALSE /\ forced = "no"
    /\ announced = user_timelimit /\ changed = FALSE /\ silent = 0
-----------------------------------------------------------------------------
(* Time, the caller, the sysop and the application *)

Tick ==
    /\ forced = "no" /\ due > -MaxLag /\ behind < MaxLag /\ user_timelimit >= 0
    /\ due' = due - 1 /\ unpaid' = unpaid + 1
    /\ idle' = Min({idle + 1, Longest}) /\ silent' = Min({silent + 1, Longest})
    /\ behind' = IF at \in {"idle", "polled", "keyed"} THEN 0 ELSE behind + 1
    /\ UNCHANGED <<user_timelimit, inactivity, od_chat_active, disTimeout, at, port, forced,
                   said>>

\* A byte comes from the caller; the port keeps it until od_kernel looks.
Arrive ==
    /\ forced = "no" /\ port' = TRUE
    /\ silent' = IF at = "idle" THEN 0 ELSE silent
    /\ UNCHANGED <<account, activity, od_chat_active, disTimeout, at, behind, forced, said>>

\* A local key is added to the input queue, by the frame thread at any time.
PressLocalKey ==
    /\ forced = "no" /\ idle' = 0
    /\ silent' = IF at = "idle" THEN 0 ELSE silent
    /\ UNCHANGED <<account, inactivity, od_chat_active, disTimeout, at, behind, port, forced,
                   said>>

\* key_moretime and key_lesstime, one of them between the port and the clock.
ChangeLimit(change) ==
    /\ at = "polled" /\ at' = "keyed"
    /\ \/ change = 1 /\ user_timelimit < MaxLimit
       \/ change = -1 /\ user_timelimit > 0
    /\ user_timelimit' = user_timelimit + change
    /\ changed' = TRUE
    /\ UNCHANGED <<due, unpaid, activity, od_chat_active, disTimeout, behind, port, forced,
                   announced, silent>>

\* The application sets od_inactivity; chat begins or ends.
SetInactivity ==
    /\ at = "idle"
    /\ od_inactivity' = Inactivity - od_inactivity
    /\ UNCHANGED <<account, idle, od_disable_inactivity, nLastInactivitySetting,
                   bWarnedAboutInactivity, od_chat_active, disTimeout, at, behind, port, forced,
                   said, silent>>

\* The application or the sysop's menu suspends the limit, or lets it go on;
\* the time of the last activity is left alone.
ToggleInactivity ==
    /\ at = "idle" /\ od_disable_inactivity' = ~od_disable_inactivity
    /\ UNCHANGED <<account, idle, od_inactivity, nLastInactivitySetting,
                   bWarnedAboutInactivity, od_chat_active, disTimeout, at, behind, port, forced,
                   said, silent>>

ToggleChat ==
    /\ at = "idle" /\ od_chat_active' = ~od_chat_active
    /\ UNCHANGED <<account, activity, disTimeout, at, behind, port, forced, said, silent>>

\* Mutant: the time of a frozen child is not added to the next deduction's.
SpawnUnfrozen(mode, time) ==
    /\ at = "idle" /\ user_timelimit >= 0 /\ due - time >= -MaxLag
    /\ mode = "frozen" /\ due' = due - time
    /\ idle' = 0 /\ port' = FALSE /\ silent' = 0
    /\ UNCHANGED <<user_timelimit, unpaid, inactivity, od_chat_active, disTimeout, at, behind,
                   forced, said>>

\* od_spawnvpe with P_WAIT: a child that runs for some time.  Its minutes are
\* not counted, or are taken off the limit when it ends; the keys pressed in
\* the meantime are thrown away.
Spawn(mode, time) ==
    /\ at = "idle" /\ user_timelimit >= 0
    /\ IF mode = "frozen" THEN UNCHANGED account
       ELSE /\ due - time >= -MaxLag
            /\ user_timelimit' = user_timelimit - time \div Minute
            /\ unpaid' = unpaid + time - (time \div Minute) * Minute
            /\ due' = due - time
    /\ idle' = 0 /\ port' = FALSE /\ silent' = 0
    /\ UNCHANGED <<inactivity, od_chat_active, disTimeout, at, behind, forced, said>>
-----------------------------------------------------------------------------
(* A pass of od_kernel *)

\* Mutant: the bytes of the port are not moved first.
BeginUnpolled ==
    /\ at = "idle" /\ forced = "no" /\ at' = "polled"
    /\ silent' = IF port THEN 0 ELSE silent
    /\ UNCHANGED <<account, activity, od_chat_active, disTimeout, behind, port, forced, said>>

\* The bytes of the port are moved to the input queue, which is activity.
Begin ==
    /\ at = "idle" /\ forced = "no" /\ at' = "polled"
    /\ silent' = IF port THEN 0 ELSE silent
    /\ idle' = IF port THEN 0 ELSE idle
    /\ port' = FALSE
    /\ UNCHANGED <<account, inactivity, od_chat_active, disTimeout, behind, forced, said>>

\* The limit puts callers out.
InForce == od_inactivity # 0 /\ ~od_disable_inactivity

\* The clock is read once; inactivity that is set anew starts to count anew.
CheckInactivity ==
    /\ at \in {"polled", "keyed"} /\ behind' = 0
    /\ nLastInactivitySetting' = od_inactivity
    /\ silent' = IF od_inactivity = 0 THEN 0 ELSE silent
    /\ idle' = IF nLastInactivitySetting = 0 /\ od_inactivity # 0 THEN 0 ELSE idle
    /\ \/ /\ od_inactivity < idle'
          /\ at' = IF InForce THEN "inactive" ELSE "chat"
          /\ UNCHANGED bWarnedAboutInactivity
       \/ /\ od_inactivity >= idle' /\ od_inactivity < idle' + Warning
          /\ at' = IF ~bWarnedAboutInactivity /\ InForce THEN "warn" ELSE "chat"
          /\ UNCHANGED bWarnedAboutInactivity
       \/ /\ od_inactivity >= idle' + Warning
          /\ at' = "chat" /\ bWarnedAboutInactivity' = FALSE
    /\ UNCHANGED <<account, od_inactivity, od_disable_inactivity, od_chat_active, disTimeout,
                   port, forced, said>>

\* In chat the next deduction is put off.
CheckChat ==
    /\ at = "chat" /\ at' = "deduct"
    /\ IF od_chat_active THEN due' = Minute /\ unpaid' = 0 ELSE UNCHANGED <<due, unpaid>>
    /\ UNCHANGED <<user_timelimit, activity, od_chat_active, disTimeout, behind, port, forced,
                   said, silent>>

\* Mutant: the minutes that are over are deducted in one step.
DeductAll ==
    LET minutes == 1 + (-behind - due) \div Minute
    IN /\ at = "deduct" /\ due <= -behind
       /\ due' = due + minutes * Minute /\ unpaid' = unpaid - minutes * Minute
       /\ user_timelimit' = user_timelimit - minutes
       /\ at' = IF user_timelimit' \in 1..3 /\ ~disTimeout THEN "minutes" ELSE "deduct"
       /\ UNCHANGED <<activity, od_chat_active, disTimeout, behind, port, forced, said, silent>>

\* Every minute that was over when the clock was read is deducted; near the
\* end each is announced.
Deduct ==
    /\ at = "deduct" /\ due <= -behind
    /\ due' = due + Minute /\ unpaid' = unpaid - Minute
    /\ user_timelimit' = user_timelimit - 1
    /\ at' = IF user_timelimit' \in 1..3 /\ ~disTimeout THEN "minutes" ELSE "deduct"
    /\ UNCHANGED <<activity, od_chat_active, disTimeout, behind, port, forced, said, silent>>

CheckLimit ==
    /\ at = "deduct" /\ due > -behind
    /\ at' = IF user_timelimit <= 0 /\ ~disTimeout THEN "expired" ELSE "idle"
    /\ UNCHANGED <<account, activity, od_chat_active, disTimeout, behind, port, forced, said,
                   silent>>

\* What a message puts the caller out for.
Reason == [inactive |-> "inactivity", warn |-> "no", minutes |-> "no",
           expired |-> "time limit"]

\* ODKrnlDeliverTimeMessage: the message is displayed, or the application's
\* callback gets it, which may give the caller time or end the session; a
\* message that comes with a reason shuts the session down.
Deliver ==
    /\ at \in {"inactive", "warn", "minutes", "expired"}
    /\ \E gift \in 0..1, ends \in BOOLEAN :
          /\ user_timelimit + gift <= MaxLimit
          /\ user_timelimit' = user_timelimit + gift
          /\ changed' = (gift > 0 \/ (changed /\ at # "minutes"))
          /\ announced' = IF at = "minutes" THEN user_timelimit ELSE announced
          /\ forced' = IF ends THEN "application" ELSE Reason[at]
    /\ at' = IF forced' # "no" THEN "ended" ELSE IF at = "warn" THEN "chat" ELSE "deduct"
    /\ bWarnedAboutInactivity' = (bWarnedAboutInactivity \/ (at = "warn" /\ forced' = "no"))
    /\ UNCHANGED <<due, unpaid, idle, od_inactivity, od_disable_inactivity,
                   nLastInactivitySetting, od_chat_active, disTimeout, behind, port, silent>>

TimeNext ==
    \/ Tick \/ Arrive \/ PressLocalKey \/ SetInactivity \/ ToggleInactivity \/ ToggleChat
    \/ \E change \in {-1, 1} : ChangeLimit(change)
    \/ \E mode \in SpawnModes, time \in 1..(2 * Minute) : Spawn(mode, time)
    \/ Begin \/ CheckInactivity \/ CheckChat \/ Deduct \/ CheckLimit \/ Deliver

TimeSpec == Init /\ [][TimeNext]_timeVars
-----------------------------------------------------------------------------
\* A charged child may take two minutes off a limit that is used up.
TypeOK ==
    /\ user_timelimit \in -(MaxLag + 3)..MaxLimit
    /\ due \in -MaxLag..Minute /\ behind \in 0..MaxLag
    /\ unpaid \in Int /\ idle \in 0..Longest /\ silent \in 0..Longest
    /\ {od_inactivity, nLastInactivitySetting} \subseteq {0, Inactivity}
    /\ {od_disable_inactivity, bWarnedAboutInactivity, od_chat_active, disTimeout, port,
        changed} \subseteq BOOLEAN
    /\ at \in {"idle", "polled", "keyed", "inactive", "warn", "chat", "deduct", "minutes", "expired",
               "ended"}
    /\ announced \in 1..MaxLimit
    /\ forced \in {"no", "inactivity", "time limit", "application"}

\* The caller is charged for the time online and for no minute twice: what is
\* not charged yet and what is left until the next deduction make a minute,
\* after late passes, in chat and around children (ODKrnl.c:871-903,
\* ODSpawn.c:650-658).  "One minute ... every minute that OpenDoors is active."
MinutesChargedOnce == unpaid >= 0 /\ unpaid + due = Minute

\* A caller whom the time limit puts out was told before that one minute was
\* left, even if several minutes went by between two passes; unless the limit
\* was changed since, by the sysop or the application (ODKrnl.c:878-913).
ExpiryAnnounced == forced = "time limit" /\ ~changed => announced = 1

\* A caller is put out for inactivity only while the limit is in force and only
\* if he pressed no key for longer than it: bytes that wait in the port when
\* od_kernel is called count as keys, and time in a child and before od_inactivity
\* was seen to be set does not count.  Time in which od_disable_inactivity
\* suspends the limit does count: it leaves the last activity alone
\* (ODKrnl.c:364-387, 829-856; ODSpawn.c:663; customization.md:967-972).
BusyCallerStays ==
    forced = "inactivity" => silent > Inactivity /\ ~od_disable_inactivity
=============================================================================
