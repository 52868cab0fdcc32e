------------------------------- MODULE Timer -------------------------------
(***************************************************************************)
(* Timers on a tick counter that wraps (src/src/ODPlat.c, ODTimerStart,    *)
(* ODTimerElapsed, ODTimerLeft, ODTimerWaitForElapse).  The counter is the *)
(* BIOS clock under DOS, 18.2 ticks a second and back to 0 at midnight in  *)
(* the 32-bit build, and a 32-bit count of milliseconds elsewhere.         *)
(***************************************************************************)
EXTENDS Integers

CONSTANTS
    Ticks,        \* milliseconds in a tick, of one counter and another: 55, 1
    Period,       \* milliseconds until a counter is 0 again: 2^32, or a day's
    MaxDuration,  \* the longest time anybody waits for
    Lag           \* the longest time between two looks at the timer, and after a sleep

TimerAssumption ==
    /\ Ticks \subseteq Nat \ {0} /\ {Period, Lag} \subseteq Nat \ {0}
    /\ MaxDuration \in Nat
    /\ \A t \in Ticks : Period % t = 0 /\ MaxDuration + Lag + 2 * t <= Period

VARIABLES
    tick,             \* the milliseconds in a tick of this system's counter
    now,              \* the time, as far as the counter knows it, in milliseconds
    Start, Duration,  \* pTimer, in ticks
    state,            \* "idle", "waiting" for the timer, or "elapsed"
    wanted,           \* history: the milliseconds that were asked for
    age               \* history: the milliseconds since then

timerVars == <<tick, now, Start, Duration, state, wanted, age>>

TimerInit ==
    /\ tick \in Ticks
    /\ now = 0 /\ Start = 0 /\ Duration = 0 /\ state = "idle" /\ wanted = 0 /\ age = 0

Counter == now \div tick

\* Mutant: no thought of midnight.
ElapsedToday == Counter - Start

\* Unsigned subtraction, or what the 32-bit DOS build does at midnight.
Elapsed == IF Counter >= Start THEN Counter - Start ELSE Period \div tick - Start + Counter

\* ODTimerLeft, in milliseconds.
Left == IF Elapsed >= Duration THEN 0 ELSE (Duration - Elapsed) * tick

Passes(time) ==
    /\ now' = (now + time) % Period
    /\ age' = age + time

\* ODTimerStart: a time that is no whole number of ticks is rounded up.
StartTimer(milliseconds) ==
    /\ state = "idle" /\ state' = "waiting"
    /\ Start' = Counter
    /\ Duration' = milliseconds \div tick + (IF milliseconds % tick # 0 THEN 1 ELSE 0)
    /\ wanted' = milliseconds /\ age' = 0
    /\ UNCHANGED <<tick, now>>

\* ODTimerElapsed is asked in a loop that does other things, or nothing.
Poll ==
    /\ state = "waiting" /\ Left > 0
    /\ \E time \in 1..Lag : Passes(time)
    /\ UNCHANGED <<tick, Start, Duration, state, wanted>>

FindElapsed ==
    /\ state = "waiting" /\ Left = 0 /\ state' = "elapsed"
    /\ UNCHANGED <<tick, now, Start, Duration, wanted, age>>

\* Where the system can sleep that long, the timer is not asked again.
SleepLeft ==
    /\ state = "waiting" /\ tick = 1 /\ Left > 0 /\ state' = "elapsed"
    /\ \E late \in 0..Lag : Passes(Left + late)
    /\ UNCHANGED <<tick, Start, Duration, wanted>>

\* Any time later.
Finish ==
    /\ state = "elapsed" /\ state' = "idle" /\ age' = 0
    /\ now' \in 0..(Period - 1)
    /\ UNCHANGED <<tick, Start, Duration, wanted>>

TimerNext ==
    \/ \E milliseconds \in 0..MaxDuration : StartTimer(milliseconds)
    \/ Poll \/ FindElapsed \/ SleepLeft \/ Finish

TimerSpec == TimerInit /\ [][TimerNext]_timerVars
-----------------------------------------------------------------------------
TimerTypeOK ==
    /\ tick \in Ticks /\ now \in 0..(Period - 1)
    /\ Start \in 0..(Period \div tick - 1)
    /\ Duration \in 0..(MaxDuration \div tick + 1)
    /\ state \in {"idle", "waiting", "elapsed"}
    /\ wanted \in 0..MaxDuration /\ age \in Nat

\* A wait ends when the time has passed, whatever the counter shows when it
\* begins and if it wraps in between: not more than a tick too early, and not
\* more than a tick and a look too late (ODPlat.c:911-972).
TimersKeepTime ==
    /\ age < wanted + tick + Lag
    /\ state = "elapsed" => age > wanted - tick
=============================================================================
