------------------------- MODULE ApplicationProofs -------------------------
(***************************************************************************)
(* What Application promises of the caller's time, of timers, of the       *)
(* operator's window, of fields that are edited and of drop files, for     *)
(* every value of the constants.                                           *)
(*                                                                         *)
(* A step of the application is a step of one part, and leaves the         *)
(* variables of the others alone; so each property has an invariant that   *)
(* speaks of one part, and the lemmas TimeMoves, TimerMoves, ScreenMoves,  *)
(* FieldMoves and FileMoves reduce a step of the application to a step of  *)
(* that part.                                                              *)
(*                                                                         *)
(* What a part's variables hold is proved after its invariant and with it  *)
(* (TimeTyped, TimerTyped, ScreenTyped, FieldTyped and FileTyped); of the  *)
(* session it is a theorem of SessionProofs.                               *)
(***************************************************************************)
EXTENDS Application, SessionProofs, SequenceTheorems

LEMMA TimeMoves ==
    ASSUME [ApplicationNext]_applicationVars
    PROVE  Time!TimeNext \/ UNCHANGED timeVars
BY DEF ApplicationNext, SessionStep, TimeStep, FieldStep, TimerStep, FileStep,
   ScreenStep, applicationVars, timeVars

LEMMA TimerMoves ==
    ASSUME [ApplicationNext]_applicationVars
    PROVE  Wait!TimerNext \/ UNCHANGED timerVars
BY DEF ApplicationNext, SessionStep, TimeStep, FieldStep, TimerStep, FileStep,
   ScreenStep, applicationVars, timerVars

LEMMA ScreenMoves ==
    ASSUME [ApplicationNext]_applicationVars
    PROVE  Shown!ScreenNext \/ UNCHANGED screenVars
BY DEF ApplicationNext, SessionStep, TimeStep, FieldStep, TimerStep, FileStep,
   ScreenStep, applicationVars, screenVars

LEMMA FieldMoves ==
    ASSUME [ApplicationNext]_applicationVars
    PROVE  Edit!EditNext \/ UNCHANGED editVars
BY DEF ApplicationNext, SessionStep, TimeStep, FieldStep, TimerStep, FileStep,
   ScreenStep, applicationVars, editVars

LEMMA FileMoves ==
    ASSUME [ApplicationNext]_applicationVars
    PROVE  Drop!DropFileNext \/ UNCHANGED dropFileVars
BY DEF ApplicationNext, SessionStep, TimeStep, FieldStep, TimerStep, FileStep,
   ScreenStep, applicationVars, dropFileVars

---------------------------------------------------------------------------
(* Arithmetic.                                                             *)

LEMMA Monotonic ==
    ASSUME NEW a \in Int, NEW b \in Int, NEW t \in Nat, a <= b
    PROVE  a * t <= b * t
<1>1. (b - a) * t >= 0
  OBVIOUS
<1>2. (b - a) * t = b * t - a * t
  OBVIOUS
<1> QED
  BY <1>1, <1>2

LEMMA Division ==
    ASSUME NEW t \in Nat \ {0}, NEW n \in Nat
    PROVE  /\ n \div t \in Nat /\ n % t \in 0..(t - 1)
           /\ n = (n \div t) * t + (n % t)
OBVIOUS

---------------------------------------------------------------------------
(* The caller's time.                                                      *)

ChargeInv ==
    /\ due \in Int /\ unpaid \in Int /\ behind \in Nat
    /\ MinutesChargedOnce

LEMMA ChargeStep ==
    ASSUME ChargeInv, SpawnModes \subseteq {"frozen"}, Time!TimeNext
    PROVE  ChargeInv'
<1> USE DEF ChargeInv, MinutesChargedOnce, Time!MinutesChargedOnce
<1> Minute \in Nat \ {0}
  BY ApplicationAssumption DEF Time!TimeAssumption
<1>1. CASE Time!Tick
  BY <1>1 DEF Time!Tick
<1>2. CASE Time!Arrive
  BY <1>2 DEF Time!Arrive, Time!account
<1>3. CASE Time!PressLocalKey
  BY <1>3 DEF Time!PressLocalKey, Time!account
<1>4. CASE Time!SetInactivity
  BY <1>4 DEF Time!SetInactivity, Time!account
<1>14. CASE Time!ToggleInactivity
  BY <1>14 DEF Time!ToggleInactivity, Time!account
<1>5. CASE Time!ToggleChat
  BY <1>5 DEF Time!ToggleChat, Time!account
<1>6. CASE \E change \in {-1, 1} : Time!ChangeLimit(change)
  BY <1>6 DEF Time!ChangeLimit
<1>7. CASE \E mode \in SpawnModes, time \in 1..(2 * Minute) : Time!Spawn(mode, time)
  BY <1>7 DEF Time!Spawn, Time!account
<1>8. CASE Time!Begin
  BY <1>8 DEF Time!Begin, Time!account
<1>9. CASE Time!CheckInactivity
  BY <1>9 DEF Time!CheckInactivity, Time!account
<1>10. CASE Time!CheckChat
  BY <1>10 DEF Time!CheckChat
<1>11. CASE Time!Deduct
  BY <1>11 DEF Time!Deduct
<1>12. CASE Time!CheckLimit
  BY <1>12 DEF Time!CheckLimit, Time!account
<1>13. CASE Time!Deliver
  BY <1>13 DEF Time!Deliver, Time!Reason
<1> QED
  BY <1>1, <1>2, <1>3, <1>4, <1>5, <1>6, <1>7, <1>8, <1>9, <1>10, <1>11, <1>12,
     <1>13, <1>14 DEF Time!TimeNext
\* Until somebody changes the limit, the caller last heard of the minutes that
\* are left, or of the last one when none is.
Informed ==
    /\ user_timelimit \in 1..3 => announced = user_timelimit
    /\ user_timelimit <= 0 => announced = 1

AnnounceInv ==
    /\ user_timelimit \in Int
    /\ forced = "no" <=> pass # "ended"
    /\ pass = "minutes" => user_timelimit \in 1..3
    /\ pass = "expired" => user_timelimit <= 0 /\ ~disTimeout
    /\ pass \notin {"minutes", "ended"} /\ ~disTimeout /\ ~changed => Informed
    /\ ExpiryAnnounced

LEMMA Reasons ==
    /\ Time!Reason["inactive"] = "inactivity" /\ Time!Reason["expired"] = "time limit"
    /\ Time!Reason["warn"] = "no" /\ Time!Reason["minutes"] = "no"
BY DEF Time!Reason

LEMMA AnnounceStep ==
    ASSUME AnnounceInv, SpawnModes \subseteq {"frozen"}, Time!TimeNext
    PROVE  AnnounceInv'
<1> USE DEF AnnounceInv, ExpiryAnnounced, Time!ExpiryAnnounced, Informed
<1>1. CASE Time!Tick
  BY <1>1 DEF Time!Tick, Time!said
<1>2. CASE Time!Arrive
  BY <1>2 DEF Time!Arrive, Time!account, Time!said
<1>3. CASE Time!PressLocalKey
  BY <1>3 DEF Time!PressLocalKey, Time!account, Time!said
<1>4. CASE Time!SetInactivity
  BY <1>4 DEF Time!SetInactivity, Time!account, Time!said
<1>14. CASE Time!ToggleInactivity
  BY <1>14 DEF Time!ToggleInactivity, Time!account, Time!said
<1>5. CASE Time!ToggleChat
  BY <1>5 DEF Time!ToggleChat, Time!account, Time!said
<1>6. CASE \E change \in {-1, 1} : Time!ChangeLimit(change)
  BY <1>6 DEF Time!ChangeLimit
<1>7. CASE \E mode \in SpawnModes, time \in 1..(2 * Minute) : Time!Spawn(mode, time)
  BY <1>7 DEF Time!Spawn, Time!account, Time!said
<1>8. CASE Time!Begin
  BY <1>8 DEF Time!Begin, Time!account, Time!said
<1>9. CASE Time!CheckInactivity
  BY <1>9 DEF Time!CheckInactivity, Time!account, Time!said
<1>10. CASE Time!CheckChat
  BY <1>10 DEF Time!CheckChat, Time!said
<1>11. CASE Time!Deduct
  BY <1>11 DEF Time!Deduct, Time!said
<1>12. CASE Time!CheckLimit
  BY <1>12 DEF Time!CheckLimit, Time!account, Time!said
<1>13. CASE Time!Deliver
  <2>1. user_timelimit \in Int
    OBVIOUS
  <2>2. /\ pass = "minutes" => user_timelimit \in 1..3
        /\ ~changed /\ ~disTimeout /\ pass # "minutes" => Informed
        /\ pass = "expired" => user_timelimit <= 0 /\ ~disTimeout
    BY <1>13 DEF Time!Deliver
  <2>3. /\ pass \in {"inactive", "warn", "minutes", "expired"}
        /\ pass' = IF forced' # "no" THEN "ended" ELSE IF pass = "warn" THEN "chat" ELSE "deduct"
        /\ disTimeout' = disTimeout
    BY <1>13 DEF Time!Deliver
  <2> HIDE DEF AnnounceInv, ExpiryAnnounced, Time!ExpiryAnnounced, Informed
  <2>4. PICK gift \in 0..1 :
           /\ user_timelimit' = user_timelimit + gift
           /\ changed' <=> gift > 0 \/ (changed /\ pass # "minutes")
           /\ announced' = IF pass = "minutes" THEN user_timelimit ELSE announced
           /\ forced' = "application" \/ forced' = Time!Reason[pass]
    BY <1>13 DEF Time!Deliver
  <2>5. user_timelimit' \in Int /\ (~changed' => user_timelimit' = user_timelimit)
    BY <2>1, <2>4
  <2>6. ~changed' => ~changed \/ pass = "minutes"
    BY <2>4
  <2>7. forced' = "time limit" => pass = "expired"
    BY <2>3, <2>4, Reasons
  <2>8. announced' = IF pass = "minutes" THEN user_timelimit ELSE announced
    BY <2>4
  <2>9. pass' \in {"ended", "chat", "deduct"} /\ (forced' = "no" <=> pass' # "ended")
    BY <2>3
  <2>10. ~changed' /\ ~disTimeout => Informed'
    BY <2>2, <2>5, <2>6, <2>8 DEF Informed
  <2>11. ExpiryAnnounced'
    BY <2>2, <2>5, <2>6, <2>7, <2>8 DEF ExpiryAnnounced, Time!ExpiryAnnounced, Informed
  <2> QED
    BY <2>3, <2>5, <2>9, <2>10, <2>11 DEF AnnounceInv
<1> QED
  BY <1>1, <1>2, <1>3, <1>4, <1>5, <1>6, <1>7, <1>8, <1>9, <1>10, <1>11, <1>12,
     <1>13, <1>14 DEF Time!TimeNext

\* Once od_inactivity was seen to be set, and while no byte waits in the port, a
\* caller is idle no longer than he was silent; and a pass that puts him out has
\* seen the limit in force.
InactivityInv ==
    /\ idle \in Nat /\ silent \in Nat /\ od_inactivity \in {0, Inactivity}
    /\ forced = "no" <=> pass # "ended"
    /\ nLastInactivitySetting # 0 /\ (pass # "idle" \/ ~port) => idle <= silent
    /\ pass = "inactive" => silent > Inactivity /\ ~od_disable_inactivity
    /\ BusyCallerStays

\* The lesser of two times that are counted up to a longest.
LEMMA CountUp ==
    ASSUME NEW a \in Nat, NEW b \in Nat
    PROVE  /\ Time!Min({a, b}) \in Nat
           /\ Time!Min({a, b}) = IF a <= b THEN a ELSE b
<1> DEFINE m == IF a <= b THEN a ELSE b
<1>1. m \in {a, b} /\ \A y \in {a, b} : m <= y
  OBVIOUS
<1>2. \A x \in {a, b} : (\A y \in {a, b} : x <= y) => x = m
  OBVIOUS
<1>3. Time!Min({a, b}) = m
  BY <1>1, <1>2 DEF Time!Min
<1> QED
  BY <1>3

LEMMA InactivityStep ==
    ASSUME InactivityInv, Time!TimeNext
    PROVE  InactivityInv'
<1> USE DEF InactivityInv, BusyCallerStays, Time!BusyCallerStays
<1> Minute \in Nat \ {0} /\ Inactivity \in Nat \ {0} /\ Warning \in Nat \ {0}
  BY ApplicationAssumption DEF Time!TimeAssumption
<1>1. CASE Time!Tick
  <2> idle + 1 \in Nat /\ silent + 1 \in Nat /\ Time!Longest \in Nat
    BY DEF Time!Longest
  <2>1. /\ idle' = Time!Min({idle + 1, Time!Longest})
        /\ silent' = Time!Min({silent + 1, Time!Longest})
        /\ forced = "no"
        /\ UNCHANGED <<od_inactivity, od_disable_inactivity, nLastInactivitySetting, pass, port,
                       forced>>
    BY <1>1 DEF Time!Tick, Time!inactivity
  <2>2. /\ idle' = IF idle + 1 <= Time!Longest THEN idle + 1 ELSE Time!Longest
        /\ silent' = IF silent + 1 <= Time!Longest THEN silent + 1 ELSE Time!Longest
        /\ idle' \in Nat /\ silent' \in Nat
    BY <2>1, CountUp
  <2> QED
    BY <2>1, <2>2 DEF Time!Longest
<1>2. CASE Time!Arrive
  BY <1>2 DEF Time!Arrive, Time!activity, Time!inactivity
<1>3. CASE Time!PressLocalKey
  BY <1>3 DEF Time!PressLocalKey, Time!inactivity
<1>4. CASE Time!SetInactivity
  BY <1>4 DEF Time!SetInactivity, Time!activity, Time!inactivity
<1>14. CASE Time!ToggleInactivity
  BY <1>14 DEF Time!ToggleInactivity
<1>5. CASE Time!ToggleChat
  BY <1>5 DEF Time!ToggleChat, Time!activity, Time!inactivity
<1>6. CASE \E change \in {-1, 1} : Time!ChangeLimit(change)
  BY <1>6 DEF Time!ChangeLimit, Time!activity, Time!inactivity
<1>7. CASE \E mode \in SpawnModes, time \in 1..(2 * Minute) : Time!Spawn(mode, time)
  BY <1>7 DEF Time!Spawn, Time!activity, Time!inactivity
<1>8. CASE Time!Begin
  BY <1>8 DEF Time!Begin, Time!inactivity
<1>9. CASE Time!CheckInactivity
  BY <1>9 DEF Time!CheckInactivity, Time!InForce
<1>10. CASE Time!CheckChat
  BY <1>10 DEF Time!CheckChat, Time!activity, Time!inactivity
<1>11. CASE Time!Deduct
  BY <1>11 DEF Time!Deduct, Time!activity, Time!inactivity
<1>12. CASE Time!CheckLimit
  BY <1>12 DEF Time!CheckLimit, Time!activity, Time!inactivity
<1>13. CASE Time!Deliver
  <2>1. /\ pass \in {"inactive", "warn", "minutes", "expired"}
        /\ forced' = "application" \/ forced' = Time!Reason[pass]
        /\ pass' = IF forced' # "no" THEN "ended" ELSE IF pass = "warn" THEN "chat" ELSE "deduct"
        /\ UNCHANGED <<idle, silent, od_inactivity, od_disable_inactivity, nLastInactivitySetting,
                       port>>
    BY <1>13 DEF Time!Deliver
  <2>2. forced' = "inactivity" => pass = "inactive"
    BY <2>1, Reasons
  <2> QED
    BY <2>1, <2>2
<1> QED
  BY <1>1, <1>2, <1>3, <1>4, <1>5, <1>6, <1>7, <1>8, <1>9, <1>10, <1>11, <1>12,
     <1>13, <1>14 DEF Time!TimeNext
\* If no child's time is charged (P_WAIT with od_spawn_freeze_time), every
\* minute online is charged once, with any lengths of time and any lag.
THEOREM ChargedOnce ==
    ASSUME SpawnModes \subseteq {"frozen"}
    PROVE  ApplicationSpec => []MinutesChargedOnce
<1>1. ApplicationInit => ChargeInv
  BY ApplicationAssumption DEF ApplicationInit, Time!Init, ChargeInv, MinutesChargedOnce,
     Time!MinutesChargedOnce, Time!TimeAssumption
<1>2. ASSUME ChargeInv, [ApplicationNext]_applicationVars PROVE ChargeInv'
  <2>1. CASE Time!TimeNext
    BY <1>2, <2>1, ChargeStep
  <2>2. CASE UNCHANGED timeVars
    BY <1>2, <2>2 DEF timeVars, ChargeInv, MinutesChargedOnce, Time!MinutesChargedOnce
  <2> QED
    BY <1>2, <2>1, <2>2, TimeMoves
<1>3. ChargeInv => MinutesChargedOnce
  BY DEF ChargeInv
<1> QED
  BY <1>1, <1>2, <1>3, PTL DEF ApplicationSpec

\* Under the same assumption, a caller whose limit nobody changes is told of
\* the last minute before it puts him out, however late od_kernel is called.
THEOREM LastMinuteAnnounced ==
    ASSUME SpawnModes \subseteq {"frozen"}
    PROVE  ApplicationSpec => []ExpiryAnnounced
<1>1. ApplicationInit => AnnounceInv
  BY ApplicationAssumption DEF ApplicationInit, Time!Init, AnnounceInv, ExpiryAnnounced,
     Time!ExpiryAnnounced, Informed, Time!TimeAssumption
<1>2. ASSUME AnnounceInv, [ApplicationNext]_applicationVars PROVE AnnounceInv'
  <2>1. CASE Time!TimeNext
    BY <1>2, <2>1, AnnounceStep
  <2>2. CASE UNCHANGED timeVars
    BY <1>2, <2>2 DEF timeVars, AnnounceInv, ExpiryAnnounced, Time!ExpiryAnnounced, Informed
  <2> QED
    BY <1>2, <2>1, <2>2, TimeMoves
<1>3. AnnounceInv => ExpiryAnnounced
  BY DEF AnnounceInv
<1> QED
  BY <1>1, <1>2, <1>3, PTL DEF ApplicationSpec

\* Nobody is put out for inactivity who pressed a key in time, or while the limit
\* is suspended, whatever children run and whenever od_inactivity and
\* od_disable_inactivity are changed; time in which the latter suspends the limit
\* counts, as it does in the code.
THEOREM BusyStays == ApplicationSpec => []BusyCallerStays
<1>1. ApplicationInit => InactivityInv
  BY ApplicationAssumption DEF ApplicationInit, Time!Init, InactivityInv, BusyCallerStays,
     Time!BusyCallerStays, Time!TimeAssumption
<1>2. ASSUME InactivityInv, [ApplicationNext]_applicationVars PROVE InactivityInv'
  <2>1. CASE Time!TimeNext
    BY <1>2, <2>1, InactivityStep
  <2>2. CASE UNCHANGED timeVars
    BY <1>2, <2>2 DEF timeVars, InactivityInv, BusyCallerStays, Time!BusyCallerStays
  <2> QED
    BY <1>2, <2>1, <2>2, TimeMoves
<1>3. InactivityInv => BusyCallerStays
  BY DEF InactivityInv
<1> QED
  BY <1>1, <1>2, <1>3, PTL DEF ApplicationSpec

\* What the variables hold.
Ended == forced \in {"no", "inactivity", "time limit", "application"}

\* The limit sinks below zero only by minutes that are over and by a child's.
TimeTyped ==
    /\ user_timelimit \in -(MaxLag + 3)..MaxLimit
    /\ due \in -MaxLag..Minute /\ behind \in 0..MaxLag
    /\ unpaid \in Int /\ idle \in 0..Time!Longest /\ silent \in 0..Time!Longest
    /\ od_inactivity \in {0, Inactivity} /\ nLastInactivitySetting \in {0, Inactivity}
    /\ od_disable_inactivity \in BOOLEAN
    /\ bWarnedAboutInactivity \in BOOLEAN /\ od_chat_active \in BOOLEAN
    /\ disTimeout \in BOOLEAN /\ port \in BOOLEAN /\ changed \in BOOLEAN
    /\ pass \in {"idle", "polled", "keyed", "inactive", "warn", "chat", "deduct", "minutes",
                 "expired", "ended"}
    /\ announced \in 1..MaxLimit
    /\ user_timelimit + due >= -MaxLag - 2
    /\ pass = "minutes" => user_timelimit \in 1..3

LEMMA TimeTypeStep ==
    ASSUME TimeTyped, Time!TimeNext
    PROVE  TimeTyped'
<1> USE DEF TimeTyped
<1> /\ Minute \in Nat \ {0} /\ Inactivity \in Nat \ {0} /\ Warning \in Nat \ {0}
    /\ MaxLag \in Nat /\ MaxLimit \in Nat \ {0} /\ Time!Longest \in Nat
  BY ApplicationAssumption DEF Time!TimeAssumption, Time!Longest
<1>1. CASE Time!Tick
  <2> idle + 1 \in Nat /\ silent + 1 \in Nat
    OBVIOUS
  <2>1. /\ idle' = Time!Min({idle + 1, Time!Longest})
        /\ silent' = Time!Min({silent + 1, Time!Longest})
    BY <1>1 DEF Time!Tick
  <2>2. idle' \in 0..Time!Longest /\ silent' \in 0..Time!Longest
    BY <2>1, CountUp
  <2> QED
    BY <1>1, <2>2 DEF Time!Tick, Time!inactivity, Time!said, Time!Longest
<1>2. CASE Time!Arrive
  BY <1>2 DEF Time!Arrive, Time!account, Time!activity, Time!inactivity, Time!said, Time!Longest
<1>3. CASE Time!PressLocalKey
  BY <1>3 DEF Time!PressLocalKey, Time!inactivity, Time!account, Time!said, Time!Longest
<1>4. CASE Time!SetInactivity
  BY <1>4 DEF Time!SetInactivity, Time!account, Time!said, Time!Longest
<1>14. CASE Time!ToggleInactivity
  BY <1>14 DEF Time!ToggleInactivity, Time!account, Time!said, Time!Longest
<1>5. CASE Time!ToggleChat
  BY <1>5 DEF Time!ToggleChat, Time!account, Time!activity, Time!inactivity, Time!said, Time!Longest
<1>6. CASE \E change \in {-1, 1} : Time!ChangeLimit(change)
  BY <1>6 DEF Time!ChangeLimit, Time!activity, Time!inactivity, Time!Longest
<1>7. CASE \E mode \in SpawnModes, time \in 1..(2 * Minute) : Time!Spawn(mode, time)
  <2>1. PICK mode \in SpawnModes, time \in 1..(2 * Minute) : Time!Spawn(mode, time)
    BY <1>7
  <2>2. time \div Minute \in 0..2
    <3>1. /\ time \div Minute \in Nat /\ time % Minute \in 0..(Minute - 1)
          /\ time = (time \div Minute) * Minute + (time % Minute)
      <4> time \in Nat
        OBVIOUS
      <4> QED
        BY Division
    <3>2. CASE time \div Minute >= 3
      <4>1. (time \div Minute) * Minute >= 3 * Minute
        BY <3>1, <3>2, Monotonic
      <4> QED
        BY <3>1, <4>1
    <3> QED
      BY <3>1, <3>2
  <2> DEFINE minutes == time \div Minute
  <2>3. (time \div Minute) * Minute \in Int
    BY <2>2
  <2>4. /\ user_timelimit >= 0 /\ pass = "idle"
        /\ \/ UNCHANGED <<user_timelimit, due, unpaid>>
           \/ /\ due - time >= -MaxLag /\ due' = due - time
              /\ user_timelimit' = user_timelimit - time \div Minute
              /\ unpaid' = unpaid + time - (time \div Minute) * Minute
        /\ idle' = 0 /\ silent' = 0 /\ port' = FALSE
        /\ UNCHANGED <<od_inactivity, od_disable_inactivity, nLastInactivitySetting,
                       bWarnedAboutInactivity, od_chat_active, disTimeout, pass, behind, forced, announced, changed>>
    BY <2>1 DEF Time!Spawn, Time!inactivity, Time!account, Time!said
  <2>5. /\ user_timelimit' \in -(MaxLag + 3)..MaxLimit /\ due' \in -MaxLag..Minute
        /\ user_timelimit' + due' >= -MaxLag - 2 /\ unpaid' \in Int
    BY <2>2, <2>3, <2>4
  <2>6. 0 \in 0..Time!Longest
    OBVIOUS
  <2> QED
    BY <2>4, <2>5, <2>6
<1>8. CASE Time!Begin
  <2>1. /\ pass' = "polled" /\ port' = FALSE
        /\ silent' \in {0, silent} /\ idle' \in {0, idle}
        /\ UNCHANGED <<user_timelimit, due, unpaid, od_inactivity, od_disable_inactivity,
                       nLastInactivitySetting, bWarnedAboutInactivity, od_chat_active, disTimeout, behind, announced,
                       changed>>
    BY <1>8 DEF Time!Begin, Time!inactivity, Time!account, Time!said
  <2>2. silent' \in 0..Time!Longest /\ idle' \in 0..Time!Longest
    BY <2>1
  <2> QED
    BY <2>1, <2>2
<1>9. CASE Time!CheckInactivity
  <2>1. /\ pass' \in {"inactive", "warn", "chat"} /\ behind' = 0
        /\ nLastInactivitySetting' = od_inactivity /\ bWarnedAboutInactivity' \in BOOLEAN
        /\ silent' \in {0, silent} /\ idle' \in {0, idle}
        /\ UNCHANGED <<user_timelimit, due, unpaid, od_inactivity, od_disable_inactivity,
                       od_chat_active, disTimeout, port, announced, changed>>
    BY <1>9 DEF Time!CheckInactivity, Time!account, Time!said
  <2>2. silent' \in 0..Time!Longest /\ idle' \in 0..Time!Longest /\ behind' \in 0..MaxLag
    BY <2>1
  <2> QED
    BY <2>1, <2>2
<1>10. CASE Time!CheckChat
  BY <1>10 DEF Time!CheckChat, Time!activity, Time!inactivity, Time!said, Time!Longest
<1>11. CASE Time!Deduct
  BY <1>11 DEF Time!Deduct, Time!activity, Time!inactivity, Time!said, Time!Longest
<1>12. CASE Time!CheckLimit
  BY <1>12 DEF Time!CheckLimit, Time!account, Time!activity, Time!inactivity, Time!said, Time!Longest
<1>13. CASE Time!Deliver
  <2>1. /\ pass \in {"inactive", "warn", "minutes", "expired"}
        /\ pass' = IF forced' # "no" THEN "ended" ELSE IF pass = "warn" THEN "chat" ELSE "deduct"
        /\ announced' = IF pass = "minutes" THEN user_timelimit ELSE announced
        /\ bWarnedAboutInactivity' \in BOOLEAN
        /\ UNCHANGED <<due, unpaid, idle, od_inactivity, od_disable_inactivity,
                       nLastInactivitySetting, od_chat_active, disTimeout, behind, port, silent>>
    BY <1>13 DEF Time!Deliver
  <2>2. PICK gift \in 0..1, ends \in BOOLEAN :
           /\ user_timelimit + gift <= MaxLimit
           /\ user_timelimit' = user_timelimit + gift
           /\ changed' = (gift > 0 \/ (changed /\ pass # "minutes"))
           /\ forced' = IF ends THEN "application" ELSE Time!Reason[pass]
    BY <1>13 DEF Time!Deliver
  <2>4. /\ user_timelimit' \in -(MaxLag + 3)..MaxLimit /\ changed' \in BOOLEAN
        /\ user_timelimit' + due' >= -MaxLag - 2
    BY <2>1, <2>2
  <2>5. announced' \in 1..MaxLimit
    BY <2>1
  <2> QED
    BY <2>1, <2>4, <2>5 DEF Time!Longest
<1> QED
  BY <1>1, <1>2, <1>3, <1>4, <1>5, <1>6, <1>7, <1>8, <1>9, <1>10, <1>11, <1>12,
     <1>13, <1>14 DEF Time!TimeNext

LEMMA EndedStep ==
    ASSUME Ended, Time!TimeNext
    PROVE  Ended'
<1>1. CASE forced' = forced
  BY <1>1 DEF Ended
<1>2. CASE Time!Deliver
  <2>1. /\ pass \in {"inactive", "warn", "minutes", "expired"}
        /\ forced' = "application" \/ forced' = Time!Reason[pass]
    BY <1>2 DEF Time!Deliver
  <2> QED
    BY <2>1, Reasons, Zenon DEF Ended
<1> QED
  BY <1>1, <1>2, Zenon DEF Time!TimeNext, Time!Tick, Time!Arrive, Time!PressLocalKey,
     Time!SetInactivity, Time!ToggleInactivity, Time!ToggleChat, Time!ChangeLimit, Time!Spawn, Time!Begin,
     Time!CheckInactivity, Time!CheckChat, Time!Deduct, Time!CheckLimit

LEMMA TimeTypedInit == ApplicationInit => TimeTyped
<1> HAVE ApplicationInit
<1>1. /\ user_timelimit \in 1..MaxLimit /\ due = Minute /\ unpaid = 0
      /\ idle = 0 /\ od_inactivity = Inactivity /\ nLastInactivitySetting = 0
      /\ bWarnedAboutInactivity = FALSE /\ od_disable_inactivity = FALSE
      /\ od_chat_active = FALSE /\ disTimeout \in BOOLEAN
      /\ pass = "idle" /\ behind = 0 /\ port = FALSE
      /\ announced = user_timelimit /\ changed = FALSE /\ silent = 0
  BY DEF ApplicationInit, Time!Init
<1>2. /\ Minute \in Nat \ {0} /\ Inactivity \in Nat \ {0} /\ Warning \in Nat \ {0}
      /\ MaxLag \in Nat /\ MaxLimit \in Nat \ {0} /\ Time!Longest \in Nat
  BY ApplicationAssumption DEF Time!TimeAssumption, Time!Longest
<1>3. /\ user_timelimit \in -(MaxLag + 3)..MaxLimit /\ due \in -MaxLag..Minute
      /\ user_timelimit + due >= -MaxLag - 2
  BY <1>1, <1>2
<1>4. unpaid \in Int /\ behind \in 0..MaxLag /\ announced \in 1..MaxLimit
  BY <1>1, <1>2
<1>5. idle \in 0..Time!Longest /\ silent \in 0..Time!Longest
  BY <1>1, <1>2
<1> QED
  BY <1>1, <1>3, <1>4, <1>5 DEF TimeTyped

LEMMA TimeTypedStep ==
    ASSUME TimeTyped, Ended, [ApplicationNext]_applicationVars
    PROVE  TimeTyped' /\ Ended'
<1>1. CASE Time!TimeNext
  BY <1>1, TimeTypeStep, EndedStep
<1>2. CASE UNCHANGED timeVars
  <2>1. TimeTyped'
    BY <1>2 DEF timeVars, TimeTyped, Time!Longest
  <2>2. Ended'
    BY <1>2, Zenon DEF timeVars, Ended
  <2> QED
    BY <2>1, <2>2
<1> QED
  BY <1>1, <1>2, TimeMoves

LEMMA TimeIsTyped ==
    ASSUME TimeTyped, Ended
    PROVE  Time!TypeOK
<1>1. /\ {od_inactivity, nLastInactivitySetting} \subseteq {0, Inactivity}
      /\ {od_disable_inactivity, bWarnedAboutInactivity, od_chat_active, disTimeout, port,
          changed} \subseteq BOOLEAN
  BY DEF TimeTyped
<1> QED
  BY <1>1, Zenon DEF TimeTyped, Ended, Time!TypeOK

---------------------------------------------------------------------------
(* Timers.                                                                 *)

LEMMA DivisionUnique ==
    ASSUME NEW t \in Nat \ {0}, NEW n \in Nat, NEW q \in Int, NEW r \in 0..(t - 1),
           n = q * t + r
    PROVE  n \div t = q /\ n % t = r
<1> DEFINE d == n \div t
<1>1. d \in Nat /\ n % t \in 0..(t - 1) /\ n = d * t + (n % t)
  BY Division
<1> HIDE DEF d
<1>2. CASE q + 1 <= d
  <2>1. (q + 1) * t <= d * t
    BY <1>1, <1>2, Monotonic
  <2>2. (q + 1) * t = q * t + t
    OBVIOUS
  <2> QED
    BY <1>1, <2>1, <2>2
<1>3. CASE d + 1 <= q
  <2>1. (d + 1) * t <= q * t
    BY <1>1, <1>3, Monotonic
  <2>2. (d + 1) * t = d * t + t
    BY <1>1
  <2> QED
    BY <1>1, <2>1, <2>2
<1>4. CASE d = q
  BY <1>1, <1>4 DEF d
<1> QED
  BY <1>1, <1>2, <1>3, <1>4

\* A counter of q ticks of t milliseconds is at millisecond n when m have
\* passed since its tick s began, and has not gone full circle.
OnCircle(t, q, s, m, n) ==
    /\ t \in Nat \ {0} /\ q \in Nat
    /\ s \in Nat /\ s < q
    /\ m \in Nat /\ m < q * t
    /\ n \in Nat /\ n < q * t
    /\ n = s * t + m \/ n + q * t = s * t + m

\* What a timer that was started at tick s shows then: the whole ticks of m.
LEMMA Circle ==
    ASSUME NEW t, NEW q, NEW s, NEW m, NEW n, OnCircle(t, q, s, m, n)
    PROVE  /\ n \div t \in Nat
           /\ n \div t >= s => n \div t - s = m \div t
           /\ ~(n \div t >= s) => q - s + (n \div t) = m \div t
           /\ n % t = m % t
<1> USE DEF OnCircle
<1> DEFINE e == m \div t
           f == m % t
<1>1. e \in Nat /\ f \in 0..(t - 1) /\ m = e * t + f
  BY Division
<1> HIDE DEF e, f
<1>2. e < q
  <2>1. CASE q <= e
    <3>1. q * t <= e * t
      BY <1>1, <2>1, Monotonic
    <3> QED
      BY <1>1, <3>1
  <2> QED
    BY <1>1, <2>1
<1>3. (s + e) * t = s * t + e * t /\ (s + e - q) * t = s * t + e * t - q * t
  BY <1>1
<1>4. {s * t, e * t, q * t} \subseteq Int
  BY <1>1
<1>5. CASE s + e < q
  <2>1. (s + e + 1) * t <= q * t
    BY <1>1, <1>5, Monotonic
  <2>2. (s + e + 1) * t = s * t + e * t + t
    BY <1>1
  <2>3. n = (s + e) * t + f
    BY <1>1, <1>3, <1>4, <2>1, <2>2
  <2>4. n \div t = s + e /\ n % t = f
    BY <1>1, <2>3, DivisionUnique
  <2> QED
    BY <1>1, <1>2, <1>5, <2>4 DEF e, f
<1>6. CASE s + e >= q
  <2>1. q * t <= (s + e) * t
    BY <1>1, <1>6, Monotonic
  <2>2. n = (s + e - q) * t + f
    BY <1>1, <1>3, <1>4, <2>1
  <2>3. n \div t = s + e - q /\ n % t = f
    BY <1>1, <2>2, DivisionUnique
  <2> QED
    BY <1>1, <1>2, <1>6, <2>3 DEF e, f
<1> QED
  BY <1>1, <1>5, <1>6
\* The milliseconds that the counter has advanced since the timer's first tick
\* began; what they are ahead of the timer's age is how far into that tick the
\* timer was started.
Advanced == Wait!Elapsed * tick + (now % tick)

TimerInv ==
    /\ tick \in Ticks /\ now \in 0..(Period - 1)
    /\ wanted \in 0..MaxDuration /\ age \in Nat
    /\ state = "waiting" =>
          /\ Start \in 0..(Period \div tick - 1)
          /\ Duration \in Nat
          /\ wanted <= Duration * tick /\ Duration * tick < wanted + tick
          /\ Wait!Elapsed \in Nat
          /\ Advanced - age \in 0..(tick - 1)
    /\ TimersKeepTime

LEMMA TickAssumption ==
    ASSUME tick \in Ticks
    PROVE  /\ tick \in Nat \ {0} /\ Period \in Nat \ {0} /\ MaxDuration \in Nat
           /\ Lag \in Nat \ {0}
           /\ MaxDuration + Lag + 2 * tick <= Period
           /\ Period \div tick \in Nat /\ (Period \div tick) * tick = Period
<1>1. /\ tick \in Nat \ {0} /\ Period \in Nat \ {0} /\ MaxDuration \in Nat
      /\ Lag \in Nat \ {0} /\ Period % tick = 0
      /\ MaxDuration + Lag + 2 * tick <= Period
  BY ApplicationAssumption DEF Wait!TimerAssumption
<1>2. Period \in Nat
  BY <1>1
<1>3. /\ Period \div tick \in Nat /\ Period % tick \in 0..(tick - 1)
      /\ Period = (Period \div tick) * tick + (Period % tick)
  BY <1>1, <1>2, Division, Zenon
<1>4. (Period \div tick) * tick \in Nat
  BY <1>1, <1>3
<1> QED
  BY <1>1, <1>3, <1>4

\* The counter has advanced, and perhaps begun anew.
Turned(time) ==
    now' \in 0..(Period - 1) /\ (now' = now + time \/ now' + Period = now + time)

LEMMA Turns ==
    ASSUME NEW time \in Nat, Period \in Nat \ {0}, now \in 0..(Period - 1), time < Period,
           now' = (now + time) % Period
    PROVE  Turned(time)
<1> DEFINE n == now + time
<1>1. n \in Nat /\ n < 2 * Period
  OBVIOUS
<1>2. now' = n % Period
  OBVIOUS
<1> HIDE DEF n
<1>3. CASE n < Period
  <2>1. n = 0 * Period + n /\ n \in 0..(Period - 1) /\ 0 \in Int
    BY <1>1, <1>3
  <2>2. n % Period = n
    BY <1>1, <2>1, DivisionUnique, Zenon
  <2> QED
    BY <1>2, <2>1, <2>2 DEF n, Turned
<1>4. CASE n >= Period
  <2>1. n = 1 * Period + (n - Period) /\ n - Period \in 0..(Period - 1) /\ 1 \in Int
    BY <1>1, <1>4
  <2>2. n % Period = n - Period
    BY <1>1, <2>1, DivisionUnique, Zenon
  <2>3. now' = n - Period
    BY <1>2, <2>2
  <2> QED
    BY <1>1, <2>1, <2>3 DEF n, Turned
<1> QED
  BY <1>1, <1>3, <1>4

\* Time that passes advances a timer by as much, unless it is too much.
LEMMA TimePasses ==
    ASSUME TimerInv, state = "waiting", NEW time \in Nat, Advanced + time < Period,
           Turned(time), UNCHANGED <<tick, Start>>
    PROVE  Wait!Elapsed' \in Nat /\ Advanced' = Advanced + time /\ now' \in 0..(Period - 1)
<1> DEFINE q == Period \div tick
           c == now \div tick
           f == now % tick
           e == Wait!Elapsed
<1>1. /\ tick \in Nat \ {0} /\ q \in Nat /\ q * tick = Period
  BY TickAssumption DEF TimerInv
<1>2. /\ c \in Nat /\ f \in 0..(tick - 1) /\ now = c * tick + f /\ now \in 0..(Period - 1)
      /\ Start \in 0..(q - 1)
  <2>1. now \in Nat /\ now \in 0..(Period - 1) /\ Start \in 0..(q - 1)
    BY <1>1 DEF TimerInv
  <2>2. c \in Nat /\ f \in 0..(tick - 1) /\ now = c * tick + f
    BY <1>1, <2>1, Division, Zenon
  <2> QED
    BY <2>1, <2>2
<1>3. e = IF c >= Start THEN c - Start ELSE q - Start + c
  BY DEF Wait!Elapsed, Wait!Counter
<1>4. e \in Nat /\ Advanced = e * tick + f
  BY DEF Advanced, TimerInv
<1> DEFINE m == Advanced + time
<1>5. m \in Nat /\ m < q * tick
  BY <1>1, <1>2, <1>4
<1>6. now' \in 0..(Period - 1) /\ (now' = now + time \/ now' + Period = now + time)
  BY DEF Turned
<1> HIDE DEF q, c, f, e
<1>7. now' = Start * tick + m \/ now' + q * tick = Start * tick + m
  <2>1. (c - Start) * tick = c * tick - Start * tick
    BY <1>1, <1>2
  <2>2. (q - Start + c) * tick = q * tick - Start * tick + c * tick
    BY <1>1, <1>2
  <2>3. CASE c >= Start
    <3>1. e * tick = c * tick - Start * tick
      BY <1>3, <2>1, <2>3
    <3>2. now + time = Start * tick + m
      BY <1>1, <1>2, <1>4, <3>1
    <3> QED
      BY <1>1, <1>6, <3>2
  <2>4. CASE ~(c >= Start)
    <3>1. now + time + Period = Start * tick + m
      BY <1>1, <1>2, <1>3, <1>4, <2>2, <2>4
    <3>2. (Start + 1) * tick <= q * tick
      BY <1>1, <1>2, Monotonic
    <3>3. (Start + 1) * tick = Start * tick + tick
      BY <1>1, <1>2
    <3> QED
      BY <1>1, <1>2, <1>5, <1>6, <3>1, <3>2, <3>3
  <2> QED
    BY <2>3, <2>4
<1>8. /\ now' \div tick \in Nat
      /\ now' \div tick >= Start => now' \div tick - Start = m \div tick
      /\ ~(now' \div tick >= Start) => q - Start + (now' \div tick) = m \div tick
      /\ now' % tick = m % tick
  <2> HIDE DEF m
  <2>1. now' \in Nat /\ now' < q * tick /\ Start \in Nat /\ Start < q
    BY <1>1, <1>2, <1>6
  <2>2. OnCircle(tick, q, Start, m, now')
    BY <1>1, <1>5, <1>7, <2>1 DEF OnCircle
  <2> QED
    BY <2>2, Circle
<1>9. Wait!Elapsed' = m \div tick
  BY <1>8 DEF Wait!Elapsed, Wait!Counter, q
<1> QED
  BY <1>1, <1>5, <1>6, <1>8, <1>9, Division DEF Advanced
LEMMA CounterInRange ==
    ASSUME tick \in Ticks, now \in 0..(Period - 1)
    PROVE  /\ now \div tick \in 0..(Period \div tick - 1)
           /\ now % tick \in 0..(tick - 1)
<1> DEFINE q == Period \div tick
           c == now \div tick
<1>1. tick \in Nat \ {0} /\ q \in Nat /\ q * tick = Period
  BY TickAssumption
<1>2. now \in Nat /\ now < Period
  BY TickAssumption
<1>3. c \in Nat /\ now % tick \in 0..(tick - 1) /\ now = c * tick + (now % tick)
  BY <1>1, <1>2, Division, Zenon
<1> HIDE DEF q, c
<1>4. CASE q <= c
  <2>1. q * tick <= c * tick
    BY <1>1, <1>3, <1>4, Monotonic
  <2> QED
    BY <1>1, <1>2, <1>3, <2>1
<1> QED
  BY <1>1, <1>3, <1>4 DEF q, c

\* A duration in ticks is not shorter than what was asked for, nor a tick longer.
LEMMA RoundedUp ==
    ASSUME NEW t \in Nat \ {0}, NEW n \in Nat, NEW d,
           d = n \div t + (IF n % t # 0 THEN 1 ELSE 0)
    PROVE  d \in Nat /\ n <= d * t /\ d * t < n + t
<1> DEFINE w == n \div t
           r == n % t
<1>1. w \in Nat /\ r \in 0..(t - 1) /\ n = w * t + r
  BY Division
<1>2. d = IF r # 0 THEN w + 1 ELSE w
  BY <1>1
<1> HIDE DEF w, r
<1>3. (w + 1) * t = w * t + t
  BY <1>1
<1> QED
  BY <1>1, <1>2, <1>3

\* A timer that has not elapsed can be looked at once more before its counter
\* has gone full circle.
LEMMA NotElapsed ==
    ASSUME TimerInv, state = "waiting", Wait!Left > 0
    PROVE  /\ Wait!Left = (Duration - Wait!Elapsed) * tick
           /\ Wait!Elapsed < Duration
           /\ Advanced \in Nat /\ Advanced <= Duration * tick - 1
           /\ Advanced + Lag < Period
<1>1. /\ tick \in Nat \ {0} /\ MaxDuration \in Nat /\ Lag \in Nat \ {0}
      /\ MaxDuration + Lag + 2 * tick <= Period /\ Period \in Nat
  BY TickAssumption DEF TimerInv
<1>2. /\ Wait!Elapsed \in Nat /\ Duration \in Nat /\ now % tick \in 0..(tick - 1)
      /\ wanted \in 0..MaxDuration /\ Duration * tick < wanted + tick
  BY CounterInRange DEF TimerInv
<1>3. Wait!Elapsed < Duration /\ Wait!Left = (Duration - Wait!Elapsed) * tick
  BY <1>2 DEF Wait!Left
<1>4. (Wait!Elapsed + 1) * tick <= Duration * tick
  BY <1>1, <1>2, <1>3, Monotonic
<1>5. (Wait!Elapsed + 1) * tick = Wait!Elapsed * tick + tick
  BY <1>1, <1>2
<1> QED
  BY <1>1, <1>2, <1>3, <1>4, <1>5 DEF Advanced

LEMMA TimerInvStep ==
    ASSUME TimerInv, Wait!TimerNext
    PROVE  TimerInv'
<1>1. /\ tick \in Nat \ {0} /\ MaxDuration \in Nat /\ Lag \in Nat \ {0} /\ Period \in Nat \ {0}
      /\ now \in 0..(Period - 1) /\ wanted \in 0..MaxDuration /\ age \in Nat
  BY TickAssumption DEF TimerInv
<1>2. tick' = tick
  BY DEF Wait!TimerNext, Wait!StartTimer, Wait!Poll, Wait!FindElapsed, Wait!SleepLeft,
     Wait!Finish
<1>3. ASSUME NEW milliseconds \in 0..MaxDuration, Wait!StartTimer(milliseconds)
      PROVE  TimerInv'
  <2>1. /\ state' = "waiting" /\ now' = now /\ age' = 0 /\ wanted' = milliseconds
        /\ Start' = now \div tick
        /\ Duration' = milliseconds \div tick + (IF milliseconds % tick # 0 THEN 1 ELSE 0)
    BY <1>3 DEF Wait!StartTimer, Wait!Counter
  <2>2. milliseconds \in Nat
    BY <1>1
  <2>3. Duration' \in Nat /\ wanted' <= Duration' * tick /\ Duration' * tick < wanted' + tick
    BY <1>1, <2>1, <2>2, RoundedUp
  <2>4. /\ Start' \in 0..(Period \div tick - 1) /\ now % tick \in 0..(tick - 1)
    BY <2>1, CounterInRange DEF TimerInv
  <2>5. Wait!Elapsed' = 0
    BY <1>2, <2>1, <2>4 DEF Wait!Elapsed, Wait!Counter
  <2>6. Advanced' = now % tick
    BY <1>1, <1>2, <2>1, <2>4, <2>5 DEF Advanced
  <2>7. TimersKeepTime'
    BY <1>1, <1>2, <2>1, <2>2 DEF TimersKeepTime, Wait!TimersKeepTime
  <2> QED
    BY <1>1, <1>2, <2>1, <2>3, <2>4, <2>5, <2>6, <2>7 DEF TimerInv
<1>4. CASE Wait!Poll
  <2>1. PICK time \in 1..Lag : Wait!Passes(time)
    BY <1>4 DEF Wait!Poll
  <2>2. /\ state = "waiting" /\ Wait!Left > 0 /\ state' = "waiting"
        /\ UNCHANGED <<Start, Duration, wanted>>
    BY <1>4 DEF Wait!Poll
  <2>3. age' = age + time /\ now' = (now + time) % Period
    BY <2>1 DEF Wait!Passes
  <2>4. Advanced \in Nat /\ Advanced <= Duration * tick - 1 /\ Advanced + Lag < Period
    BY <2>2, NotElapsed
  <2>5. time \in Nat /\ time <= Lag /\ time < Period /\ Advanced + time < Period
    BY <1>1, <2>4
  <2>6. Turned(time)
    BY <1>1, <2>3, <2>5, Turns
  <2>7. Wait!Elapsed' \in Nat /\ Advanced' = Advanced + time /\ now' \in 0..(Period - 1)
    BY <1>2, <2>2, <2>5, <2>6, TimePasses
  <2>8. /\ Start \in 0..(Period \div tick - 1) /\ Duration \in Nat
        /\ wanted <= Duration * tick /\ Duration * tick < wanted + tick
        /\ Advanced - age \in 0..(tick - 1)
    BY <2>2 DEF TimerInv
  <2>9. age' \in Nat /\ age' < wanted + tick + Lag /\ Advanced' - age' = Advanced - age
    BY <1>1, <2>3, <2>4, <2>5, <2>7, <2>8
  <2>10. TimersKeepTime'
    BY <1>2, <2>2, <2>9 DEF TimersKeepTime, Wait!TimersKeepTime
  <2> QED
    BY <1>1, <1>2, <2>2, <2>7, <2>8, <2>9, <2>10 DEF TimerInv
<1>5. CASE Wait!FindElapsed
  <2>1. /\ state = "waiting" /\ Wait!Left = 0 /\ state' = "elapsed"
        /\ UNCHANGED <<now, Start, Duration, wanted, age>>
    BY <1>5 DEF Wait!FindElapsed
  <2>2. /\ Wait!Elapsed \in Nat /\ Duration \in Nat /\ wanted <= Duration * tick
        /\ Advanced - age \in 0..(tick - 1) /\ now % tick \in 0..(tick - 1)
    BY <2>1, CounterInRange DEF TimerInv
  <2>3. Wait!Elapsed >= Duration
    <3>1. CASE Wait!Elapsed < Duration
      <4>1. Wait!Left = (Duration - Wait!Elapsed) * tick
        BY <2>2, <3>1 DEF Wait!Left
      <4>2. 1 * tick <= (Duration - Wait!Elapsed) * tick
        BY <1>1, <2>2, <3>1, Monotonic
      <4> QED
        BY <1>1, <2>1, <4>1, <4>2
    <3> QED
      BY <2>2, <3>1
  <2>4. Duration * tick <= Wait!Elapsed * tick
    BY <1>1, <2>2, <2>3, Monotonic
  <2>5. age > wanted - tick
    BY <1>1, <2>2, <2>4 DEF Advanced
  <2>6. age < wanted + tick + Lag
    BY DEF TimerInv, TimersKeepTime, Wait!TimersKeepTime
  <2>7. TimersKeepTime'
    BY <1>2, <2>1, <2>5, <2>6 DEF TimersKeepTime, Wait!TimersKeepTime
  <2> QED
    BY <1>2, <2>1, <2>7 DEF TimerInv
<1>6. CASE Wait!SleepLeft
  <2>1. PICK late \in 0..Lag : Wait!Passes(Wait!Left + late)
    BY <1>6 DEF Wait!SleepLeft
  <2>2. /\ state = "waiting" /\ tick = 1 /\ Wait!Left > 0 /\ state' = "elapsed"
        /\ UNCHANGED <<Start, Duration, wanted>>
    BY <1>6 DEF Wait!SleepLeft
  <2>3. /\ Wait!Left = (Duration - Wait!Elapsed) * tick /\ Wait!Elapsed < Duration
        /\ Wait!Elapsed \in Nat /\ Duration \in Nat
        /\ wanted <= Duration * tick /\ Duration * tick < wanted + tick
        /\ Advanced - age \in 0..(tick - 1) /\ now % tick \in 0..(tick - 1)
    BY <2>2, NotElapsed, CounterInRange DEF TimerInv
  <2>4. Wait!Left = Duration - Wait!Elapsed /\ Duration = wanted /\ age = Wait!Elapsed
    BY <1>1, <2>2, <2>3 DEF Advanced
  <2>5. age' = wanted + late
    BY <1>1, <2>1, <2>3, <2>4 DEF Wait!Passes
  <2>6. now' \in 0..(Period - 1)
    <3>1. now + (Wait!Left + late) \in Nat
      BY <1>1, <2>3, <2>4
    <3>2. now' = (now + (Wait!Left + late)) % Period
      BY <2>1 DEF Wait!Passes
    <3> QED
      BY <1>1, <3>1, <3>2, Division, Zenon
  <2>7. TimersKeepTime'
    BY <1>1, <1>2, <2>2, <2>5 DEF TimersKeepTime, Wait!TimersKeepTime
  <2> QED
    BY <1>1, <1>2, <2>2, <2>5, <2>6, <2>7 DEF TimerInv
<1>7. CASE Wait!Finish
  <2>1. state' = "idle" /\ age' = 0 /\ now' \in 0..(Period - 1) /\ wanted' = wanted
    BY <1>7 DEF Wait!Finish
  <2>2. TimersKeepTime'
    BY <1>1, <1>2, <2>1 DEF TimersKeepTime, Wait!TimersKeepTime
  <2> QED
    BY <1>1, <1>2, <2>1, <2>2 DEF TimerInv
<1> QED
  BY <1>3, <1>4, <1>5, <1>6, <1>7 DEF Wait!TimerNext

LEMMA TimerInvInit == ApplicationInit => TimerInv
BY ApplicationAssumption DEF ApplicationInit, Wait!TimerInit, Wait!TimerAssumption, TimerInv,
   TimersKeepTime, Wait!TimersKeepTime

LEMMA TimerInvKept ==
    ASSUME TimerInv, [ApplicationNext]_applicationVars
    PROVE  TimerInv'
<1>1. CASE Wait!TimerNext
  BY <1>1, TimerInvStep
<1>2. CASE UNCHANGED timerVars
  BY <1>2 DEF timerVars, TimerInv, TimersKeepTime, Wait!TimersKeepTime, Advanced,
     Wait!Elapsed, Wait!Counter
<1> QED
  BY <1>1, <1>2, TimerMoves

\* A wait is as long as it was meant to be, on any counter whose period is
\* whole and longer than the wait: to less than a tick, and to a tick and the
\* time between two looks.
THEOREM TimersAreRight == ApplicationSpec => []TimersKeepTime
<1>1. TimerInv => TimersKeepTime
  BY DEF TimerInv
<1> QED
  BY <1>1, TimerInvInit, TimerInvKept, PTL DEF ApplicationSpec

\* What the variables hold.
TimerTyped ==
    /\ tick \in Ticks /\ now \in 0..(Period - 1)
    /\ Start \in 0..(Period \div tick - 1)
    /\ Duration \in 0..(MaxDuration \div tick + 1)
    /\ state \in {"idle", "waiting", "elapsed"}

LEMMA DividedInOrder ==
    ASSUME NEW t \in Nat \ {0}, NEW m \in Nat, NEW n \in Nat, m <= n
    PROVE  m \div t <= n \div t
<1> DEFINE p == m \div t
           q == n \div t
<1>1. /\ p \in Nat /\ m % t \in 0..(t - 1) /\ m = p * t + (m % t)
      /\ q \in Nat /\ n % t \in 0..(t - 1) /\ n = q * t + (n % t)
  BY Division
<1> HIDE DEF p, q
<1>2. ASSUME q + 1 <= p PROVE FALSE
  <2>1. (q + 1) * t <= p * t
    BY <1>1, <1>2, Monotonic
  <2>2. (q + 1) * t = q * t + t
    BY <1>1
  <2> QED
    BY <1>1, <2>1, <2>2
<1>3. p <= q
  BY <1>1, <1>2
<1> QED
  BY <1>3 DEF p, q

LEMMA TimerTypeStep ==
    ASSUME TimerInv, TimerInv', TimerTyped, Wait!TimerNext
    PROVE  TimerTyped'
<1>1. /\ tick \in Nat \ {0} /\ MaxDuration \in Nat
  BY TickAssumption DEF TimerTyped
<1>2. tick' = tick /\ tick' \in Ticks /\ now' \in 0..(Period - 1)
  BY DEF Wait!TimerNext, Wait!StartTimer, Wait!Poll, Wait!FindElapsed, Wait!SleepLeft,
     Wait!Finish, TimerInv
<1>3. state' \in {"idle", "waiting", "elapsed"}
  BY DEF Wait!TimerNext, Wait!StartTimer, Wait!Poll, Wait!FindElapsed, Wait!SleepLeft,
     Wait!Finish, TimerTyped
<1>4. ASSUME NEW milliseconds \in 0..MaxDuration, Wait!StartTimer(milliseconds)
      PROVE  /\ Start' \in 0..(Period \div tick - 1)
             /\ Duration' \in 0..(MaxDuration \div tick + 1)
  <2>1. /\ Start' = now \div tick
        /\ Duration' = milliseconds \div tick + (IF milliseconds % tick # 0 THEN 1 ELSE 0)
    BY <1>4 DEF Wait!StartTimer, Wait!Counter
  <2>2. milliseconds \in Nat /\ milliseconds <= MaxDuration
    BY <1>1
  <2>3. /\ milliseconds \div tick \in Nat /\ MaxDuration \div tick \in Nat
        /\ milliseconds \div tick <= MaxDuration \div tick
    BY <1>1, <2>2, Division, DividedInOrder
  <2> QED
    BY <2>1, <2>3, CounterInRange DEF TimerTyped
<1>5. CASE Wait!Poll \/ Wait!FindElapsed \/ Wait!SleepLeft \/ Wait!Finish
  <2> UNCHANGED <<Start, Duration>>
    BY <1>5 DEF Wait!Poll, Wait!FindElapsed, Wait!SleepLeft, Wait!Finish
  <2> QED
    BY <1>2, <1>3 DEF TimerTyped
<1> QED
  BY <1>2, <1>3, <1>4, <1>5 DEF Wait!TimerNext, TimerTyped

LEMMA TimerTypedInit == ApplicationInit => TimerTyped
<1> HAVE ApplicationInit
<1>1. /\ tick \in Ticks /\ now = 0 /\ Start = 0 /\ Duration = 0 /\ state = "idle"
  BY DEF ApplicationInit, Wait!TimerInit
<1>2. /\ tick \in Nat \ {0} /\ Period \in Nat \ {0} /\ MaxDuration \in Nat
  BY <1>1, TickAssumption
<1>3. MaxDuration \div tick \in Nat
  BY <1>2, Division
<1> now \in 0..(Period - 1)
  BY <1>1, <1>2
<1>4. 0 \div tick \in 0..(Period \div tick - 1)
  BY <1>1, <1>3, CounterInRange
<1>5. Start \in 0..(Period \div tick - 1)
  BY <1>1, <1>2, <1>4
<1> QED
  BY <1>1, <1>3, <1>5 DEF TimerTyped

LEMMA TimerTypedStep ==
    ASSUME TimerInv, TimerInv', TimerTyped, [ApplicationNext]_applicationVars
    PROVE  TimerTyped'
<1>1. CASE Wait!TimerNext
  BY <1>1, TimerTypeStep
<1>2. CASE UNCHANGED timerVars
  BY <1>2 DEF timerVars, TimerTyped
<1> QED
  BY <1>1, <1>2, TimerMoves

LEMMA TimerIsTyped ==
    ASSUME TimerInv, TimerTyped
    PROVE  Wait!TimerTypeOK
BY DEF TimerInv, TimerTyped, Wait!TimerTypeOK

---------------------------------------------------------------------------
(* The operator's window.                                                  *)

Rectangle == Int \X Int \X Int \X Int
SessionScreen == [cells : SUBSET (Int \X Int), cursor : Int \X Int, dirty : Rectangle]

\* What the caller's screen t shows locally otherwise than s is dirty in t, and
\* nothing that was dirty is forgotten.
Covers(s, t) ==
    /\ Shown!Cells(s.dirty) \subseteq Shown!Cells(t.dirty)
    /\ \A c \in Shown!View \ Shown!Cells(t.dirty) : c \in s.cells <=> c \in t.cells

Geometry ==
    /\ OD_SCREEN_WIDTH \in Nat \ {0} /\ OD_SCREEN_HEIGHT \in Nat \ {0}
    /\ size[1] \in Int /\ size[1] >= OD_SCREEN_WIDTH
    /\ size[2] \in Int /\ size[2] >= OD_SCREEN_HEIGHT

LEMMA ViewIsOnScreen ==
    ASSUME Geometry
    PROVE  /\ Shown!View \subseteq Int \X Int
           /\ Shown!View \subseteq Shown!Cells(Shown!Screen)
           /\ Shown!Screen \in Rectangle
           /\ <<0, 0>> \in Shown!View
BY DEF Geometry, Shown!View, Shown!Screen, Shown!Cells, Rectangle

LEMMA Marking ==
    ASSUME NEW s \in SessionScreen, NEW r \in Rectangle
    PROVE  /\ Shown!MarkDirty(s, r) \in SessionScreen
           /\ Shown!MarkDirty(s, r).cells = s.cells
           /\ Shown!Cells(s.dirty) \subseteq Shown!Cells(Shown!MarkDirty(s, r).dirty)
           /\ Shown!Cells(r) \subseteq Shown!Cells(Shown!MarkDirty(s, r).dirty)
<1>1. CASE s.dirty = Shown!None
  <2>1. Shown!MarkDirty(s, r) = [s EXCEPT !.dirty = r]
    BY <1>1 DEF Shown!MarkDirty, SessionScreen
  <2>2. Shown!Cells(s.dirty) = {}
    BY <1>1 DEF Shown!None, Shown!Cells
  <2> QED
    BY <2>1, <2>2 DEF SessionScreen
<1>2. CASE s.dirty # Shown!None
  <2> DEFINE hull == <<Shown!Lesser(s.dirty[1], r[1]), Shown!Lesser(s.dirty[2], r[2]),
                       Shown!Greater(s.dirty[3], r[3]), Shown!Greater(s.dirty[4], r[4])>>
  <2>1. Shown!MarkDirty(s, r) = [s EXCEPT !.dirty = hull]
    BY <1>2 DEF Shown!MarkDirty, SessionScreen
  <2>2. s.dirty \in Rectangle
    BY DEF SessionScreen
  <2>3. hull \in Rectangle
    BY <2>2 DEF Rectangle, Shown!Lesser, Shown!Greater
  <2>4. Shown!Cells(s.dirty) \subseteq Shown!Cells(hull)
    BY <2>2 DEF Rectangle, Shown!Lesser, Shown!Greater, Shown!Cells
  <2>5. Shown!Cells(r) \subseteq Shown!Cells(hull)
    BY <2>2 DEF Rectangle, Shown!Lesser, Shown!Greater, Shown!Cells
  <2> HIDE DEF hull
  <2> QED
    BY <2>1, <2>3, <2>4, <2>5 DEF SessionScreen
<1> QED
  BY <1>1, <1>2

\* Only the rectangle that is written may change, and it is dirty afterwards.
LEMMA Writing ==
    ASSUME NEW s \in SessionScreen, NEW r \in Rectangle, NEW marks \in SUBSET (Int \X Int),
           marks \intersect Shown!View \subseteq Shown!Cells(r)
    PROVE  /\ Shown!Write(s, r, marks) \in SessionScreen
           /\ Covers(s, Shown!Write(s, r, marks))
<1> DEFINE w == [s EXCEPT !.cells = (s.cells \ Shown!Cells(r)) \union marks]
<1>1. w \in SessionScreen /\ w.dirty = s.dirty /\ w.cells = (s.cells \ Shown!Cells(r)) \union marks
  BY DEF SessionScreen
<1>2. Shown!Write(s, r, marks) = Shown!MarkDirty(w, r)
  BY DEF Shown!Write, SessionScreen
<1> HIDE DEF w
<1>3. /\ Shown!MarkDirty(w, r) \in SessionScreen
      /\ Shown!MarkDirty(w, r).cells = w.cells
      /\ Shown!Cells(w.dirty) \subseteq Shown!Cells(Shown!MarkDirty(w, r).dirty)
      /\ Shown!Cells(r) \subseteq Shown!Cells(Shown!MarkDirty(w, r).dirty)
  BY <1>1, Marking
<1> QED
  BY <1>1, <1>2, <1>3 DEF Covers

\* The cursor is not shown before the next presentation.
LEMMA CursorMoves ==
    ASSUME NEW s \in SessionScreen, NEW t \in SessionScreen, Covers(s, t), NEW c \in Int \X Int
    PROVE  /\ [t EXCEPT !.cursor = c] \in SessionScreen
           /\ Covers(s, [t EXCEPT !.cursor = c])
BY DEF SessionScreen, Covers

LEMMA Lining ==
    ASSUME Geometry, NEW s \in SessionScreen, NEW t \in SessionScreen, Covers(s, t)
    PROVE  Shown!LineDown(t) \in SessionScreen /\ Covers(s, Shown!LineDown(t))
<1>1. CASE t.cursor[2] = size[2] - 1
  <2> DEFINE marks == {c \in Shown!Shift(t.cells, 0, -1) : c[2] >= 0}
  <2>1. marks \in SUBSET (Int \X Int)
    BY DEF Shown!Shift, SessionScreen
  <2>2. Shown!LineDown(t) = Shown!Write(t, Shown!Screen, marks)
    BY <1>1 DEF Shown!LineDown, Shown!ScrollUpOneLine
  <2> HIDE DEF marks
  <2>3. Shown!LineDown(t) \in SessionScreen /\ Covers(t, Shown!LineDown(t))
    BY <2>1, <2>2, ViewIsOnScreen, Writing
  <2> QED
    BY <2>3 DEF Covers
<1>2. CASE t.cursor[2] # size[2] - 1
  <2>1. Shown!LineDown(t) = [t EXCEPT !.cursor = <<t.cursor[1], t.cursor[2] + 1>>]
    BY <1>2 DEF Shown!LineDown, SessionScreen
  <2>2. <<t.cursor[1], t.cursor[2] + 1>> \in Int \X Int
    BY DEF SessionScreen
  <2> QED
    BY <2>1, <2>2, CursorMoves
<1> QED
  BY <1>1, <1>2

LEMMA Advancing ==
    ASSUME Geometry, NEW s \in SessionScreen, NEW t \in SessionScreen, Covers(s, t),
           NEW col \in Int
    PROVE  Shown!MoveTo(t, col) \in SessionScreen /\ Covers(s, Shown!MoveTo(t, col))
<1>1. CASE col < size[1]
  <2>1. Shown!MoveTo(t, col) = [t EXCEPT !.cursor = <<col, t.cursor[2]>>]
    BY <1>1 DEF Shown!MoveTo, SessionScreen
  <2>2. <<col, t.cursor[2]>> \in Int \X Int
    BY DEF SessionScreen
  <2> QED
    BY <2>1, <2>2, CursorMoves
<1>2. CASE ~(col < size[1])
  <2> DEFINE u == [t EXCEPT !.cursor = <<0, t.cursor[2]>>]
  <2>1. Shown!MoveTo(t, col) = Shown!LineDown(u)
    BY <1>2 DEF Shown!MoveTo, SessionScreen
  <2>2. <<0, t.cursor[2]>> \in Int \X Int
    BY DEF SessionScreen
  <2>3. u \in SessionScreen /\ Covers(s, u)
    BY <2>2, CursorMoves
  <2> HIDE DEF u
  <2> QED
    BY <2>1, <2>3, Lining
<1> QED
  BY <1>1, <1>2

LEMMA Displaying ==
    ASSUME Geometry, TabStop \in Nat \ {0}, NEW s \in SessionScreen,
           NEW ch \in {"mark", "CR", "LF", "BS", "HT"}
    PROVE  Shown!DisplayChar(s, ch) \in SessionScreen /\ Covers(s, Shown!DisplayChar(s, ch))
<1>1. Covers(s, s)
  BY DEF Covers
<1>2. s.cursor \in Int \X Int /\ s.cursor = <<s.cursor[1], s.cursor[2]>>
  BY DEF SessionScreen
<1>3. CASE ch = "CR"
  <2>1. Shown!DisplayChar(s, ch) = [s EXCEPT !.cursor = <<0, s.cursor[2]>>]
    BY <1>3 DEF Shown!DisplayChar, SessionScreen
  <2>2. <<0, s.cursor[2]>> \in Int \X Int
    BY <1>2
  <2> QED
    BY <1>1, <2>1, <2>2, CursorMoves
<1>4. CASE ch = "LF"
  <2>1. Shown!DisplayChar(s, ch) = Shown!LineDown(s)
    BY <1>4 DEF Shown!DisplayChar
  <2> QED
    BY <1>1, <2>1, Lining
<1>5. CASE ch = "BS"
  <2> DEFINE col == IF s.cursor[1] = 0 THEN 0 ELSE s.cursor[1] - 1
  <2>1. Shown!DisplayChar(s, ch) = [s EXCEPT !.cursor = <<col, s.cursor[2]>>]
    BY <1>5 DEF Shown!DisplayChar, SessionScreen
  <2>2. <<col, s.cursor[2]>> \in Int \X Int
    BY <1>2
  <2> HIDE DEF col
  <2> QED
    BY <1>1, <2>1, <2>2, CursorMoves
<1>6. CASE ch = "HT"
  <2> DEFINE col == (s.cursor[1] \div TabStop + 1) * TabStop
  <2>1. Shown!DisplayChar(s, ch) = Shown!MoveTo(s, col)
    BY <1>6 DEF Shown!DisplayChar
  <2>2. col \in Int
    BY <1>2
  <2> HIDE DEF col
  <2> QED
    BY <1>1, <2>1, <2>2, Advancing
<1>7. CASE ch = "mark"
  <2> DEFINE at == <<s.cursor[1], s.cursor[2], s.cursor[1], s.cursor[2]>>
             w  == Shown!Write(s, at, {s.cursor})
  <2>1. Shown!DisplayChar(s, ch) = Shown!MoveTo(w, s.cursor[1] + 1)
    BY <1>7 DEF Shown!DisplayChar
  <2>2. at \in Rectangle /\ s.cursor \in Shown!Cells(at)
    BY <1>2 DEF Rectangle, Shown!Cells
  <2> HIDE DEF at
  <2>3. w \in SessionScreen /\ Covers(s, w)
    BY <1>2, <2>2, Writing
  <2> HIDE DEF w
  <2>4. s.cursor[1] + 1 \in Int
    BY <1>2
  <2> QED
    BY <2>1, <2>3, <2>4, Advancing
<1> QED
  BY <1>3, <1>4, <1>5, <1>6, <1>7

LEMMA Clearing ==
    ASSUME Geometry, NEW s \in SessionScreen
    PROVE  /\ Shown!Clear(s) \in SessionScreen /\ Covers(s, Shown!Clear(s))
           /\ Shown!ClearToEndOfLine(s) \in SessionScreen /\ Covers(s, Shown!ClearToEndOfLine(s))
<1>1. Shown!Write(s, Shown!Screen, {}) \in SessionScreen
      /\ Covers(s, Shown!Write(s, Shown!Screen, {}))
  BY ViewIsOnScreen, Writing
<1>2. Shown!Clear(s) \in SessionScreen /\ Covers(s, Shown!Clear(s))
  <2> DEFINE w == Shown!Write(s, Shown!Screen, {})
  <2>1. Shown!Clear(s) = [w EXCEPT !.cursor = <<0, 0>>]
    BY DEF Shown!Clear
  <2>2. w \in SessionScreen /\ Covers(s, w)
    BY <1>1
  <2>3. <<0, 0>> \in Int \X Int
    OBVIOUS
  <2> HIDE DEF w
  <2> QED
    BY <2>1, <2>2, <2>3, CursorMoves
<1> DEFINE rest == <<s.cursor[1], s.cursor[2], size[1] - 1, s.cursor[2]>>
<1>3. rest \in Rectangle
  BY DEF Rectangle, SessionScreen, Geometry
<1>4. Shown!ClearToEndOfLine(s) = Shown!Write(s, rest, {})
  BY DEF Shown!ClearToEndOfLine
<1> HIDE DEF rest
<1> QED
  BY <1>2, <1>3, <1>4, Writing

LEMMA Putting ==
    ASSUME NEW s \in SessionScreen, NEW r \in Rectangle
    PROVE  LET t == Shown!PutText(s, r, Shown!Cells(r)) IN t \in SessionScreen /\ Covers(s, t)
<1>1. Shown!Cells(r) \in SUBSET (Int \X Int)
  BY DEF Rectangle, Shown!Cells
<1>2. Covers(s, s)
  BY DEF Covers
<1> QED
  BY <1>1, <1>2, Writing DEF Shown!PutText

LEMMA Copying ==
    ASSUME NEW s \in SessionScreen, NEW r \in Rectangle, NEW d \in Int \X Int
    PROVE  LET t == Shown!CopyText(s, r, d[1], d[2]) IN t \in SessionScreen /\ Covers(s, t)
<1> DEFINE dest  == <<r[1] + d[1], r[2] + d[2], r[3] + d[1], r[4] + d[2]>>
           marks == Shown!Shift(s.cells \intersect Shown!Cells(r), d[1], d[2])
<1>1. dest \in Rectangle
  BY DEF Rectangle
<1>2. marks \in SUBSET (Int \X Int)
  BY DEF Shown!Shift, SessionScreen
<1>3. marks \subseteq Shown!Cells(dest)
  BY DEF Shown!Shift, SessionScreen, Shown!Cells, Rectangle
<1>4. \/ Shown!CopyText(s, r, d[1], d[2]) = Shown!Write(s, dest, marks)
      \/ Shown!CopyText(s, r, d[1], d[2]) = s
  BY DEF Shown!CopyText
<1>5. Covers(s, s)
  BY DEF Covers
<1> HIDE DEF dest, marks
<1> QED
  BY <1>1, <1>2, <1>3, <1>4, <1>5, Writing

\* What is drawn is dirty until it is presented.
LEMMA Drawing ==
    ASSUME Geometry, session \in SessionScreen, Shown!ScreenAssumption, Shown!Draw
    PROVE  /\ session' \in SessionScreen /\ Covers(session, session')
           /\ call \in {"called", "drawn"} /\ call' = "drawn"
           /\ UNCHANGED <<size, emulating, resume, local, bScreenDirty, display,
                          hwndScreenWindow, invalid, painting, window>>
<1> DEFINE Drawn(s) == s \in SessionScreen /\ Covers(session, s)
<1>1. TabStop \in Nat \ {0} /\ Areas \subseteq Rectangle /\ Moves \subseteq Int \X Int
  BY DEF Shown!ScreenAssumption, Rectangle
<1>2. ASSUME NEW s, Drawn(s), Shown!Changed(s)
      PROVE  /\ Drawn(session')
             /\ call \in {"called", "drawn"} /\ call' = "drawn"
             /\ UNCHANGED <<size, emulating, resume, local, bScreenDirty, display,
                            hwndScreenWindow, invalid, painting, window>>
  BY <1>2 DEF Shown!Changed, Shown!frameSide
<1>3. \A ch \in {"mark", "CR", "LF", "BS", "HT"} : Drawn(Shown!DisplayChar(session, ch))
  BY <1>1, Displaying
<1>4. Drawn(Shown!Clear(session)) /\ Drawn(Shown!ClearToEndOfLine(session))
  BY Clearing
<1>5. \A r \in Areas : Drawn(Shown!PutText(session, r, Shown!Cells(r)))
  BY <1>1, Putting
<1>6. \A r \in Areas, d \in Moves : Drawn(Shown!CopyText(session, r, d[1], d[2]))
  BY <1>1, Copying
<1>7. \A c \in Shown!Cells(Shown!Screen) : Drawn([session EXCEPT !.cursor = c])
  <2>1. Shown!Cells(Shown!Screen) \subseteq Int \X Int
    BY DEF Shown!Cells, Shown!Screen, Geometry
  <2>2. Covers(session, session)
    BY DEF Covers
  <2> QED
    BY <2>1, <2>2, CursorMoves
<1>8. PICK s : Drawn(s) /\ Shown!Changed(s)
  BY <1>3, <1>4, <1>5, <1>6, <1>7 DEF Shown!Draw
<1> QED
  BY <1>2, <1>8

Corner == session.cells \intersect Shown!View
Caret == IF session.cursor \in Shown!View THEN session.cursor ELSE Shown!Hidden

\* What the session screen shows otherwise than the local screen is dirty; where
\* all that was drawn has been presented nothing is; the local screen differs
\* from what was published only while it is dirty, which it is within a call.
\* And the window lags behind what was published only where it is to be painted.
Presentation ==
    /\ session \in SessionScreen
    /\ local.cells \subseteq Shown!View
    /\ \A c \in Shown!View \ Shown!Cells(session.dirty) :
          c \in session.cells <=> c \in local.cells
    /\ call = "outside" \/ call = "called" \/ (call = "waiting" /\ resume = "called") =>
          local.cells = Corner /\ local.caret = Caret
Publication ==
    /\ display.cells \subseteq Shown!View
    /\ ~bScreenDirty => display.cells = local.cells /\ display.caret = local.caret
    /\ call \in {"outside", "waiting"} => ~bScreenDirty
    /\ call = "waiting" => resume \in {"called", "drawn"}
    /\ hwndScreenWindow =>
          /\ window.cells \ (invalid \union painting) = display.cells \ (invalid \union painting)
          /\ invalid \union painting = {} => window.caret = display.caret
ScreenInv == Geometry /\ Presentation /\ Publication

LEMMA DrawStep ==
    ASSUME ScreenInv, Shown!ScreenAssumption, Shown!Draw
    PROVE  ScreenInv'
<1>1. /\ session' \in SessionScreen /\ Covers(session, session')
      /\ call \in {"called", "drawn"} /\ call' = "drawn"
      /\ UNCHANGED <<size, emulating, resume, local, bScreenDirty, display,
                     hwndScreenWindow, invalid, painting, window>>
  BY Drawing DEF ScreenInv, Presentation
<1>2. Geometry'
  BY <1>1 DEF ScreenInv, Geometry
<1>3. Presentation'
  BY <1>1 DEF ScreenInv, Presentation, Covers, Shown!View, Shown!Cells
<1>4. Publication'
  BY <1>1 DEF ScreenInv, Publication, Shown!View, Shown!Cells
<1> QED
  BY <1>2, <1>3, <1>4 DEF ScreenInv

\* After a presentation the local screen is the corner of the session screen.
LEMMA PresentedStep ==
    ASSUME ScreenInv, Shown!Presented, call' = "called",
           UNCHANGED <<size, resume, display, hwndScreenWindow, invalid, painting, window>>
    PROVE  ScreenInv'
<1> DEFINE visible == Shown!View \intersect Shown!Cells(session.dirty)
<1>1. /\ local'.cells = (local.cells \ visible) \union (session.cells \intersect visible)
      /\ local'.caret = Caret
      /\ session' = [session EXCEPT !.dirty = Shown!None]
      /\ bScreenDirty' <=> (bScreenDirty \/ visible # {} \/ Caret # Shown!Hidden
                               \/ local.caret # Shown!Hidden)
      /\ local' = [cells |-> (local.cells \ visible) \union (session.cells \intersect visible),
                   caret |-> Caret]
  BY DEF Shown!Presented, Caret
<1>2. session' \in SessionScreen /\ session'.cells = session.cells
      /\ session'.cursor = session.cursor
  BY <1>1 DEF ScreenInv, Presentation, SessionScreen, Shown!None, Rectangle
<1>3. local'.cells = Corner
  BY <1>1 DEF ScreenInv, Presentation, Corner
<1>4. Geometry'
  BY DEF ScreenInv, Geometry
<1>5. Corner' = Corner /\ Caret' = Caret
  BY <1>2 DEF Corner, Caret, Shown!View, Shown!Cells
<1>6. Presentation'
  BY <1>1, <1>2, <1>3, <1>5 DEF Presentation, Corner, Shown!View, Shown!Cells
<1>7. Shown!View' = Shown!View
  BY DEF Shown!View, Shown!Cells
<1>8. ~bScreenDirty' => display'.cells = local'.cells /\ display'.caret = local'.caret
  BY <1>1 DEF ScreenInv, Publication
<1>9. Publication'
  BY <1>7, <1>8 DEF ScreenInv, Publication
<1> QED
  BY <1>4, <1>6, <1>9 DEF ScreenInv

\* A window that is empty, and all of which is to be painted, shows nothing wrong.
LEMMA WindowEmptied ==
    ASSUME Geometry, invalid' = Shown!View, window' = Shown!Nothing,
           display'.cells \subseteq Shown!View
    PROVE  /\ window'.cells \ (invalid' \union painting')
                 = display'.cells \ (invalid' \union painting')
           /\ invalid' \union painting' = {} => window'.caret = display'.caret
<1>1. <<0, 0>> \in invalid'
  BY ViewIsOnScreen
<1>2. window'.cells = {}
  BY DEF Shown!Nothing
<1>3. display'.cells \subseteq invalid'
  OBVIOUS
<1>4. window'.cells \ (invalid' \union painting') = {}
  BY <1>2
<1>5. display'.cells \ (invalid' \union painting') = {}
  BY <1>3
<1> QED
  BY <1>1, <1>4, <1>5

\* A publication ends in what is shown being what was presented.
LEMMA PublishStep ==
    ASSUME ScreenInv, Shown!Publish, call = "called" \/ call = "drawn",
           UNCHANGED <<size, session>>,
           \/ call = "called" /\ call' = "outside"
           \/ call' = "waiting" /\ resume' = call
    PROVE  ScreenInv'
<1>1. Shown!View' = Shown!View /\ (0 .. 0) \X (0 .. 0) \subseteq Shown!View
  BY DEF Shown!View, Shown!Cells, ScreenInv, Geometry
<1>2. Geometry'
  BY DEF ScreenInv, Geometry
<1>3. Corner' = Corner /\ Caret' = Caret
  BY <1>1 DEF Corner, Caret
<1>4. local' = local /\ ~bScreenDirty'
  BY DEF Shown!Publish, ScreenInv
<1>5. display'.cells = local.cells /\ display'.caret = local.caret
  BY DEF Shown!Publish, ScreenInv, Publication
<1>6. Presentation'
  BY <1>1, <1>3, <1>4 DEF ScreenInv, Presentation, Shown!Cells
<1>7. hwndScreenWindow' =>
        /\ window'.cells \ (invalid' \union painting')
              = display'.cells \ (invalid' \union painting')
        /\ invalid' \union painting' = {} => window'.caret = display'.caret
  <2>1. CASE bScreenDirty /\ hwndScreenWindow
    <3>1. invalid' = Shown!View /\ window' = Shown!Nothing /\ display'.cells \subseteq Shown!View
      BY <1>5, <2>1 DEF Shown!Publish, ScreenInv, Presentation
    <3> QED
      BY <3>1, WindowEmptied DEF ScreenInv
  <2>2. CASE bScreenDirty /\ ~hwndScreenWindow
    BY <2>2 DEF Shown!Publish
  <2>3. CASE ~bScreenDirty
    BY <2>3 DEF Shown!Publish, Shown!frameSide, ScreenInv, Publication
  <2> QED
    BY <2>1, <2>2, <2>3
<1>8. Publication'
  BY <1>1, <1>4, <1>5, <1>7 DEF ScreenInv, Presentation, Publication
<1> QED
  BY <1>2, <1>6, <1>8 DEF ScreenInv

LEMMA WindowStep ==
    ASSUME ScreenInv,
           Shown!CreateWindow \/ Shown!Uncover \/ Shown!BeginPaint \/ Shown!Paint
    PROVE  ScreenInv'
<1>1. UNCHANGED <<size, session, call, resume, local, bScreenDirty, display>>
  BY DEF Shown!CreateWindow, Shown!Uncover, Shown!BeginPaint, Shown!Paint, Shown!applicationSide
<1>2. /\ Shown!View' = Shown!View /\ (0 .. 0) \X (0 .. 0) \subseteq Shown!View
      /\ display.cells \subseteq Shown!View
  BY DEF Shown!View, Shown!Cells, ScreenInv, Geometry, Publication
<1>3. Geometry' /\ Presentation'
  BY <1>1, <1>2 DEF ScreenInv, Geometry, Presentation, Corner, Caret, Shown!Cells
<1>4. hwndScreenWindow' =>
        /\ window'.cells \ (invalid' \union painting')
              = display'.cells \ (invalid' \union painting')
        /\ invalid' \union painting' = {} => window'.caret = display'.caret
  <2>1. CASE Shown!CreateWindow \/ Shown!Uncover
    <3>1. invalid' = Shown!View /\ window' = Shown!Nothing /\ display'.cells \subseteq Shown!View
      BY <1>1, <1>2, <2>1 DEF Shown!CreateWindow, Shown!Uncover
    <3> QED
      BY <3>1, WindowEmptied DEF ScreenInv
  <2>2. CASE Shown!BeginPaint
    BY <2>2 DEF Shown!BeginPaint, ScreenInv, Publication
  <2>3. CASE Shown!Paint
    BY <2>3 DEF Shown!Paint, ScreenInv, Publication
  <2> QED
    BY <2>1, <2>2, <2>3
<1>5. Publication'
  BY <1>1, <1>2, <1>4 DEF ScreenInv, Publication
<1> QED
  BY <1>3, <1>5 DEF ScreenInv

LEMMA ScreenInvStep ==
    ASSUME ScreenInv, Shown!ScreenAssumption, Shown!ScreenNext
    PROVE  ScreenInv'
<1>1. CASE Shown!Enter
  BY <1>1 DEF Shown!Enter, Shown!frameSide, ScreenInv, Geometry, Presentation, Publication,
     Corner, Caret, Shown!View, Shown!Cells
<1>2. CASE Shown!Draw
  BY <1>2, DrawStep
<1>3. CASE Shown!Present
  BY <1>3, PresentedStep DEF Shown!Present, Shown!frameSide
<1>4. CASE Shown!BeginEmulation
  BY <1>4 DEF Shown!BeginEmulation, Shown!frameSide, ScreenInv, Geometry, Presentation,
     Publication, Corner, Caret, Shown!View, Shown!Cells
<1>5. CASE Shown!EndEmulation
  BY <1>5, PresentedStep DEF Shown!EndEmulation, Shown!frameSide
<1>6. CASE Shown!Return
  BY <1>6, PublishStep DEF Shown!Return
<1>7. CASE Shown!Release
  BY <1>7, PublishStep DEF Shown!Release
<1>8. CASE Shown!Reacquire
  BY <1>8 DEF Shown!Reacquire, Shown!frameSide, ScreenInv, Geometry, Presentation,
     Publication, Corner, Caret, Shown!View, Shown!Cells
<1>9. CASE Shown!CreateWindow \/ Shown!Uncover \/ Shown!BeginPaint \/ Shown!Paint
  BY <1>9, WindowStep
<1> QED
  BY <1>1, <1>2, <1>3, <1>4, <1>5, <1>6, <1>7, <1>8, <1>9 DEF Shown!ScreenNext

LEMMA ScreenInvInit == ApplicationInit => ScreenInv
<1> USE ApplicationAssumption
<1> SUFFICES ASSUME ApplicationInit PROVE ScreenInv
  OBVIOUS
<1>1. Shown!ScreenInit /\ Shown!ScreenAssumption
  BY DEF ApplicationInit
<1>2. Geometry
  BY <1>1 DEF Shown!ScreenInit, Shown!ScreenAssumption, Geometry
<1>3. Presentation
  BY <1>1, <1>2, ViewIsOnScreen DEF Shown!ScreenInit, Presentation, SessionScreen, Rectangle,
     Shown!None, Corner, Caret
<1>4. Publication
  BY <1>1 DEF Shown!ScreenInit, Publication
<1> QED
  BY <1>2, <1>3, <1>4 DEF ScreenInv

LEMMA ScreenInvKept ==
    ASSUME ScreenInv, [ApplicationNext]_applicationVars
    PROVE  ScreenInv'
<1> USE ApplicationAssumption
<1>1. CASE Shown!ScreenNext
  BY <1>1, ScreenInvStep
<1>2. CASE UNCHANGED screenVars
  BY <1>2 DEF screenVars, ScreenInv, Geometry, Presentation, Publication, Corner, Caret,
     Shown!View, Shown!Cells
<1> QED
  BY <1>1, <1>2, ScreenMoves

\* The operator's window shows the caller's screen, whatever their sizes and
\* whatever is drawn: what was published when a call ended or waits is the
\* corner of the session screen with its cursor, and the window shows what was
\* published, but for the cells that are still to be painted.
THEOREM OperatorSeesCaller == ApplicationSpec => []WindowShowsSession
<1>1. ScreenInv => WindowShowsSession
  BY DEF ScreenInv, Presentation, Publication, Corner, Caret, WindowShowsSession,
     Shown!WindowShowsSession, Shown!UpToDate
<1> QED
  BY <1>1, ScreenInvInit, ScreenInvKept, PTL DEF ApplicationSpec

\* Nothing that is drawn, and no cursor, leaves the session screen.
OnScreen(s) ==
    /\ s.cells \subseteq Shown!Cells(Shown!Screen)
    /\ s.cursor \in Shown!Cells(Shown!Screen)
    /\ Shown!Inside(s.dirty)

LEMMA ScreenCells ==
    ASSUME Geometry
    PROVE  /\ size[1] \in Nat \ {0} /\ size[2] \in Nat \ {0}
           /\ Shown!Cells(Shown!Screen) = (0..(size[1] - 1)) \X (0..(size[2] - 1))
           /\ Shown!Inside(Shown!Screen) /\ Shown!Inside(Shown!None)
           /\ Shown!Screen \in Rectangle
BY DEF Geometry, Shown!Screen, Shown!Cells, Shown!Inside, Shown!None, Rectangle

LEMMA InsideIsOnScreen ==
    ASSUME Geometry, NEW r \in Rectangle, Shown!Inside(r)
    PROVE  Shown!Cells(r) \subseteq Shown!Cells(Shown!Screen)
BY ScreenCells DEF Shown!Inside, Shown!Cells, Rectangle

LEMMA WritingInside ==
    ASSUME Geometry, NEW s \in SessionScreen, OnScreen(s), NEW r \in Rectangle, Shown!Inside(r),
           NEW marks \in SUBSET (Int \X Int), marks \subseteq Shown!Cells(Shown!Screen)
    PROVE  OnScreen(Shown!Write(s, r, marks))
<1> DEFINE w == [s EXCEPT !.cells = (s.cells \ Shown!Cells(r)) \union marks]
<1>1. /\ w \in SessionScreen /\ w.dirty = s.dirty /\ w.cursor = s.cursor
      /\ w.cells = (s.cells \ Shown!Cells(r)) \union marks
  BY DEF SessionScreen
<1>2. Shown!Write(s, r, marks) = Shown!MarkDirty(w, r)
  BY DEF Shown!Write, SessionScreen
<1> HIDE DEF w
<1> DEFINE hull == <<Shown!Lesser(w.dirty[1], r[1]), Shown!Lesser(w.dirty[2], r[2]),
                     Shown!Greater(w.dirty[3], r[3]), Shown!Greater(w.dirty[4], r[4])>>
<1>3. \/ Shown!MarkDirty(w, r) = [w EXCEPT !.dirty = r]
      \/ Shown!MarkDirty(w, r) = [w EXCEPT !.dirty = hull]
  BY <1>1 DEF Shown!MarkDirty, SessionScreen
<1>4. Shown!Inside(hull)
  <2>1. w.dirty \in Rectangle /\ Shown!Inside(w.dirty)
    BY <1>1 DEF OnScreen, SessionScreen
  <2> QED
    BY <2>1 DEF Shown!Inside, Rectangle, Shown!Lesser, Shown!Greater
<1> HIDE DEF hull
<1>5. /\ Shown!MarkDirty(w, r).cells = w.cells /\ Shown!MarkDirty(w, r).cursor = w.cursor
      /\ Shown!MarkDirty(w, r).dirty \in {r, hull}
  BY <1>1, <1>3 DEF SessionScreen
<1>6. Shown!Inside(Shown!MarkDirty(w, r).dirty)
  BY <1>4, <1>5
<1> QED
  BY <1>1, <1>2, <1>5, <1>6 DEF OnScreen

LEMMA CursorOnScreen ==
    ASSUME NEW s \in SessionScreen, OnScreen(s), NEW c \in Shown!Cells(Shown!Screen)
    PROVE  OnScreen([s EXCEPT !.cursor = c])
BY DEF OnScreen, SessionScreen

LEMMA LineOnScreen ==
    ASSUME Geometry, NEW s \in SessionScreen, OnScreen(s)
    PROVE  OnScreen(Shown!LineDown(s))
<1>1. CASE s.cursor[2] = size[2] - 1
  <2> DEFINE marks == {c \in Shown!Shift(s.cells, 0, -1) : c[2] >= 0}
  <2>1. marks \in SUBSET (Int \X Int)
    BY DEF Shown!Shift, SessionScreen
  <2>2. Shown!LineDown(s) = Shown!Write(s, Shown!Screen, marks)
    BY <1>1 DEF Shown!LineDown, Shown!ScrollUpOneLine
  <2>3. marks \subseteq Shown!Cells(Shown!Screen)
    <3>1. s.cells \subseteq (0..(size[1] - 1)) \X (0..(size[2] - 1))
      BY ScreenCells DEF OnScreen
    <3>2. ASSUME NEW m \in marks
          PROVE  m \in (0..(size[1] - 1)) \X (0..(size[2] - 1))
      <4>1. PICK c \in s.cells : m = <<c[1], c[2] - 1>> /\ m[2] >= 0
        BY <3>1 DEF Shown!Shift
      <4>2. c[1] \in 0..(size[1] - 1) /\ c[2] \in 0..(size[2] - 1)
        BY <3>1
      <4>3. c[2] - 1 \in 0..(size[2] - 1)
        BY <4>1, <4>2, ScreenCells
      <4> QED
        BY <4>1, <4>2, <4>3
    <3> QED
      BY <3>2, ScreenCells
  <2> HIDE DEF marks
  <2> QED
    BY <2>1, <2>2, <2>3, ScreenCells, WritingInside
<1>2. CASE s.cursor[2] # size[2] - 1
  <2>1. Shown!LineDown(s) = [s EXCEPT !.cursor = <<s.cursor[1], s.cursor[2] + 1>>]
    BY <1>2 DEF Shown!LineDown, SessionScreen
  <2>2. s.cursor \in (0..(size[1] - 1)) \X (0..(size[2] - 1))
    BY ScreenCells DEF OnScreen
  <2>3. s.cursor[2] + 1 \in 0..(size[2] - 1)
    BY <1>2, <2>2, ScreenCells
  <2>4. <<s.cursor[1], s.cursor[2] + 1>> \in Shown!Cells(Shown!Screen)
    BY <2>2, <2>3, ScreenCells
  <2> QED
    BY <2>1, <2>4, CursorOnScreen
<1> QED
  BY <1>1, <1>2

LEMMA ColumnOnScreen ==
    ASSUME Geometry, NEW s \in SessionScreen, OnScreen(s), NEW col \in Nat
    PROVE  OnScreen(Shown!MoveTo(s, col))
<1> DEFINE to == IF col < size[1] THEN col ELSE 0
           u  == [s EXCEPT !.cursor = <<to, s.cursor[2]>>]
<1>1. s.cursor \in (0..(size[1] - 1)) \X (0..(size[2] - 1)) /\ to \in 0..(size[1] - 1)
  BY ScreenCells DEF OnScreen
<1>2. <<to, s.cursor[2]>> \in Shown!Cells(Shown!Screen) /\ <<to, s.cursor[2]>> \in Int \X Int
  BY <1>1, ScreenCells
<1>3. Shown!MoveTo(s, col) = u \/ Shown!MoveTo(s, col) = Shown!LineDown(u)
  BY DEF Shown!MoveTo, SessionScreen
<1> HIDE DEF to
<1>4. u \in SessionScreen /\ OnScreen(u)
  BY <1>2, CursorOnScreen DEF SessionScreen
<1> HIDE DEF u
<1> QED
  BY <1>3, <1>4, LineOnScreen

LEMMA CharOnScreen ==
    ASSUME Geometry, TabStop \in Nat \ {0}, NEW s \in SessionScreen, OnScreen(s),
           NEW ch \in {"mark", "CR", "LF", "BS", "HT"}
    PROVE  OnScreen(Shown!DisplayChar(s, ch))
<1>1. /\ s.cursor = <<s.cursor[1], s.cursor[2]>>
      /\ s.cursor[1] \in 0..(size[1] - 1) /\ s.cursor[2] \in 0..(size[2] - 1)
      /\ s.cursor[1] \in Nat /\ s.cursor[2] \in Nat
      /\ s.cursor[1] < size[1] /\ s.cursor[2] < size[2]
  BY ScreenCells DEF OnScreen
<1>2. ASSUME NEW col \in 0..(size[1] - 1)
      PROVE  OnScreen([s EXCEPT !.cursor = <<col, s.cursor[2]>>])
  <2>1. <<col, s.cursor[2]>> \in Shown!Cells(Shown!Screen)
    BY <1>1, ScreenCells
  <2> QED
    BY <2>1, CursorOnScreen
<1>3. CASE ch = "CR"
  <2>1. Shown!DisplayChar(s, ch) = [s EXCEPT !.cursor = <<0, s.cursor[2]>>]
    BY <1>3 DEF Shown!DisplayChar, SessionScreen
  <2>2. 0 \in 0..(size[1] - 1)
    BY ScreenCells
  <2> QED
    BY <1>2, <2>1, <2>2
<1>4. CASE ch = "LF"
  <2>1. Shown!DisplayChar(s, ch) = Shown!LineDown(s)
    BY <1>4 DEF Shown!DisplayChar
  <2> QED
    BY <2>1, LineOnScreen
<1>5. CASE ch = "BS"
  <2> DEFINE col == IF s.cursor[1] = 0 THEN 0 ELSE s.cursor[1] - 1
  <2>1. Shown!DisplayChar(s, ch) = [s EXCEPT !.cursor = <<col, s.cursor[2]>>]
    BY <1>5 DEF Shown!DisplayChar, SessionScreen
  <2>2. col \in 0..(size[1] - 1)
    BY <1>1, ScreenCells
  <2> HIDE DEF col
  <2> QED
    BY <1>2, <2>1, <2>2
<1>6. CASE ch = "HT"
  <2> DEFINE col == (s.cursor[1] \div TabStop + 1) * TabStop
  <2>1. Shown!DisplayChar(s, ch) = Shown!MoveTo(s, col)
    BY <1>6 DEF Shown!DisplayChar
  <2>2. s.cursor[1] \div TabStop \in Nat
    BY <1>1, Division
  <2>3. col \in Nat
    BY <2>2
  <2> HIDE DEF col
  <2> QED
    BY <2>1, <2>3, ColumnOnScreen
<1>7. CASE ch = "mark"
  <2> DEFINE at == <<s.cursor[1], s.cursor[2], s.cursor[1], s.cursor[2]>>
             w  == Shown!Write(s, at, {s.cursor})
  <2>1. Shown!DisplayChar(s, ch) = Shown!MoveTo(w, s.cursor[1] + 1)
    BY <1>7 DEF Shown!DisplayChar
  <2>2. /\ at \in Rectangle /\ Shown!Inside(at) /\ s.cursor \in Shown!Cells(at)
    <3>1. at \in Rectangle
      BY <1>1 DEF Rectangle
    <3>2. Shown!Inside(at)
      BY <1>1 DEF Shown!Inside
    <3>3. s.cursor \in Shown!Cells(at)
      <4>1. \A x, y \in Nat : <<x, y>> \in Shown!Cells(<<x, y, x, y>>)
        BY DEF Shown!Cells
      <4>2. <<s.cursor[1], s.cursor[2]>> \in Shown!Cells(at)
        BY <1>1, <4>1
      <4> HIDE DEF at
      <4> QED
        BY <1>1, <4>2
    <3> QED
      BY <3>1, <3>2, <3>3
  <2>3. /\ {s.cursor} \subseteq Shown!Cells(Shown!Screen) /\ {s.cursor} \in SUBSET (Int \X Int)
        /\ {s.cursor} \intersect Shown!View \subseteq Shown!Cells(at)
    BY <2>2 DEF OnScreen, SessionScreen
  <2> HIDE DEF at
  <2>4. w \in SessionScreen
    BY <2>2, <2>3, Writing
  <2>5. OnScreen(w)
    BY <2>2, <2>3, WritingInside
  <2> HIDE DEF w
  <2>6. s.cursor[1] + 1 \in Nat
    BY <1>1
  <2> QED
    BY <2>1, <2>4, <2>5, <2>6, ColumnOnScreen
<1> QED
  BY <1>3, <1>4, <1>5, <1>6, <1>7

LEMMA RestOnScreen ==
    ASSUME Geometry, NEW s \in SessionScreen, OnScreen(s)
    PROVE  /\ OnScreen(Shown!Clear(s)) /\ OnScreen(Shown!ClearToEndOfLine(s))
           /\ \A r \in Rectangle : OnScreen(Shown!PutText(s, r, Shown!Cells(r)))
           /\ \A r \in Rectangle, d \in Int \X Int : OnScreen(Shown!CopyText(s, r, d[1], d[2]))
<1>1. {} \subseteq Shown!Cells(Shown!Screen) /\ {} \in SUBSET (Int \X Int)
      /\ {} \intersect Shown!View \subseteq Shown!Cells(Shown!Screen)
  OBVIOUS
<1>2. OnScreen(Shown!Clear(s))
  <2> DEFINE w == Shown!Write(s, Shown!Screen, {})
  <2>1. Shown!Clear(s) = [w EXCEPT !.cursor = <<0, 0>>]
    BY DEF Shown!Clear
  <2>2. w \in SessionScreen
    BY <1>1, ScreenCells, Writing
  <2>3. OnScreen(w)
    BY <1>1, ScreenCells, WritingInside
  <2>4. <<0, 0>> \in Shown!Cells(Shown!Screen)
    BY ScreenCells
  <2> HIDE DEF w
  <2> QED
    BY <2>1, <2>2, <2>3, <2>4, CursorOnScreen
<1>3. OnScreen(Shown!ClearToEndOfLine(s))
  <2> DEFINE rest == <<s.cursor[1], s.cursor[2], size[1] - 1, s.cursor[2]>>
  <2>1. s.cursor \in (0..(size[1] - 1)) \X (0..(size[2] - 1))
    BY ScreenCells DEF OnScreen
  <2>2. rest \in Rectangle /\ Shown!Inside(rest)
    BY <2>1, ScreenCells DEF Rectangle, Shown!Inside
  <2>3. Shown!ClearToEndOfLine(s) = Shown!Write(s, rest, {})
    BY DEF Shown!ClearToEndOfLine
  <2> HIDE DEF rest
  <2> QED
    BY <1>1, <2>2, <2>3, WritingInside
<1>4. ASSUME NEW r \in Rectangle
      PROVE  OnScreen(Shown!PutText(s, r, Shown!Cells(r)))
  <2>1. CASE Shown!Inside(r)
    <3>1. Shown!Cells(r) \subseteq Shown!Cells(Shown!Screen)
      BY <2>1, InsideIsOnScreen
    <3>2. Shown!Cells(r) \in SUBSET (Int \X Int)
      BY DEF Rectangle, Shown!Cells
    <3>3. Shown!PutText(s, r, Shown!Cells(r)) = Shown!Write(s, r, Shown!Cells(r))
      BY <2>1 DEF Shown!PutText
    <3> QED
      BY <2>1, <3>1, <3>2, <3>3, WritingInside
  <2>2. CASE ~Shown!Inside(r)
    BY <2>2 DEF Shown!PutText
  <2> QED
    BY <2>1, <2>2
<1>5. ASSUME NEW r \in Rectangle, NEW d \in Int \X Int
      PROVE  OnScreen(Shown!CopyText(s, r, d[1], d[2]))
  <2> DEFINE dest  == <<r[1] + d[1], r[2] + d[2], r[3] + d[1], r[4] + d[2]>>
             marks == Shown!Shift(s.cells \intersect Shown!Cells(r), d[1], d[2])
  <2>1. dest \in Rectangle
    BY DEF Rectangle
  <2>2. marks \in SUBSET (Int \X Int)
    BY DEF Shown!Shift, SessionScreen
  <2>3. marks \subseteq Shown!Cells(dest)
    BY DEF Shown!Shift, SessionScreen, Shown!Cells, Rectangle
  <2>4. \/ Shown!CopyText(s, r, d[1], d[2]) = Shown!Write(s, dest, marks) /\ Shown!Inside(dest)
        \/ Shown!CopyText(s, r, d[1], d[2]) = s
    BY DEF Shown!CopyText
  <2> HIDE DEF dest, marks
  <2>5. CASE Shown!Inside(dest)
    <3>1. marks \subseteq Shown!Cells(Shown!Screen)
      BY <2>1, <2>3, <2>5, InsideIsOnScreen
    <3>2. OnScreen(Shown!Write(s, dest, marks))
      BY <2>1, <2>2, <2>5, <3>1, WritingInside
    <3> QED
      BY <2>4, <3>2
  <2> QED
    BY <2>4, <2>5
<1> QED
  BY <1>2, <1>3, <1>4, <1>5

\* What the variables hold.
Flags ==
    /\ size \in Sizes
    /\ emulating \in BOOLEAN /\ bScreenDirty \in BOOLEAN /\ hwndScreenWindow \in BOOLEAN
    /\ call \in {"outside", "called", "drawn", "waiting"}
    /\ resume \in {"outside", "called", "drawn"}

Pictures ==
    /\ local \in Shown!Generation /\ display \in Shown!Generation
    /\ window \in Shown!Generation
    /\ invalid \in SUBSET Shown!View /\ painting \in SUBSET Shown!View

ScreenTyped == Flags /\ OnScreen(session) /\ Pictures

LEMMA FlagsStep ==
    ASSUME Flags, Shown!ScreenNext
    PROVE  Flags'
<1>1. CASE Shown!Enter
  BY <1>1 DEF Shown!Enter, Flags, Shown!frameSide
<1>2. CASE Shown!Draw
  <2>1. PICK s : Shown!Changed(s)
    BY <1>2 DEF Shown!Draw
  <2> QED
    BY <2>1 DEF Shown!Changed, Flags, Shown!frameSide
<1>3. CASE Shown!Present \/ Shown!EndEmulation
  BY <1>3 DEF Shown!Present, Shown!EndEmulation, Shown!Presented, Flags, Shown!frameSide
<1>4. CASE Shown!BeginEmulation
  BY <1>4 DEF Shown!BeginEmulation, Flags, Shown!frameSide
<1>5. CASE Shown!Return \/ Shown!Release
  BY <1>5 DEF Shown!Return, Shown!Release, Shown!Publish, Flags, Shown!frameSide
<1>6. CASE Shown!Reacquire
  BY <1>6 DEF Shown!Reacquire, Flags, Shown!frameSide
<1>7. CASE Shown!CreateWindow \/ Shown!Uncover \/ Shown!BeginPaint \/ Shown!Paint
  BY <1>7 DEF Shown!CreateWindow, Shown!Uncover, Shown!BeginPaint, Shown!Paint, Flags,
     Shown!applicationSide
<1> QED
  BY <1>1, <1>2, <1>3, <1>4, <1>5, <1>6, <1>7 DEF Shown!ScreenNext

LEMMA SameScreen ==
    ASSUME UNCHANGED size
    PROVE  /\ Shown!View' = Shown!View
           /\ Shown!Generation' = Shown!Generation
           /\ Shown!Cells(Shown!Screen)' = Shown!Cells(Shown!Screen)
           /\ \A s : Shown!Inside(s)' <=> Shown!Inside(s)
           /\ Shown!Hidden' = Shown!Hidden
BY DEF Shown!View, Shown!Cells, Shown!Generation, Shown!Screen, Shown!Inside, Shown!Hidden

LEMMA DrawOnScreen ==
    ASSUME Geometry, session \in SessionScreen, OnScreen(session), Shown!ScreenAssumption,
           Shown!Draw
    PROVE  OnScreen(session')
<1>1. TabStop \in Nat \ {0} /\ Areas \subseteq Rectangle /\ Moves \subseteq Int \X Int
  BY DEF Shown!ScreenAssumption, Rectangle
<1>2. \A ch \in {"mark", "CR", "LF", "BS", "HT"} : OnScreen(Shown!DisplayChar(session, ch))
  BY <1>1, CharOnScreen
<1>3. OnScreen(Shown!Clear(session)) /\ OnScreen(Shown!ClearToEndOfLine(session))
  BY RestOnScreen
<1>4. \A r \in Areas : OnScreen(Shown!PutText(session, r, Shown!Cells(r)))
  BY <1>1, RestOnScreen
<1>5. \A r \in Areas, d \in Moves : OnScreen(Shown!CopyText(session, r, d[1], d[2]))
  BY <1>1, RestOnScreen
<1>6. \A c \in Shown!Cells(Shown!Screen) : OnScreen([session EXCEPT !.cursor = c])
  BY CursorOnScreen
<1>7. PICK s : OnScreen(s) /\ Shown!Changed(s)
  BY <1>2, <1>3, <1>4, <1>5, <1>6 DEF Shown!Draw
<1> QED
  BY <1>7 DEF Shown!Changed

\* A picture of the local screen: cells of it, and its caret.
LEMMA Picture ==
    ASSUME NEW cells \in SUBSET Shown!View, NEW caret \in Shown!View \union {Shown!Hidden}
    PROVE  [cells |-> cells, caret |-> caret] \in Shown!Generation
BY DEF Shown!Generation

LEMMA NothingIsPicture == Shown!Nothing \in Shown!Generation
BY DEF Shown!Generation, Shown!Nothing

LEMMA Parts ==
    ASSUME NEW g \in Shown!Generation
    PROVE  g.cells \in SUBSET Shown!View /\ g.caret \in Shown!View \union {Shown!Hidden}
BY DEF Shown!Generation

LEMMA PresentedTyped ==
    ASSUME ScreenInv, ScreenTyped, Shown!Presented
    PROVE  local' \in Shown!Generation /\ OnScreen(session')
<1> DEFINE visible == Shown!View \intersect Shown!Cells(session.dirty)
           cells == (local.cells \ visible) \union (session.cells \intersect visible)
<1>1. local' = [cells |-> cells, caret |-> Caret] /\ session' = [session EXCEPT !.dirty = Shown!None]
  BY DEF Shown!Presented, Caret
<1>2. cells \in SUBSET Shown!View
  BY Parts DEF ScreenTyped, Pictures
<1>3. Caret \in Shown!View \union {Shown!Hidden}
  BY DEF Caret
<1> HIDE DEF cells
<1>4. local' \in Shown!Generation
  BY <1>1, <1>2, <1>3, Picture
<1>5. session \in SessionScreen /\ Shown!Inside(Shown!None) /\ OnScreen(session)
  BY ScreenCells DEF ScreenInv, Presentation, ScreenTyped
<1>6. OnScreen(session')
  BY <1>1, <1>5 DEF OnScreen, SessionScreen
<1> QED
  BY <1>4, <1>6

LEMMA PaintedTyped ==
    ASSUME Pictures, UNCHANGED size,
           Shown!CreateWindow \/ Shown!Uncover \/ Shown!BeginPaint \/ Shown!Paint
    PROVE  Pictures'
<1>1. local' = local /\ display' = display
  BY DEF Shown!CreateWindow, Shown!Uncover, Shown!BeginPaint, Shown!Paint, Shown!applicationSide
<1>2. window' \in Shown!Generation
  <2>1. CASE Shown!CreateWindow \/ Shown!Uncover \/ Shown!BeginPaint
    BY <2>1, NothingIsPicture DEF Shown!CreateWindow, Shown!Uncover, Shown!BeginPaint, Pictures
  <2>2. CASE Shown!Paint
    <3> DEFINE cells == (window.cells \ painting) \union (display.cells \intersect painting)
    <3>1. window' = [cells |-> cells, caret |-> display.caret]
      BY <2>2 DEF Shown!Paint
    <3>2. cells \in SUBSET Shown!View /\ display.caret \in Shown!View \union {Shown!Hidden}
      BY Parts DEF Pictures
    <3> HIDE DEF cells
    <3> QED
      BY <3>1, <3>2, Picture
  <2> QED
    BY <2>1, <2>2
<1>3. invalid' \in SUBSET Shown!View /\ painting' \in SUBSET Shown!View
  BY DEF Shown!CreateWindow, Shown!Uncover, Shown!BeginPaint, Shown!Paint, Pictures
<1> QED
  BY <1>1, <1>2, <1>3, SameScreen DEF Pictures

LEMMA ScreenTypeStep ==
    ASSUME ScreenInv, ScreenTyped, Shown!ScreenAssumption, Shown!ScreenNext
    PROVE  ScreenTyped'
<1>1. Flags' /\ UNCHANGED size
  BY FlagsStep DEF ScreenTyped, Shown!ScreenNext, Shown!Enter, Shown!Draw, Shown!Changed,
     Shown!Present, Shown!EndEmulation, Shown!BeginEmulation, Shown!Return, Shown!Release,
     Shown!Reacquire, Shown!CreateWindow, Shown!Uncover, Shown!BeginPaint, Shown!Paint,
     Shown!applicationSide
<1>2. OnScreen(session)' <=> OnScreen(session')
  BY <1>1, SameScreen DEF OnScreen
<1>3. Geometry /\ session \in SessionScreen
  BY DEF ScreenInv, Presentation
<1>4. CASE Shown!Enter \/ Shown!BeginEmulation \/ Shown!Reacquire
  BY <1>1, <1>2, <1>4, SameScreen DEF Shown!Enter, Shown!BeginEmulation, Shown!Reacquire,
     Shown!frameSide, ScreenTyped, Pictures
<1>5. CASE Shown!Draw
  <2>1. OnScreen(session')
    BY <1>3, <1>5, DrawOnScreen DEF ScreenTyped
  <2>2. UNCHANGED <<local, display, window, invalid, painting>>
    BY <1>3, <1>5, Drawing
  <2> QED
    BY <1>1, <1>2, <2>1, <2>2, SameScreen DEF ScreenTyped, Pictures
<1>6. CASE Shown!Present \/ Shown!EndEmulation
  <2>1. Shown!Presented /\ UNCHANGED <<display, window, invalid, painting>>
    BY <1>6 DEF Shown!Present, Shown!EndEmulation, Shown!frameSide
  <2> QED
    BY <1>1, <1>2, <2>1, PresentedTyped, SameScreen DEF ScreenTyped, Pictures
<1>7. CASE Shown!Return \/ Shown!Release
  <2>1. Shown!Publish /\ UNCHANGED session
    BY <1>7 DEF Shown!Return, Shown!Release
  <2>2. /\ local' = local /\ painting' = painting
        /\ display' = local \/ display' = display
        /\ \/ invalid' = invalid /\ window' = window
           \/ invalid' = Shown!View /\ window' = Shown!Nothing
    BY <2>1 DEF Shown!Publish, Shown!frameSide
  <2> QED
    BY <1>1, <1>2, <2>1, <2>2, NothingIsPicture, SameScreen DEF ScreenTyped, Pictures
<1>8. CASE Shown!CreateWindow \/ Shown!Uncover \/ Shown!BeginPaint \/ Shown!Paint
  <2>1. UNCHANGED session
    BY <1>8 DEF Shown!CreateWindow, Shown!Uncover, Shown!BeginPaint, Shown!Paint,
       Shown!applicationSide
  <2> QED
    BY <1>1, <1>2, <1>8, <2>1, PaintedTyped DEF ScreenTyped
<1> QED
  BY <1>4, <1>5, <1>6, <1>7, <1>8 DEF Shown!ScreenNext

LEMMA ScreenTypedInit ==
    ASSUME ApplicationInit, Geometry
    PROVE  ScreenTyped
<1>1. Shown!ScreenInit
  BY DEF ApplicationInit
<1>2. <<0, 0>> \in Shown!View /\ <<0, 0>> \in Shown!Cells(Shown!Screen)
  BY ViewIsOnScreen
<1>3. Flags
  BY <1>1 DEF Shown!ScreenInit, Flags
<1>4. OnScreen(session)
  BY <1>1, <1>2, ScreenCells DEF Shown!ScreenInit, OnScreen
<1>5. local \in Shown!Generation
  <2>1. local = [cells |-> {}, caret |-> <<0, 0>>]
    BY <1>1 DEF Shown!ScreenInit
  <2> QED
    BY <1>2, <2>1, Picture
<1>6. Pictures
  BY <1>1, <1>5, NothingIsPicture DEF Shown!ScreenInit, Pictures
<1> QED
  BY <1>3, <1>4, <1>6 DEF ScreenTyped

LEMMA ScreenIsTyped == ScreenTyped => Shown!ScreenTypeOK
BY DEF ScreenTyped, Flags, OnScreen, Pictures, Shown!ScreenTypeOK

LEMMA ScreenTypedStep ==
    ASSUME ScreenInv, ScreenTyped, [ApplicationNext]_applicationVars
    PROVE  ScreenTyped'
<1>1. CASE Shown!ScreenNext
  BY <1>1, ApplicationAssumption, ScreenTypeStep
<1>2. CASE UNCHANGED screenVars
  BY <1>2, SameScreen DEF screenVars, ScreenTyped, Flags, OnScreen, Pictures
<1> QED
  BY <1>1, <1>2, ScreenMoves

---------------------------------------------------------------------------
(* The field.                                                              *)

LEMMA FirstLines ==
    ASSUME NEW S, NEW s \in Seq(S), NEW n \in 0..Len(s)
    PROVE  /\ SubSeq(s, 1, n) \in Seq(S) /\ Len(SubSeq(s, 1, n)) = n
           /\ \A i \in 1..n : SubSeq(s, 1, n)[i] = s[i]
OBVIOUS

Symbols == Edit!Chars \cup {Edit!NUL, Edit!Blank, "#", "M", "*", "-"}
Width == Len(format) - 1

Vacant(c, i) == c \in {Edit!Blank, Edit!Background(i - 1)}

\* The cells s of a field in which the string t is: behind it they are blank, or
\* show a permanent literal.
Shows(s, t) ==
    /\ s \in Seq(Symbols) /\ Len(s) = Width + 1
    /\ \A i \in 1..Len(t) : s[i] = t[i]
    /\ \A i \in (Len(t) + 1)..(Width + 1) : Vacant(s[i], i)

\* The cells r are s, with the n characters t written behind the first k cells.
Patched(r, s, k, t, n) ==
    /\ r \in Seq(Symbols) /\ Len(r) = Len(s)
    /\ \A i \in 1..Len(s) : r[i] = IF i <= k \/ k + n < i THEN s[i] ELSE t[i - k]

LEMMA Cells ==
    ASSUME NEW s \in Seq(Symbols), NEW k \in Nat, NEW t \in Seq(Symbols),
           NEW n, n = Len(t), k + n <= Len(s)
    PROVE  Patched(Edit!Put(s, k, t), s, k, t, n)
<1> DEFINE cell(i) == IF i \in (k + 1)..(k + Len(t)) THEN t[i - k] ELSE s[i]
<1>1. Edit!Put(s, k, t) = [i \in 1..Len(s) |-> cell(i)]
  BY DEF Edit!Put
<1>2. \A i \in 1..Len(s) : cell(i) \in Symbols
  OBVIOUS
<1>3. \A i \in 1..Len(s) : cell(i) = IF i <= k \/ k + n < i THEN s[i] ELSE t[i - k]
  OBVIOUS
<1> HIDE DEF cell
<1>4. [i \in 1..Len(s) |-> cell(i)] \in Seq(Symbols)
  BY <1>2
<1>5. Len([i \in 1..Len(s) |-> cell(i)]) = Len(s)
  BY <1>2
<1> QED
  BY <1>1, <1>3, <1>4, <1>5 DEF Patched

\* The cells r are s, but for c in the one behind the first k.
Altered(r, s, k, c) ==
    /\ r \in Seq(Symbols) /\ Len(r) = Len(s)
    /\ \A i \in 1..Len(s) : r[i] = IF i = k + 1 THEN c ELSE s[i]

LEMMA OneCell ==
    ASSUME NEW s \in Seq(Symbols), NEW k \in Nat, NEW c \in Symbols, k < Len(s)
    PROVE  Altered(Edit!Put(s, k, <<c>>), s, k, c)
<1>1. <<c>> \in Seq(Symbols) /\ 1 = Len(<<c>>) /\ <<c>>[1] = c
  OBVIOUS
<1>2. Patched(Edit!Put(s, k, <<c>>), s, k, <<c>>, 1)
  <2>1. k + 1 <= Len(s)
    OBVIOUS
  <2> QED
    BY <1>1, <2>1, Cells
<1> DEFINE one == <<c>>
           r == Edit!Put(s, k, one)
<1>3. one[1] = c /\ Patched(r, s, k, one, 1)
  BY <1>1, <1>2
<1> HIDE DEF one, r
<1>4. /\ r \in Seq(Symbols) /\ Len(r) = Len(s)
      /\ \A i \in 1..Len(s) : r[i] = IF i = k + 1 THEN c ELSE s[i]
  BY <1>3 DEF Patched
<1> QED
  BY <1>4 DEF Altered, one, r

\* The cells r are those of a field in which u is, if s are those of one in which
\* t is: what is behind both strings has stayed, and the rest is vacant.
Becomes(r, u, s, t) ==
    /\ r \in Seq(Symbols) /\ Len(r) = Width + 1
    /\ \A i \in 1..Len(u) : r[i] = u[i]
    /\ \A i \in (Len(u) + 1)..(Width + 1) : Vacant(r[i], i) \/ (i > Len(t) /\ r[i] = s[i])

LEMMA ShowsChanged ==
    ASSUME Len(format) \in Nat, NEW s, NEW t \in Seq(Symbols), NEW u \in Seq(Symbols), NEW r,
           Shows(s, t), Becomes(r, u, s, t)
    PROVE  Shows(r, u)
<1>1. /\ r \in Seq(Symbols) /\ Len(r) = Width + 1 /\ Width \in Int
      /\ \A i \in 1..Len(u) : r[i] = u[i]
      /\ \A i \in (Len(u) + 1)..(Width + 1) : Vacant(r[i], i) \/ (i > Len(t) /\ r[i] = s[i])
  BY DEF Becomes, Width
<1>2. ASSUME NEW i \in (Len(u) + 1)..(Width + 1) PROVE Vacant(r[i], i)
  <2>1. CASE i > Len(t) /\ r[i] = s[i]
    <3>1. i \in (Len(t) + 1)..(Width + 1)
      BY <1>1, <2>1
    <3>2. Vacant(s[i], i)
      BY <3>1 DEF Shows
    <3> QED
      BY <2>1, <3>2
  <2> QED
    BY <1>1, <2>1
<1> QED
  BY <1>1, <1>2 DEF Shows

LEMMA BlankIsVacant == \A i : Vacant(Edit!Blank, i) /\ Edit!Blank \in Symbols
BY DEF Vacant, Symbols

\* What is shown when one cell, or none, changes.
LEMMA ShowsAppended ==
    ASSUME Len(format) \in Nat, NEW s, NEW t \in Seq(Symbols), NEW c \in Symbols,
           Shows(s, t), Len(t) < Width
    PROVE  Shows(Edit!Put(s, Len(t), <<c>>), Append(t, c)) /\ Append(t, c) \in Seq(Symbols)
<1>1. s \in Seq(Symbols) /\ Len(s) = Width + 1 /\ Width \in Int /\ Len(t) \in Nat
  BY DEF Shows, Width
<1>2. Len(t) < Len(s)
  BY <1>1
<1> DEFINE r == Edit!Put(s, Len(t), <<c>>)
           u == Append(t, c)
<1>3. /\ r \in Seq(Symbols) /\ Len(r) = Len(s)
      /\ \A i \in 1..Len(s) : r[i] = IF i = Len(t) + 1 THEN c ELSE s[i]
  <2>1. Altered(r, s, Len(t), c)
    BY <1>2, <1>1, OneCell
  <2> HIDE DEF r
  <2> QED
    BY <2>1 DEF Altered
<1>4. /\ u \in Seq(Symbols) /\ Len(u) = Len(t) + 1
      /\ \A i \in 1..Len(t) : u[i] = t[i]
      /\ u[Len(t) + 1] = c
  OBVIOUS
<1> HIDE DEF r, u
<1>5. ASSUME NEW i \in 1..Len(u) PROVE r[i] = u[i]
  <2>1. CASE i = Len(t) + 1
    <3>1. i \in 1..Len(s)
      BY <1>1, <1>2, <2>1
    <3> QED
      BY <1>3, <1>4, <2>1, <3>1
  <2>2. CASE i \in 1..Len(t)
    <3>1. s[i] = t[i] /\ u[i] = t[i]
      BY <1>4, <2>2 DEF Shows
    <3>2. i \in 1..Len(s) /\ i # Len(t) + 1
      BY <1>1, <1>2, <2>2
    <3>3. r[i] = s[i]
      BY <1>3, <3>2
    <3> QED
      BY <3>1, <3>3
  <2> QED
    BY <1>1, <1>4, <2>1, <2>2
<1>6. \A i \in (Len(u) + 1)..(Width + 1) : Vacant(r[i], i) \/ (i > Len(t) /\ r[i] = s[i])
  BY <1>1, <1>3, <1>4
<1>7. Len(r) = Width + 1
  BY <1>2, <1>1, <1>3
<1>8. Shows(r, u)
  <2>1. Becomes(r, u, s, t) /\ u \in Seq(Symbols)
    BY <1>3, <1>4, <1>5, <1>6, <1>7 DEF Becomes
  <2> QED
    BY <2>1, ShowsChanged
<1> QED
  BY <1>4, <1>8 DEF r, u

LEMMA ShowsReplaced ==
    ASSUME Len(format) \in Nat, NEW s, NEW t \in Seq(Symbols), NEW c \in Symbols,
           NEW k \in 0..(Len(t) - 1), Shows(s, t), Len(t) <= Width
    PROVE  /\ Shows(Edit!Put(s, k, <<c>>), [t EXCEPT ![k + 1] = c])
           /\ [t EXCEPT ![k + 1] = c] \in Seq(Symbols) /\ Len([t EXCEPT ![k + 1] = c]) = Len(t)
<1>1. s \in Seq(Symbols) /\ Len(s) = Width + 1 /\ Width \in Int /\ Len(t) \in Nat
  BY DEF Shows, Width
<1>2. k \in Nat /\ k < Len(s)
  BY <1>1
<1> DEFINE r == Edit!Put(s, k, <<c>>)
           u == [t EXCEPT ![k + 1] = c]
<1>3. /\ r \in Seq(Symbols) /\ Len(r) = Len(s)
      /\ \A i \in 1..Len(s) : r[i] = IF i = k + 1 THEN c ELSE s[i]
  <2>1. Altered(r, s, k, c)
    BY <1>2, <1>1, OneCell
  <2> HIDE DEF r
  <2> QED
    BY <2>1 DEF Altered
<1>4. /\ u \in Seq(Symbols) /\ Len(u) = Len(t)
      /\ \A i \in 1..Len(t) : u[i] = IF i = k + 1 THEN c ELSE t[i]
  OBVIOUS
<1> HIDE DEF r, u
<1>5. ASSUME NEW i \in 1..Len(u) PROVE r[i] = u[i]
  <2>1. s[i] = t[i]
    BY <1>4 DEF Shows
  <2>2. i \in 1..Len(s)
    BY <1>1, <1>4
  <2> QED
    BY <1>3, <1>4, <2>1, <2>2
<1>6. \A i \in (Len(u) + 1)..(Width + 1) : Vacant(r[i], i) \/ (i > Len(t) /\ r[i] = s[i])
  BY <1>1, <1>3, <1>4
<1>7. Len(r) = Width + 1
  BY <1>1, <1>3
<1>8. Shows(r, u)
  <2>1. Becomes(r, u, s, t) /\ u \in Seq(Symbols)
    BY <1>3, <1>4, <1>5, <1>6, <1>7 DEF Becomes
  <2> QED
    BY <2>1, ShowsChanged
<1> QED
  BY <1>4, <1>8 DEF r, u

LEMMA ShowsShortened ==
    ASSUME Len(format) \in Nat, NEW s, NEW t \in Seq(Symbols),
           Len(t) \in 1..Width, Shows(s, t)
    PROVE  /\ Edit!Front(t) \in Seq(Symbols) /\ Len(Edit!Front(t)) = Len(t) - 1
           /\ \A i \in 1..(Len(t) - 1) : Edit!Front(t)[i] = t[i]
           /\ Shows(Edit!Put(s, Len(t) - 1, <<Edit!Blank>>), Edit!Front(t))
           /\ t[Len(t)] = Edit!Background(Len(t) - 1) => Shows(s, Edit!Front(t))
<1>1. s \in Seq(Symbols) /\ Len(s) = Width + 1 /\ Width \in Int /\ Len(t) - 1 \in Nat
  BY DEF Shows, Width
<1> DEFINE r == Edit!Put(s, Len(t) - 1, <<Edit!Blank>>)
           u == Edit!Front(t)
<1>2. Edit!Blank \in Symbols
  BY DEF Symbols
<1>3. /\ r \in Seq(Symbols) /\ Len(r) = Len(s)
      /\ \A i \in 1..Len(s) : r[i] = IF i = Len(t) - 1 + 1 THEN Edit!Blank ELSE s[i]
  <2>1. Altered(r, s, Len(t) - 1, Edit!Blank)
    BY <1>1, <1>2, OneCell
  <2> HIDE DEF r
  <2> QED
    BY <2>1 DEF Altered
<1>4. u = SubSeq(t, 1, Len(t) - 1) /\ Len(t) - 1 \in 0..Len(t)
  <2>1. u = SubSeq(t, 1, Len(t) - 1)
    BY Zenon DEF Edit!Front
  <2> QED
    BY <1>1, <2>1
<1>5. /\ u \in Seq(Symbols) /\ Len(u) = Len(t) - 1
      /\ \A i \in 1..(Len(t) - 1) : u[i] = t[i]
  BY <1>4, FirstLines
<1> HIDE DEF r, u
<1>6. \A i \in 1..Len(u) : s[i] = u[i]
  BY <1>1, <1>5 DEF Shows
<1>7. \A i \in 1..Len(u) : r[i] = u[i]
  BY <1>1, <1>3, <1>5, <1>6
<1>8. \A i \in (Len(u) + 1)..(Width + 1) : Vacant(r[i], i) \/ (i > Len(t) /\ r[i] = s[i])
  BY <1>1, <1>3, <1>5, BlankIsVacant
<1>9. Len(r) = Width + 1
  BY <1>1, <1>3
<1>10. Shows(r, u)
  <2>1. Becomes(r, u, s, t) /\ u \in Seq(Symbols)
    BY <1>3, <1>5, <1>7, <1>8, <1>9 DEF Becomes
  <2> QED
    BY <2>1, ShowsChanged
<1>11. ASSUME t[Len(t)] = Edit!Background(Len(t) - 1) PROVE Shows(s, u)
  <2>1. s[Len(t)] = t[Len(t)]
    BY <1>1 DEF Shows
  <2>2. Vacant(s[Len(t)], Len(t))
    BY <1>11, <2>1 DEF Vacant
  <2>3. \A i \in (Len(u) + 1)..(Width + 1) : i = Len(t) \/ i > Len(t)
    BY <1>1, <1>5
  <2> QED
    <3>1. Becomes(s, u, s, t) /\ u \in Seq(Symbols)
      BY <1>1, <1>5, <1>6, <2>2, <2>3 DEF Becomes
    <3> QED
      BY <3>1, ShowsChanged
<1> QED
  BY <1>5, <1>10, <1>11 DEF r, u

LEMMA ShowsKilled ==
    ASSUME Len(format) \in Nat, NEW s, NEW t \in Seq(Symbols), Len(t) <= Width, Shows(s, t)
    PROVE  Shows(Edit!Put(s, 0, Edit!Blanks(Len(t))), << >>)
<1>1. s \in Seq(Symbols) /\ Len(s) = Width + 1 /\ Width \in Int /\ Len(t) \in Nat
  BY DEF Shows, Width
<1> DEFINE b == Edit!Blanks(Len(t))
           r == Edit!Put(s, 0, b)
<1>2. Edit!Blank \in Symbols
  BY DEF Symbols
<1>3. b \in Seq(Symbols) /\ Len(t) = Len(b) /\ \A i \in 1..Len(t) : b[i] = Edit!Blank
  BY <1>1, <1>2 DEF Edit!Blanks
<1>4. Patched(r, s, 0, b, Len(t))
  BY <1>1, <1>3, Cells
<1> HIDE DEF r, b
<1>5. /\ r \in Seq(Symbols) /\ Len(r) = Len(s)
      /\ \A i \in 1..Len(s) : r[i] = IF i <= Len(t) THEN Edit!Blank ELSE s[i]
  BY <1>1, <1>3, <1>4 DEF Patched
<1> DEFINE u == << >>
<1>6. Len(u) = 0 /\ u \in Seq(Symbols) /\ \A i \in 1..Len(u) : r[i] = u[i]
  OBVIOUS
<1> HIDE DEF u
<1>7. \A i \in (Len(u) + 1)..(Width + 1) : Vacant(r[i], i) \/ (i > Len(t) /\ r[i] = s[i])
  BY <1>1, <1>5, <1>6, BlankIsVacant
<1>8. Len(r) = Width + 1
  BY <1>1, <1>5
<1>9. Shows(r, u)
  <2>1. Becomes(r, u, s, t) /\ u \in Seq(Symbols)
    BY <1>5, <1>7, <1>6, <1>8 DEF Becomes
  <2> QED
    BY <2>1, ShowsChanged
<1> QED
  BY <1>9 DEF r, b, u

\* What is behind the cursor moves.
LEMMA ShowsInserted ==
    ASSUME Len(format) \in Nat, NEW s, NEW t \in Seq(Symbols), NEW c \in Symbols,
           NEW k \in 0..Len(t), Shows(s, t), Len(t) < Width
    PROVE  LET rest == SubSeq(t, k + 1, Len(t))
               u == SubSeq(t, 1, k) \o <<c>> \o rest
           IN  Shows(Edit!Put(s, k, <<c>> \o rest), u) /\ u \in Seq(Symbols) /\ Len(u) = Len(t) + 1
<1> DEFINE rest == SubSeq(t, k + 1, Len(t))
           front == SubSeq(t, 1, k)
           one == <<c>>
           more == one \o rest
           begun == front \o one
           u == begun \o rest
           r == Edit!Put(s, k, more)
<1>1. s \in Seq(Symbols) /\ Len(s) = Width + 1 /\ Width \in Int /\ Len(t) \in Nat
  BY DEF Shows, Width
<1>2. /\ rest \in Seq(Symbols) /\ Len(rest) = Len(t) - k
      /\ \A i \in 1..(Len(t) - k) : rest[i] = t[k + i]
  OBVIOUS
<1>3. one \in Seq(Symbols) /\ Len(one) = 1 /\ one[1] = c
  OBVIOUS
<1>4. front \in Seq(Symbols) /\ Len(front) = k /\ \A i \in 1..k : front[i] = t[i]
  OBVIOUS
<1> HIDE DEF rest, front, one
<1>5. /\ more \in Seq(Symbols) /\ Len(more) = Len(one) + Len(rest)
      /\ \A i \in 1..(Len(one) + Len(rest)) :
            more[i] = IF i <= Len(one) THEN one[i] ELSE rest[i - Len(one)]
  BY <1>2, <1>3, ConcatProperties
<1>6. /\ begun \in Seq(Symbols) /\ Len(begun) = Len(front) + Len(one)
      /\ \A i \in 1..(Len(front) + Len(one)) :
            begun[i] = IF i <= Len(front) THEN front[i] ELSE one[i - Len(front)]
  BY <1>3, <1>4, ConcatProperties
<1> HIDE DEF more, begun
<1>7. /\ u \in Seq(Symbols) /\ Len(u) = Len(begun) + Len(rest)
      /\ \A i \in 1..(Len(begun) + Len(rest)) :
            u[i] = IF i <= Len(begun) THEN begun[i] ELSE rest[i - Len(begun)]
  <2>1. begun \in Seq(Symbols) /\ rest \in Seq(Symbols)
    BY <1>2, <1>6
  <2> QED
    BY <2>1, ConcatProperties
<1>8. k + Len(more) <= Len(s) /\ k \in Nat
  BY <1>1, <1>2, <1>3, <1>5
<1>9. Patched(r, s, k, more, Len(more))
  BY <1>1, <1>5, <1>8, Cells
<1> HIDE DEF u, r
<1>10. Len(more) = Len(t) - k + 1 /\ Len(begun) = k + 1 /\ Len(u) = Len(t) + 1
  BY <1>2, <1>3, <1>4, <1>5, <1>6, <1>7
<1>11. more[1] = c
  BY <1>1, <1>2, <1>3, <1>5
<1>12. ASSUME NEW i \in (k + 2)..(Len(t) + 1) PROVE more[i - k] = t[i - 1]
  <2>1. i - k \in 1..(Len(one) + Len(rest)) /\ ~(i - k <= Len(one)) /\ i - k - Len(one) = i - k - 1
    BY <1>1, <1>2, <1>3
  <2>2. more[i - k] = rest[i - k - 1]
    BY <1>5, <2>1
  <2>3. i - k - 1 \in 1..(Len(t) - k) /\ k + (i - k - 1) = i - 1
    BY <1>1
  <2> QED
    BY <1>2, <2>2, <2>3
<1>13. /\ \A i \in 1..k : begun[i] = t[i]
       /\ begun[k + 1] = c
  BY <1>3, <1>4, <1>6
<1>14. ASSUME NEW i \in 1..(k + 1) PROVE u[i] = begun[i]
  <2>1. i \in 1..(Len(begun) + Len(rest)) /\ i <= Len(begun)
    BY <1>1, <1>2, <1>10
  <2> QED
    BY <1>7, <2>1
<1>15. ASSUME NEW i \in (k + 2)..(Len(t) + 1) PROVE u[i] = t[i - 1]
  <2>1. i \in 1..(Len(begun) + Len(rest)) /\ ~(i <= Len(begun)) /\ i - Len(begun) = i - k - 1
    BY <1>1, <1>2, <1>10
  <2>2. u[i] = rest[i - k - 1]
    BY <1>7, <2>1
  <2>3. i - k - 1 \in 1..(Len(t) - k) /\ k + (i - k - 1) = i - 1
    BY <1>1
  <2> QED
    BY <1>2, <2>2, <2>3
<1>16. (\A i \in 1..k : u[i] = t[i]) /\ u[k + 1] = c
  BY <1>13, <1>14
<1>17. /\ r \in Seq(Symbols) /\ Len(r) = Len(s)
       /\ \A i \in 1..k : r[i] = s[i]
       /\ \A i \in (k + 1)..(Len(t) + 1) : r[i] = more[i - k]
       /\ \A i \in (Len(t) + 2)..Len(s) : r[i] = s[i]
  BY <1>1, <1>9, <1>10 DEF Patched
<1>18. ASSUME NEW i \in 1..Len(u) PROVE r[i] = u[i]
  <2>1. CASE i \in 1..k
    <3>1. s[i] = t[i]
      BY <1>1, <2>1 DEF Shows
    <3> QED
      BY <1>16, <1>17, <2>1, <3>1
  <2>2. CASE i = k + 1
    <3>1. i \in (k + 1)..(Len(t) + 1) /\ i - k = 1
      BY <1>1, <2>2
    <3> QED
      BY <1>11, <1>16, <1>17, <2>2, <3>1
  <2>3. CASE i \in (k + 2)..(Len(t) + 1)
    <3>1. i \in (k + 1)..(Len(t) + 1)
      BY <2>3
    <3> QED
      BY <1>17, <1>12, <1>15, <2>3, <3>1
  <2> QED
    BY <1>1, <1>10, <2>1, <2>2, <2>3
<1>19. \A i \in (Len(u) + 1)..(Width + 1) : Vacant(r[i], i) \/ (i > Len(t) /\ r[i] = s[i])
  BY <1>1, <1>10, <1>17
<1>20. Len(r) = Width + 1
  BY <1>1, <1>17
<1>21. Shows(r, u)
  <2>1. Becomes(r, u, s, t) /\ u \in Seq(Symbols)
    BY <1>7, <1>17, <1>18, <1>19, <1>20 DEF Becomes
  <2> QED
    BY <2>1, ShowsChanged
<1> QED
  BY <1>7, <1>10, <1>21 DEF u, r, more, begun, one, front, rest

LEMMA ShowsDeleted ==
    ASSUME Len(format) \in Nat, NEW s, NEW t \in Seq(Symbols),
           NEW k \in 0..(Len(t) - 1), Shows(s, t), Len(t) <= Width
    PROVE  LET rest == SubSeq(t, k + 2, Len(t))
               u == SubSeq(t, 1, k) \o rest
           IN  /\ Shows(Edit!Put(s, k, Append(rest, Edit!Blank)), u)
               /\ u \in Seq(Symbols) /\ Len(u) = Len(t) - 1
<1> DEFINE rest == SubSeq(t, k + 2, Len(t))
           front == SubSeq(t, 1, k)
           more == Append(rest, Edit!Blank)
           u == front \o rest
           r == Edit!Put(s, k, more)
<1>1. s \in Seq(Symbols) /\ Len(s) = Width + 1 /\ Width \in Int /\ Len(t) \in Nat
  BY DEF Shows, Width
<1>2. /\ rest \in Seq(Symbols) /\ Len(rest) = Len(t) - k - 1
      /\ \A i \in 1..(Len(t) - k - 1) : rest[i] = t[k + 1 + i]
  OBVIOUS
<1>3. Edit!Blank \in Symbols
  BY DEF Symbols
<1>4. front \in Seq(Symbols) /\ Len(front) = k /\ \A i \in 1..k : front[i] = t[i]
  OBVIOUS
<1> HIDE DEF rest, front
<1>5. /\ more \in Seq(Symbols) /\ Len(more) = Len(rest) + 1
      /\ \A i \in 1..Len(rest) : more[i] = rest[i]
      /\ more[Len(rest) + 1] = Edit!Blank
  BY <1>2, <1>3
<1>6. /\ u \in Seq(Symbols) /\ Len(u) = Len(front) + Len(rest)
      /\ \A i \in 1..(Len(front) + Len(rest)) :
            u[i] = IF i <= Len(front) THEN front[i] ELSE rest[i - Len(front)]
  BY <1>2, <1>4, ConcatProperties
<1> HIDE DEF more
<1>7. k + Len(more) <= Len(s) /\ k \in Nat
  BY <1>1, <1>2, <1>5
<1>8. Patched(r, s, k, more, Len(more))
  BY <1>1, <1>5, <1>7, Cells
<1> HIDE DEF u, r
<1>9. Len(more) = Len(t) - k /\ Len(u) = Len(t) - 1
  BY <1>2, <1>4, <1>5, <1>6
<1>10. more[Len(t) - k] = Edit!Blank
  BY <1>1, <1>2, <1>5
<1>11. ASSUME NEW i \in 1..k PROVE u[i] = t[i]
  <2>1. i \in 1..(Len(front) + Len(rest)) /\ i <= Len(front)
    BY <1>1, <1>2, <1>4
  <2> QED
    BY <1>4, <1>6, <2>1
<1>12. ASSUME NEW i \in (k + 1)..(Len(t) - 1) PROVE u[i] = rest[i - k] /\ more[i - k] = rest[i - k]
  BY <1>1, <1>2, <1>4, <1>5, <1>6
<1>13. /\ r \in Seq(Symbols) /\ Len(r) = Len(s)
       /\ \A i \in 1..k : r[i] = s[i]
       /\ \A i \in (k + 1)..Len(t) : r[i] = more[i - k]
       /\ \A i \in (Len(t) + 1)..Len(s) : r[i] = s[i]
  <2> DEFINE n == Len(more)
  <2>1. Patched(r, s, k, more, n) /\ n = Len(t) - k /\ n \in Nat
    BY <1>1, <1>8, <1>9
  <2> HIDE DEF n
  <2>2. /\ r \in Seq(Symbols) /\ Len(r) = Len(s)
        /\ \A i \in 1..Len(s) : r[i] = IF i <= k \/ k + n < i THEN s[i] ELSE more[i - k]
    BY <2>1 DEF Patched
  <2>3. \A i \in 1..k : r[i] = s[i]
    BY <1>1, <2>1, <2>2
  <2>4. \A i \in (k + 1)..Len(t) : r[i] = more[i - k]
    BY <1>1, <2>1, <2>2
  <2>5. \A i \in (Len(t) + 1)..Len(s) : r[i] = s[i]
    BY <1>1, <2>1, <2>2
  <2> QED
    BY <2>2, <2>3, <2>4, <2>5
<1>14. ASSUME NEW i \in 1..Len(u) PROVE r[i] = u[i]
  <2>1. CASE i \in 1..k
    <3>1. s[i] = t[i]
      BY <1>1, <2>1 DEF Shows
    <3> QED
      BY <1>11, <1>13, <2>1, <3>1
  <2>2. CASE i \in (k + 1)..(Len(t) - 1)
    <3>1. i \in (k + 1)..Len(t)
      BY <1>1, <2>2
    <3> QED
      BY <1>13, <1>12, <2>2, <3>1
  <2> QED
    BY <1>1, <1>9, <2>1, <2>2
<1>15. r[Len(t)] = Edit!Blank
  <2>1. Len(t) \in (k + 1)..Len(t)
    BY <1>1
  <2> QED
    BY <1>10, <1>13, <2>1
<1>16. \A i \in (Len(u) + 1)..(Width + 1) : Vacant(r[i], i) \/ (i > Len(t) /\ r[i] = s[i])
  BY <1>1, <1>9, <1>13, <1>15, BlankIsVacant
<1>17. Len(r) = Width + 1
  BY <1>1, <1>13
<1>18. Shows(r, u)
  <2>1. Becomes(r, u, s, t) /\ u \in Seq(Symbols)
    BY <1>6, <1>13, <1>14, <1>16, <1>17 DEF Becomes
  <2> QED
    BY <2>1, ShowsChanged
<1> QED
  BY <1>6, <1>9, <1>18 DEF u, r, more, front, rest

\* A string that has the permanent literals in their places.
Placed(t) ==
    Edit!Is("PERMALITERAL") =>
        \A pos \in 0..(Len(t) - 1) : Edit!IsLiteral(pos) => t[pos + 1] = Edit!Expected(pos)

\* While permanent literals are taken out at the end the screen's cursor waits;
\* there is a character before them, at which this ends.
Retreat(at, pos, length) ==
    /\ at = "backspace_again" /\ Edit!Is("PERMALITERAL") /\ pos = length /\ pos > 0
    /\ \E p \in 0..(pos - 1) : ~Edit!IsLiteral(p)

Presented(t, pos, at, s, col) ==
    /\ Placed(t) /\ Shows(s, t)
    /\ col = pos \/ Retreat(at, pos, Len(t))

Neat == Edit!Is("PERMALITERAL") => Edit!LiteralsInPlace

Editing ==
    /\ pszCurrentInput \in Seq(Symbols) /\ Len(pszCurrentInput) <= Width
    /\ nCursorPos \in 0..Len(pszCurrentInput)
    /\ Neat => Presented(pszCurrentInput, nCursorPos, label, shown, column)

EditInv ==
    /\ format \in Seq(Edit!Position) /\ Len(format) >= 2
    /\ chTemp \in Symbols /\ chAddAtEnd \in Symbols
    /\ bInsertMode \in BOOLEAN /\ (Edit!Is("PERMALITERAL") => ~bInsertMode)
    /\ label # "done" => Editing

LEMMA EditInvStays ==
    ASSUME EditInv, UNCHANGED <<format, nFlags, szCurrentOriginalString>>,
           chTemp' \in Symbols, chAddAtEnd' \in Symbols,
           bInsertMode' \in BOOLEAN, Edit!Is("PERMALITERAL") => ~bInsertMode',
           label' # "done" => /\ pszCurrentInput' \in Seq(Symbols)
                              /\ Len(pszCurrentInput') <= Width
                              /\ nCursorPos' \in 0..Len(pszCurrentInput'),
           label' # "done" /\ Neat =>
              Presented(pszCurrentInput', nCursorPos', label', shown', column')
    PROVE  EditInv'
<1>1. Width' = Width /\ (Neat' <=> Neat)
  BY DEF Width, Neat, Edit!Is, Edit!LiteralsInPlace, Edit!IsLiteral, Edit!Expected
<1>2. Presented(pszCurrentInput, nCursorPos, label, shown, column)' <=>
        Presented(pszCurrentInput', nCursorPos', label', shown', column')
  BY DEF Presented, Placed, Shows, Retreat, Vacant, Width, Edit!Background, Edit!Is,
     Edit!IsLiteral, Edit!Expected, Edit!nCurrentStringLength
<1>3. Edit!Is("PERMALITERAL")' <=> Edit!Is("PERMALITERAL")
  BY DEF Edit!Is
<1>4. label' # "done" => Editing'
  BY <1>1, <1>2 DEF Editing
<1> QED
  BY <1>3, <1>4 DEF EditInv

LEMMA WidthIsPositive ==
    ASSUME Len(format) \in Nat, Len(format) >= 2
    PROVE  Width \in Nat \ {0} /\ Edit!nCurrentStringLength = Width
BY DEF Width, Edit!nCurrentStringLength

LEMMA FieldIsWide ==
    ASSUME EditInv
    PROVE  /\ Len(format) \in Nat /\ Width \in Nat \ {0} /\ Edit!nCurrentStringLength = Width
           /\ \A pos \in 0..Width : Edit!Expected(pos) \in Symbols
           /\ Edit!NUL \in Symbols
<1>1. Len(format) \in Nat /\ Width \in Nat \ {0} /\ Edit!nCurrentStringLength = Width
  BY DEF EditInv, Width, Edit!nCurrentStringLength
<1>2. ASSUME NEW pos \in 0..Width PROVE Edit!Expected(pos) \in Symbols
  <2>1. pos + 1 \in 1..Len(format)
    BY <1>1 DEF Width
  <2>2. format[pos + 1] \in Edit!Position
    BY <2>1 DEF EditInv
  <2> QED
    BY <2>2 DEF Edit!Position, Edit!Expected, Edit!Chars, Symbols
<1>3. Edit!NUL \in Symbols
  BY DEF Symbols
<1> QED
  BY <1>1, <1>2, <1>3

LEMMA ConvertedIsSymbol ==
    ASSUME EditInv, NEW c \in Symbols, NEW pos \in 0..Width, NEW before
    PROVE  /\ Edit!ODEditAsCharForPos(c, pos, before) \in Symbols
           /\ Edit!IsLiteral(pos) => Edit!ODEditAsCharForPos(c, pos, before) = Edit!Expected(pos)
<1>1. Edit!ToUpper(c) \in Symbols /\ Edit!ToLower(c) \in Symbols
  BY DEF Symbols, Edit!Chars, Edit!Printable, Edit!Upper, Edit!Lower, Edit!ToUpper, Edit!ToLower
<1> QED
  BY <1>1, FieldIsWide DEF Edit!ODEditAsCharForPos

\* A step that touches neither the string nor the screen.
LEMMA QuietStep ==
    ASSUME EditInv, label \notin {"done", "backspace_again"},
           UNCHANGED <<format, nFlags, szCurrentOriginalString, pszCurrentInput, nCursorPos,
                       shown, column>>,
           chTemp' \in Symbols, chAddAtEnd' \in Symbols,
           bInsertMode' \in BOOLEAN, Edit!Is("PERMALITERAL") => ~bInsertMode'
    PROVE  EditInv'
<1>1. Neat => Presented(pszCurrentInput', nCursorPos', label', shown', column')
  BY DEF EditInv, Editing, Presented, Retreat
<1> QED
  BY <1>1, EditInvStays DEF EditInv, Editing

\* A step that ends the editing.
LEMMA LastStep ==
    ASSUME EditInv, label' = "done", UNCHANGED <<format, nFlags, szCurrentOriginalString>>,
           chTemp' \in Symbols, chAddAtEnd' \in Symbols, UNCHANGED bInsertMode
    PROVE  EditInv'
BY EditInvStays DEF EditInv

\* A step that moves the cursor only.
LEMMA CursorStep ==
    ASSUME EditInv, label # "done", UNCHANGED <<format, nFlags, szCurrentOriginalString,
                                               pszCurrentInput, shown>>,
           chTemp' \in Symbols, chAddAtEnd' \in Symbols,
           bInsertMode' \in BOOLEAN, Edit!Is("PERMALITERAL") => ~bInsertMode',
           nCursorPos' \in 0..Len(pszCurrentInput),
           Neat => column' = nCursorPos'
    PROVE  EditInv'
<1>1. Neat => Presented(pszCurrentInput', nCursorPos', label', shown', column')
  BY DEF EditInv, Editing, Presented
<1> QED
  BY <1>1, EditInvStays DEF EditInv, Editing

\* A step that changes the string and shows it.
LEMMA TextStep ==
    ASSUME EditInv, label # "done",
           UNCHANGED <<format, nFlags, szCurrentOriginalString, bInsertMode>>,
           chTemp' \in Symbols, chAddAtEnd' \in Symbols,
           pszCurrentInput' \in Seq(Symbols), Len(pszCurrentInput') <= Width,
           nCursorPos' \in 0..Len(pszCurrentInput'),
           Neat => /\ Placed(pszCurrentInput') /\ Shows(shown', pszCurrentInput')
                   /\ column' = nCursorPos'
    PROVE  EditInv'
<1>1. Neat => Presented(pszCurrentInput', nCursorPos', label', shown', column')
  BY DEF Presented
<1> QED
  BY <1>1, EditInvStays DEF EditInv

LEMMA QuietSteps ==
    ASSUME EditInv,
           \/ Edit!Loop \/ Edit!KeepGoing \/ Edit!TryThisCharacter \/ Edit!AddAnotherKey
           \/ \E c \in Edit!Chars : Edit!Type(c)
    PROVE  EditInv'
<1> USE FieldIsWide
<1>1. CASE Edit!Loop
  <2>1. /\ label = "loop" /\ UNCHANGED <<chTemp, chAddAtEnd, bInsertMode>>
        /\ UNCHANGED <<format, nFlags, szCurrentOriginalString, pszCurrentInput, nCursorPos,
                       shown, column>>
    BY <1>1 DEF Edit!Loop, Edit!field, Edit!text, Edit!screen, Edit!char
  <2> QED
    BY <2>1, QuietStep DEF EditInv
<1>2. CASE Edit!KeepGoing
  <2>1. /\ label = "keep_going" /\ UNCHANGED <<chAddAtEnd, bInsertMode>>
        /\ chTemp' = chTemp \/ (chTemp' = Edit!Expected(nCursorPos) /\ nCursorPos < Width)
        /\ UNCHANGED <<format, nFlags, szCurrentOriginalString, pszCurrentInput, nCursorPos,
                       shown, column>>
    BY <1>2 DEF Edit!KeepGoing, Edit!field, Edit!text, Edit!screen
  <2>2. nCursorPos \in Nat
    BY <2>1 DEF EditInv, Editing
  <2>3. nCursorPos < Width => Edit!Expected(nCursorPos) \in Symbols
    BY <2>2
  <2>4. chTemp' \in Symbols
    BY <2>1, <2>3 DEF EditInv
  <2> QED
    BY <2>1, <2>4, QuietStep DEF EditInv
<1>3. CASE Edit!TryThisCharacter
  <2>1. /\ label = "try_this_character" /\ UNCHANGED <<chTemp, chAddAtEnd, bInsertMode>>
        /\ UNCHANGED <<format, nFlags, szCurrentOriginalString, pszCurrentInput, nCursorPos,
                       shown, column>>
    BY <1>3 DEF Edit!TryThisCharacter, Edit!field, Edit!text, Edit!screen, Edit!char
  <2> QED
    BY <2>1, QuietStep DEF EditInv
<1>4. CASE Edit!AddAnotherKey
  <2>1. /\ label = "add_another_key" /\ UNCHANGED bInsertMode
        /\ chTemp' \in {chTemp, Edit!Expected(nCursorPos)} /\ chAddAtEnd' \in {chTemp, chAddAtEnd}
        /\ UNCHANGED <<format, nFlags, szCurrentOriginalString, pszCurrentInput, nCursorPos,
                       shown, column>>
    BY <1>4 DEF Edit!AddAnotherKey, Edit!field, Edit!text, Edit!screen, Edit!char
  <2>2. nCursorPos \in 0..Width
    BY <2>1 DEF EditInv, Editing
  <2> QED
    BY <2>1, <2>2, QuietStep DEF EditInv
<1>5. CASE \E c \in Edit!Chars : Edit!Type(c)
  <2>1. /\ label = "get_another_key" /\ UNCHANGED <<chAddAtEnd, bInsertMode>>
        /\ chTemp' \in Edit!Chars
        /\ UNCHANGED <<format, nFlags, szCurrentOriginalString, pszCurrentInput, nCursorPos,
                       shown, column>>
    BY <1>5 DEF Edit!Type, Edit!field, Edit!text, Edit!screen
  <2>2. chTemp' \in Symbols
    BY <2>1 DEF Symbols
  <2> QED
    BY <2>1, <2>2, QuietStep DEF EditInv
<1> QED
  BY <1>1, <1>2, <1>3, <1>4, <1>5

LEMMA CursorSteps ==
    ASSUME EditInv,
           \/ Edit!PressedRightArrow \/ Edit!PressedLeftArrow
           \/ \E key \in Edit!Extended : Edit!Press(key)
    PROVE  EditInv'
<1> USE FieldIsWide
<1>1. CASE Edit!PressedRightArrow
  <2>1. /\ label = "pressed_right_arrow" /\ UNCHANGED <<chTemp, bInsertMode>>
        /\ chAddAtEnd' = Edit!NUL
        /\ UNCHANGED <<format, nFlags, szCurrentOriginalString, pszCurrentInput, shown>>
        /\ \/ UNCHANGED <<nCursorPos, column>>
           \/ nCursorPos # Len(pszCurrentInput) /\ nCursorPos' = nCursorPos + 1 /\ column' = nCursorPos'
    BY <1>1 DEF Edit!PressedRightArrow, Edit!field, Edit!AtEnd, Edit!Length
  <2>2. nCursorPos \in 0..Len(pszCurrentInput) /\ Len(pszCurrentInput) \in Nat
    BY <2>1 DEF EditInv, Editing
  <2>3. Neat => column = nCursorPos
    BY <2>1 DEF EditInv, Editing, Presented, Retreat
  <2>4. nCursorPos' \in 0..Len(pszCurrentInput)
    BY <2>1, <2>2
  <2> QED
    BY <2>1, <2>3, <2>4, CursorStep DEF EditInv
<1>2. CASE Edit!PressedLeftArrow
  <2>1. /\ label = "pressed_left_arrow" /\ UNCHANGED <<chTemp, chAddAtEnd, bInsertMode>>
        /\ UNCHANGED <<format, nFlags, szCurrentOriginalString, pszCurrentInput, shown>>
        /\ \/ UNCHANGED <<nCursorPos, column>>
           \/ nCursorPos > 0 /\ nCursorPos' = nCursorPos - 1 /\ column' = nCursorPos'
    BY <1>2 DEF Edit!PressedLeftArrow, Edit!field, Edit!char
  <2>2. nCursorPos \in 0..Len(pszCurrentInput) /\ Len(pszCurrentInput) \in Nat
    BY <2>1 DEF EditInv, Editing
  <2>3. Neat => column = nCursorPos
    BY <2>1 DEF EditInv, Editing, Presented, Retreat
  <2>4. nCursorPos' \in 0..Len(pszCurrentInput)
    BY <2>1, <2>2
  <2> QED
    BY <2>1, <2>3, <2>4, CursorStep DEF EditInv
<1>3. CASE \E key \in Edit!Extended : Edit!Press(key)
  <2>1. PICK key \in Edit!Extended : Edit!Press(key)
    BY <1>3
  <2>2. /\ label = "get_another_key" /\ UNCHANGED <<chTemp, chAddAtEnd>>
        /\ UNCHANGED <<format, nFlags, szCurrentOriginalString, pszCurrentInput, shown>>
        /\ bInsertMode' = (bInsertMode
              # (key = "INSERT" /\ ~Edit!Is("STRICT_INPUT") /\ ~Edit!Is("PERMALITERAL")))
    BY <2>1 DEF Edit!Press, Edit!field, Edit!char
  <2>3. \/ UNCHANGED <<nCursorPos, column>>
        \/ nCursorPos' = 0 /\ column' = 0
        \/ /\ nCursorPos' = Len(pszCurrentInput)
           /\ column' = IF nCursorPos = Len(pszCurrentInput) THEN column ELSE Len(pszCurrentInput)
    BY <2>1 DEF Edit!Press, Edit!Extended, Edit!AtEnd, Edit!Length
  <2>4. nCursorPos \in 0..Len(pszCurrentInput) /\ Len(pszCurrentInput) \in Nat
    BY <2>2 DEF EditInv, Editing
  <2>5. Neat => column = nCursorPos
    BY <2>2 DEF EditInv, Editing, Presented, Retreat
  <2>6. nCursorPos' \in 0..Len(pszCurrentInput) /\ (Neat => column' = nCursorPos')
    BY <2>3, <2>4, <2>5
  <2>7. bInsertMode' \in BOOLEAN /\ (Edit!Is("PERMALITERAL") => ~bInsertMode')
    BY <2>2 DEF EditInv
  <2> QED
    BY <2>2, <2>6, <2>7, CursorStep DEF EditInv
<1> QED
  BY <1>1, <1>2, <1>3

\* What a step of the editing starts from.
LEMMA EditingNow ==
    ASSUME EditInv, label # "done"
    PROVE  /\ pszCurrentInput \in Seq(Symbols) /\ Len(pszCurrentInput) \in 0..Width
           /\ nCursorPos \in 0..Len(pszCurrentInput) /\ nCursorPos \in 0..Width
           /\ Neat => Placed(pszCurrentInput) /\ Shows(shown, pszCurrentInput)
           /\ Neat /\ label # "backspace_again" => column = nCursorPos
           /\ Edit!Length = Len(pszCurrentInput)
           /\ Edit!AtEnd <=> nCursorPos = Len(pszCurrentInput)
<1>1. Width \in Nat
  BY FieldIsWide
<1> QED
  BY <1>1 DEF EditInv, Editing, Presented, Retreat, Edit!Length, Edit!AtEnd

LEMMA ReplacedIsString ==
    ASSUME NEW t \in Seq(Symbols), NEW k \in 0..(Len(t) - 1), NEW c \in Symbols
    PROVE  [t EXCEPT ![k + 1] = c] \in Seq(Symbols) /\ Len([t EXCEPT ![k + 1] = c]) = Len(t)
OBVIOUS

LEMMA PlacedWhenReplaced ==
    ASSUME NEW t \in Seq(Symbols), NEW k \in 0..(Len(t) - 1), NEW c \in Symbols, Placed(t),
           Edit!IsLiteral(k) => c = Edit!Expected(k)
    PROVE  Placed([t EXCEPT ![k + 1] = c])
<1> DEFINE u == [t EXCEPT ![k + 1] = c]
<1>1. Len(u) = Len(t) /\ \A i \in 1..Len(t) : u[i] = IF i = k + 1 THEN c ELSE t[i]
  OBVIOUS
<1>2. Len(t) \in Nat
  OBVIOUS
<1> HIDE DEF u
<1>3. ASSUME Edit!Is("PERMALITERAL"), NEW pos \in 0..(Len(u) - 1), Edit!IsLiteral(pos)
      PROVE  u[pos + 1] = Edit!Expected(pos)
  <2>1. pos \in 0..(Len(t) - 1) /\ pos + 1 \in 1..Len(t)
    BY <1>1, <1>2
  <2>2. t[pos + 1] = Edit!Expected(pos)
    BY <1>3, <2>1 DEF Placed
  <2>3. pos + 1 = k + 1 => pos = k
    BY <2>1
  <2> QED
    BY <1>1, <1>3, <2>1, <2>2, <2>3
<1> QED
  BY <1>3 DEF Placed, u

LEMMA PlacedWhenAppended ==
    ASSUME NEW t \in Seq(Symbols), NEW c \in Symbols, Placed(t),
           Edit!IsLiteral(Len(t)) => c = Edit!Expected(Len(t))
    PROVE  Placed(Append(t, c))
<1> DEFINE u == Append(t, c)
<1>1. /\ Len(u) = Len(t) + 1 /\ u[Len(t) + 1] = c
      /\ \A i \in 1..Len(t) : u[i] = t[i]
  OBVIOUS
<1>2. Len(t) \in Nat
  OBVIOUS
<1> HIDE DEF u
<1>3. ASSUME Edit!Is("PERMALITERAL"), NEW pos \in 0..(Len(u) - 1), Edit!IsLiteral(pos)
      PROVE  u[pos + 1] = Edit!Expected(pos)
  <2>1. CASE pos = Len(t)
    BY <1>1, <1>3, <2>1
  <2>2. CASE pos \in 0..(Len(t) - 1)
    <3>1. t[pos + 1] = Edit!Expected(pos) /\ pos + 1 \in 1..Len(t)
      BY <1>2, <1>3, <2>2 DEF Placed
    <3> QED
      BY <1>1, <3>1
  <2> QED
    BY <1>1, <1>2, <2>1, <2>2
<1> QED
  BY <1>3 DEF Placed, u

LEMMA RemovingSteps ==
    ASSUME EditInv, Edit!PressedDelete \/ Edit!KillWholeLine
    PROVE  EditInv'
<1> USE FieldIsWide
<1>1. CASE Edit!PressedDelete
  <2>1. /\ label = "pressed_delete"
        /\ UNCHANGED <<format, nFlags, szCurrentOriginalString, nCursorPos, chTemp, chAddAtEnd,
                       bInsertMode>>
    BY <1>1 DEF Edit!PressedDelete, Edit!field, Edit!char
  <2>2. CASE UNCHANGED <<pszCurrentInput, shown, column>>
    BY <2>1, <2>2, QuietStep DEF EditInv
  <2>3. CASE ~UNCHANGED <<pszCurrentInput, shown, column>>
    <3> DEFINE rest == SubSeq(pszCurrentInput, nCursorPos + 2, Len(pszCurrentInput))
               u == SubSeq(pszCurrentInput, 1, nCursorPos) \o rest
               r == Edit!Put(shown, nCursorPos, Append(rest, Edit!Blank))
    <3>1. /\ ~Edit!Is("PERMALITERAL") /\ nCursorPos # Len(pszCurrentInput)
          /\ pszCurrentInput' = u /\ column' = nCursorPos
          /\ column = nCursorPos => shown' = r
      BY <1>1, <2>3 DEF Edit!PressedDelete, Edit!screen, Edit!AtEnd, Edit!Length
    <3>2. /\ pszCurrentInput \in Seq(Symbols) /\ Len(pszCurrentInput) \in 0..Width
          /\ nCursorPos \in 0..(Len(pszCurrentInput) - 1) /\ Len(pszCurrentInput) <= Width
          /\ Shows(shown, pszCurrentInput) /\ column = nCursorPos
      BY <2>1, <3>1, EditingNow DEF Neat
    <3>3. Shows(r, u) /\ u \in Seq(Symbols) /\ Len(u) = Len(pszCurrentInput) - 1
      BY <3>2, ShowsDeleted
    <3> HIDE DEF rest, u, r
    <3>4. Placed(pszCurrentInput')
      BY <3>1 DEF Placed
    <3>5. nCursorPos' \in 0..Len(pszCurrentInput') /\ Len(pszCurrentInput') <= Width
      BY <2>1, <3>1, <3>2, <3>3
    <3> QED
      BY <2>1, <3>1, <3>2, <3>3, <3>4, <3>5, TextStep DEF EditInv
  <2> QED
    BY <2>2, <2>3
<1>2. CASE Edit!KillWholeLine
  <2> DEFINE r == Edit!Put(shown, 0, Edit!Blanks(Len(pszCurrentInput)))
  <2>1. /\ label = "kill_whole_line"
        /\ UNCHANGED <<format, nFlags, szCurrentOriginalString, chTemp, chAddAtEnd, bInsertMode>>
        /\ nCursorPos' = 0 /\ column' = 0 /\ pszCurrentInput' = << >> /\ shown' = r
    BY <1>2 DEF Edit!KillWholeLine, Edit!field, Edit!char, Edit!Length
  <2>2. /\ pszCurrentInput \in Seq(Symbols) /\ Len(pszCurrentInput) <= Width
        /\ Neat => Shows(shown, pszCurrentInput)
    BY <2>1, EditingNow
  <2>3. Neat => Shows(r, << >>)
    BY <2>2, ShowsKilled
  <2> HIDE DEF r
  <2>4. << >> \in Seq(Symbols) /\ Len(<< >>) = 0 /\ Placed(<< >>)
    BY DEF Placed
  <2>5. nCursorPos' \in 0..Len(pszCurrentInput') /\ Len(pszCurrentInput') <= Width
    BY <2>1, <2>4
  <2> QED
    BY <2>1, <2>3, <2>4, <2>5, TextStep DEF EditInv
<1> QED
  BY <1>1, <1>2

LEMMA BackspaceStep ==
    ASSUME EditInv, Edit!BackspaceAgain
    PROVE  EditInv'
<1> USE FieldIsWide
<1>1. /\ label = "backspace_again"
      /\ UNCHANGED <<format, nFlags, szCurrentOriginalString, chTemp, chAddAtEnd, bInsertMode>>
  BY DEF Edit!BackspaceAgain, Edit!field, Edit!char
<1>2. /\ pszCurrentInput \in Seq(Symbols) /\ Len(pszCurrentInput) \in 0..Width
      /\ nCursorPos \in 0..Len(pszCurrentInput)
      /\ Neat => Placed(pszCurrentInput) /\ Shows(shown, pszCurrentInput)
  BY <1>1, EditingNow
<1>3. Neat => column = nCursorPos \/ Retreat(label, nCursorPos, Len(pszCurrentInput))
  BY <1>1 DEF EditInv, Editing, Presented
<1>4. CASE UNCHANGED <<pszCurrentInput, nCursorPos, shown, column>>
  <2>1. \/ nCursorPos = 0
        \/ Edit!Is("PERMALITERAL") /\ \A pos \in 0..(nCursorPos - 1) : Edit!IsLiteral(pos)
        \/ nCursorPos # Len(pszCurrentInput)
    BY <1>2, <1>4 DEF Edit!BackspaceAgain, Edit!AtEnd, Edit!Length
  <2>2. Neat => column = nCursorPos
    BY <1>3, <2>1 DEF Retreat
  <2> QED
    BY <1>1, <1>2, <1>4, <2>2, CursorStep DEF EditInv
<1>5. CASE /\ nCursorPos > 0 /\ nCursorPos' = nCursorPos - 1 /\ column' = nCursorPos - 1
           /\ UNCHANGED <<pszCurrentInput, shown>>
  <2>1. nCursorPos' \in 0..Len(pszCurrentInput) /\ (Neat => column' = nCursorPos')
    BY <1>2, <1>5
  <2> QED
    BY <1>1, <1>5, <2>1, CursorStep DEF EditInv
<1>6. CASE /\ nCursorPos # 0 /\ nCursorPos = Len(pszCurrentInput)
           /\ ~(Edit!Is("PERMALITERAL") /\ \A pos \in 0..(nCursorPos - 1) : Edit!IsLiteral(pos))
  <2> DEFINE u == Edit!Front(pszCurrentInput)
             r == Edit!Put(shown, Len(pszCurrentInput) - 1, <<Edit!Blank>>)
  <2>1. /\ nCursorPos' = Len(pszCurrentInput) - 1 /\ pszCurrentInput' = u
        /\ IF Edit!Is("PERMALITERAL") /\ Edit!IsLiteral(nCursorPos')
           THEN label' = "backspace_again" /\ UNCHANGED <<shown, column>>
           ELSE shown' = r /\ column' = nCursorPos'
    BY <1>6 DEF Edit!BackspaceAgain, Edit!AtEnd, Edit!Length, Edit!screen, Edit!GoTo
  <2>2. Len(pszCurrentInput) \in 1..Width
    BY <1>2, <1>6
  <2>3. /\ u \in Seq(Symbols) /\ Len(u) = Len(pszCurrentInput) - 1
        /\ \A i \in 1..(Len(pszCurrentInput) - 1) : u[i] = pszCurrentInput[i]
    <3>1. u = SubSeq(pszCurrentInput, 1, Len(pszCurrentInput) - 1)
      BY Zenon DEF Edit!Front
    <3>2. Len(pszCurrentInput) - 1 \in 0..Len(pszCurrentInput)
      BY <2>2
    <3> HIDE DEF u
    <3> QED
      BY <1>2, <3>1, <3>2, FirstLines
  <2>4. Neat => /\ Shows(r, u)
                /\ pszCurrentInput[Len(pszCurrentInput)] = Edit!Background(Len(pszCurrentInput) - 1)
                     => Shows(shown, u)
    BY <1>2, <2>2, ShowsShortened
  <2> HIDE DEF u, r
  <2>5. Neat => Placed(u)
    BY <1>2, <2>2, <2>3 DEF Placed
  <2>6. nCursorPos' \in 0..Len(u) /\ Len(u) <= Width
    BY <2>1, <2>2, <2>3
  <2>7. CASE ~(Edit!Is("PERMALITERAL") /\ Edit!IsLiteral(nCursorPos'))
    BY <1>1, <2>1, <2>3, <2>4, <2>5, <2>6, <2>7, TextStep DEF EditInv
  <2>8. CASE Edit!Is("PERMALITERAL") /\ Edit!IsLiteral(nCursorPos')
    <3>1. PICK pos \in 0..(nCursorPos - 1) : ~Edit!IsLiteral(pos)
      BY <1>6, <2>8
    <3>2. pos \in 0..(nCursorPos' - 1) /\ nCursorPos' > 0
      BY <1>2, <1>6, <2>1, <2>2, <2>8, <3>1
    <3>3. Retreat(label', nCursorPos', Len(u))
      BY <2>1, <2>3, <2>8, <3>1, <3>2 DEF Retreat
    <3>4. Neat => Shows(shown, u)
      <4> SUFFICES ASSUME Neat PROVE Shows(shown, u)
        OBVIOUS
      <4>1. nCursorPos' \in 0..(Len(pszCurrentInput) - 1) /\ nCursorPos' + 1 = Len(pszCurrentInput)
        BY <2>1, <2>2
      <4>2. pszCurrentInput[nCursorPos' + 1] = Edit!Expected(nCursorPos')
        BY <1>2, <2>8, <4>1 DEF Placed
      <4>3. Edit!Background(nCursorPos') = Edit!Expected(nCursorPos')
        BY <2>2, <2>8, <4>1 DEF Edit!Background
      <4>4. pszCurrentInput[Len(pszCurrentInput)] = Edit!Background(Len(pszCurrentInput) - 1)
        BY <2>1, <4>1, <4>2, <4>3
      <4> QED
        BY <2>4, <4>4
    <3>5. Neat => Presented(pszCurrentInput', nCursorPos', label', shown', column')
      BY <2>1, <2>5, <2>8, <3>3, <3>4 DEF Presented
    <3> QED
      BY <1>1, <2>1, <2>3, <2>6, <3>5, EditInvStays DEF EditInv
  <2> QED
    BY <2>7, <2>8
<1> QED
  BY <1>2, <1>4, <1>5, <1>6 DEF Edit!BackspaceAgain, Edit!text, Edit!screen, Edit!AtEnd, Edit!Length

\* What comes next after a character was added.
LEMMA ContinueKeepsSymbols ==
    ASSUME EditInv, label # "done", Edit!Continue, nCursorPos' \in Nat,
           UNCHANGED <<format, nFlags>>
    PROVE  chTemp' \in Symbols /\ chAddAtEnd' \in Symbols
<1> DEFINE converted == Edit!ODEditAsCharForPos(chTemp, nCursorPos, pszCurrentInput)
<1>1. converted \in Symbols
  BY EditingNow, ConvertedIsSymbol DEF EditInv
<1>2. Edit!Converted = converted
  BY DEF Edit!Converted
<1> HIDE DEF converted
<1>3. nCursorPos' < Width => Edit!Expected(nCursorPos') \in Symbols
  BY FieldIsWide
<1> QED
  BY <1>1, <1>2, <1>3, FieldIsWide DEF Edit!Continue, EditInv

LEMMA AddingSteps ==
    ASSUME EditInv, Edit!AddAtEnd \/ Edit!Insert \/ Edit!Overwrite
    PROVE  EditInv'
<1> USE FieldIsWide
<1> DEFINE c == Edit!Converted
<1>1. label = "add" /\ UNCHANGED <<format, nFlags, szCurrentOriginalString, bInsertMode>>
  BY DEF Edit!AddAtEnd, Edit!Insert, Edit!Overwrite, Edit!field
<1>2. /\ pszCurrentInput \in Seq(Symbols) /\ Len(pszCurrentInput) \in 0..Width
      /\ nCursorPos \in 0..Len(pszCurrentInput) /\ nCursorPos \in 0..Width
      /\ Neat => /\ Placed(pszCurrentInput) /\ Shows(shown, pszCurrentInput)
                 /\ column = nCursorPos
      /\ Edit!Length = Len(pszCurrentInput)
      /\ Edit!AtEnd <=> nCursorPos = Len(pszCurrentInput)
  BY <1>1, EditingNow
<1>3. c \in Symbols /\ (Edit!IsLiteral(nCursorPos) => c = Edit!Expected(nCursorPos))
  BY <1>2, ConvertedIsSymbol DEF EditInv, Edit!Converted
<1> HIDE DEF c
<1>4. ASSUME nCursorPos' \in Nat, Edit!Continue
      PROVE  chTemp' \in Symbols /\ chAddAtEnd' \in Symbols
  BY <1>1, <1>4, ContinueKeepsSymbols
<1>5. CASE Edit!AddAtEnd
  <2>1. nCursorPos = Len(pszCurrentInput) /\ Edit!Continue
    BY <1>2, <1>5 DEF Edit!AddAtEnd
  <2>2. CASE nCursorPos < Width
    <3> DEFINE u == Append(pszCurrentInput, c)
               r == Edit!Put(shown, Len(pszCurrentInput), <<c>>)
    <3>1. /\ pszCurrentInput' = u /\ nCursorPos' = nCursorPos + 1 /\ column' = column + 1
          /\ column = nCursorPos => shown' = r
      BY <1>5, <2>1, <2>2 DEF Edit!AddAtEnd, Edit!od_putch, c
    <3>2. u \in Seq(Symbols) /\ Len(u) = Len(pszCurrentInput) + 1
      BY <1>2, <1>3
    <3>3. Neat => Shows(r, u) /\ Placed(u)
      BY <1>2, <1>3, <2>1, <2>2, ShowsAppended, PlacedWhenAppended
    <3> HIDE DEF u, r
    <3>4. nCursorPos' \in 0..Len(u) /\ Len(u) <= Width /\ nCursorPos' \in Nat
      BY <1>2, <2>1, <2>2, <3>1, <3>2
    <3>5. chTemp' \in Symbols /\ chAddAtEnd' \in Symbols
      BY <1>4, <2>1, <3>4
    <3>6. Neat => Placed(pszCurrentInput') /\ Shows(shown', pszCurrentInput') /\ column' = nCursorPos'
      BY <1>2, <3>1, <3>3
    <3> QED
      BY <1>1, <3>1, <3>2, <3>4, <3>5, <3>6, TextStep
  <2>3. CASE ~(nCursorPos < Width)
    <3>1. UNCHANGED <<pszCurrentInput, nCursorPos, shown, column>>
      BY <1>5, <2>3 DEF Edit!AddAtEnd, Edit!text, Edit!screen
    <3>2. chTemp' \in Symbols /\ chAddAtEnd' \in Symbols
      BY <1>2, <1>4, <2>1, <3>1
    <3> QED
      BY <1>1, <3>1, <3>2, QuietStep DEF EditInv
  <2> QED
    BY <2>2, <2>3
<1>6. CASE Edit!Insert
  <2>1. nCursorPos # Len(pszCurrentInput) /\ ~Edit!Is("PERMALITERAL")
    BY <1>2, <1>6 DEF Edit!Insert, EditInv
  <2>2. CASE Len(pszCurrentInput) < Width
    <3> DEFINE rest == SubSeq(pszCurrentInput, nCursorPos + 1, Len(pszCurrentInput))
               u == SubSeq(pszCurrentInput, 1, nCursorPos) \o <<c>> \o rest
               r == Edit!Put(shown, nCursorPos, <<c>> \o rest)
    <3>1. /\ pszCurrentInput' = u /\ nCursorPos' = nCursorPos + 1 /\ column' = nCursorPos + 1
          /\ column = nCursorPos => shown' = r
          /\ Edit!Continue
      BY <1>2, <1>6, <2>2 DEF Edit!Insert, c
    <3>2. Neat
      BY <2>1 DEF Neat
    <3>3. Shows(r, u) /\ u \in Seq(Symbols) /\ Len(u) = Len(pszCurrentInput) + 1
      <4>1. /\ Len(format) \in Nat /\ pszCurrentInput \in Seq(Symbols) /\ c \in Symbols
            /\ nCursorPos \in 0..Len(pszCurrentInput)
            /\ Shows(shown, pszCurrentInput) /\ Len(pszCurrentInput) < Width
        BY <1>2, <1>3, <2>2, <3>2
      <4> QED
        BY <4>1, ShowsInserted
    <3> HIDE DEF u, r
    <3>4. nCursorPos' \in 0..Len(u) /\ Len(u) <= Width /\ nCursorPos' \in Nat
      BY <1>2, <2>2, <3>1, <3>3
    <3>5. chTemp' \in Symbols /\ chAddAtEnd' \in Symbols
      BY <1>4, <3>1, <3>4
    <3>6. Placed(u)
      BY <2>1 DEF Placed
    <3> QED
      BY <1>1, <1>2, <3>1, <3>2, <3>3, <3>4, <3>5, <3>6, TextStep
  <2>3. CASE ~(Len(pszCurrentInput) < Width)
    <3>1. /\ UNCHANGED <<pszCurrentInput, nCursorPos, shown, column, chAddAtEnd>>
          /\ chTemp' = c
      BY <1>2, <1>6, <2>3 DEF Edit!Insert, Edit!text, Edit!screen, c
    <3> QED
      BY <1>1, <1>3, <3>1, QuietStep DEF EditInv
  <2> QED
    BY <2>2, <2>3
<1>7. CASE Edit!Overwrite
  <2> DEFINE u == [pszCurrentInput EXCEPT ![nCursorPos + 1] = c]
             r == Edit!Put(shown, nCursorPos, <<c>>)
  <2>1. /\ nCursorPos # Len(pszCurrentInput) /\ Edit!Continue
        /\ pszCurrentInput' = u /\ nCursorPos' = nCursorPos + 1 /\ column' = column + 1
        /\ column = nCursorPos => shown' = r
    BY <1>2, <1>7 DEF Edit!Overwrite, Edit!od_putch, c
  <2>2. nCursorPos \in 0..(Len(pszCurrentInput) - 1) /\ Len(pszCurrentInput) <= Width
    BY <1>2, <2>1
  <2>3. u \in Seq(Symbols) /\ Len(u) = Len(pszCurrentInput)
    BY <1>2, <1>3, <2>2, ReplacedIsString
  <2>4. Neat => Shows(r, u) /\ Placed(u)
    BY <1>2, <1>3, <2>2, ShowsReplaced, PlacedWhenReplaced
  <2> HIDE DEF u, r
  <2>5. nCursorPos' \in 0..Len(u) /\ Len(u) <= Width /\ nCursorPos' \in Nat
    BY <2>1, <2>2, <2>3
  <2>6. chTemp' \in Symbols /\ chAddAtEnd' \in Symbols
    BY <1>4, <2>1, <2>5
  <2>7. Neat => Placed(pszCurrentInput') /\ Shows(shown', pszCurrentInput') /\ column' = nCursorPos'
    BY <1>2, <2>1, <2>4
  <2> QED
    BY <1>1, <2>1, <2>3, <2>5, <2>6, <2>7, TextStep
<1> QED
  BY <1>5, <1>6, <1>7

LEMMA ConversionStep ==
    ASSUME EditInv, Edit!CheckCursorChar
    PROVE  EditInv'
<1> USE FieldIsWide
<1>1. /\ label = "check_cursor_char"
      /\ UNCHANGED <<format, nFlags, szCurrentOriginalString, nCursorPos, chAddAtEnd, bInsertMode>>
  BY DEF Edit!CheckCursorChar, Edit!field
<1>2. /\ pszCurrentInput \in Seq(Symbols) /\ Len(pszCurrentInput) \in 0..Width
      /\ nCursorPos \in 0..Len(pszCurrentInput) /\ nCursorPos \in 0..Width
      /\ Neat => /\ Placed(pszCurrentInput) /\ Shows(shown, pszCurrentInput)
                 /\ column = nCursorPos
      /\ Edit!AtEnd <=> nCursorPos = Len(pszCurrentInput)
  BY <1>1, EditingNow
<1>3. CASE UNCHANGED <<chTemp, pszCurrentInput, shown, column>>
  BY <1>1, <1>3, QuietStep DEF EditInv
<1>4. CASE ~UNCHANGED <<chTemp, pszCurrentInput, shown, column>>
  <2> DEFINE d == pszCurrentInput[nCursorPos + 1]
             c == Edit!ODEditAsCharForPos(d, nCursorPos, pszCurrentInput)
             u == [pszCurrentInput EXCEPT ![nCursorPos + 1] = c]
             r == Edit!Put(shown, nCursorPos, <<c>>)
  <2>1. /\ nCursorPos # Len(pszCurrentInput) /\ chTemp' = c /\ pszCurrentInput' = u
        /\ c = d => UNCHANGED <<shown, column>>
        /\ c # d => column' = nCursorPos /\ (column = nCursorPos => shown' = r)
    BY <1>2, <1>4 DEF Edit!CheckCursorChar, Edit!screen
  <2>2. nCursorPos \in 0..(Len(pszCurrentInput) - 1) /\ Len(pszCurrentInput) <= Width
    BY <1>2, <2>1
  <2>3. d \in Symbols
    BY <1>2, <2>2
  <2>4. c \in Symbols /\ (Edit!IsLiteral(nCursorPos) => c = Edit!Expected(nCursorPos))
    BY <1>2, <2>3, ConvertedIsSymbol
  <2> HIDE DEF c
  <2>5. u \in Seq(Symbols) /\ Len(u) = Len(pszCurrentInput)
    BY <1>2, <2>2, <2>4, ReplacedIsString
  <2>6. Neat => Shows(r, u) /\ Placed(u)
    BY <1>2, <2>2, <2>4, ShowsReplaced, PlacedWhenReplaced
  <2>7. c = d => u = pszCurrentInput
    BY <1>2, <2>2
  <2> HIDE DEF u, r, d
  <2>8. nCursorPos' \in 0..Len(u) /\ Len(u) <= Width
    BY <1>1, <2>2, <2>5
  <2>9. Neat => Placed(pszCurrentInput') /\ Shows(shown', pszCurrentInput') /\ column' = nCursorPos'
    BY <1>1, <1>2, <2>1, <2>6, <2>7
  <2> QED
    BY <1>1, <2>1, <2>4, <2>5, <2>8, <2>9, TextStep DEF EditInv
<1> QED
  BY <1>3, <1>4

LEMMA EndingSteps ==
    ASSUME EditInv, Edit!Cancel \/ Edit!NoKey \/ Edit!TryToAccept
    PROVE  EditInv'
<1>1. UNCHANGED <<format, nFlags, szCurrentOriginalString, chTemp, chAddAtEnd, bInsertMode>>
  BY DEF Edit!Cancel, Edit!NoKey, Edit!TryToAccept, Edit!field, Edit!char
<1>2. \/ label' = "done"
      \/ /\ label = "try_to_accept"
         /\ UNCHANGED <<pszCurrentInput, nCursorPos, shown, column>>
  BY DEF Edit!Cancel, Edit!NoKey, Edit!TryToAccept, Edit!screen, Edit!GoTo
<1> QED
  BY <1>1, <1>2, LastStep, QuietStep DEF EditInv

LEMMA EditInvStep ==
    ASSUME EditInv, Edit!EditNext
    PROVE  EditInv'
BY QuietSteps, CursorSteps, RemovingSteps, BackspaceStep, AddingSteps, ConversionStep,
   EndingSteps DEF Edit!EditNext, Edit!EditStep

LEMMA EditInvInit == ApplicationInit => EditInv
<1> SUFFICES ASSUME ApplicationInit PROVE EditInv
  OBVIOUS
<1>1. /\ Edit!FieldAssumption /\ nFlags \in FlagSets /\ label = "loop"
      /\ chTemp = Edit!NUL /\ chAddAtEnd = Edit!NUL
      /\ bInsertMode = (nFlags \cap {"STRICT_INPUT", "PERMALITERAL"} = {})
  BY ApplicationAssumption DEF ApplicationInit, Edit!Init
<1>2. PICK f \in Formats, b \in Beyond : format = Append(f, b)
  BY DEF ApplicationInit, Edit!Init
<1>3. PICK start : /\ start \in {<< >>, <<"a", "-">>, <<"1", "-", "1", "1", "1">>}
                   /\ Edit!Begin(start)
  BY DEF ApplicationInit, Edit!Init
<1>4. format \in Seq(Edit!Position) /\ Len(format) >= 2 /\ Len(format) \in Nat
  <2>1. f \in Seq(Edit!Position) /\ f # << >> /\ b \in Edit!Position
    BY <1>1, <1>2 DEF Edit!FieldAssumption
  <2> QED
    BY <1>2, <2>1
<1>5. Width \in Nat \ {0} /\ Edit!nCurrentStringLength = Width
  <2>1. Len(format) \in Nat /\ Len(format) >= 2
    BY <1>4
  <2> QED
    BY <2>1, WidthIsPositive, Zenon
<1>6. Edit!NUL \in Symbols /\ Edit!Blank \in Symbols
  BY DEF Symbols
<1>7. start \in Seq(Symbols)
  <2>1. "a" \in Symbols /\ "-" \in Symbols /\ "1" \in Symbols
    BY DEF Symbols, Edit!Chars, Edit!Printable, Edit!Digits, Edit!Lower
  <2>2. << >> \in Seq(Symbols) /\ <<"a", "-">> \in Seq(Symbols)
    BY <2>1
  <2>3. <<"1", "-", "1", "1", "1">> \in Seq(Symbols)
    BY <2>1
  <2> QED
    BY <1>3, <2>2, <2>3
<1> DEFINE cut == IF Edit!Is("EDIT_STRING")
                  THEN SubSeq(start, 1, IF Len(start) > Width THEN Width ELSE Len(start))
                  ELSE << >>
           cell(i) == IF i <= Len(cut) THEN cut[i] ELSE Edit!Background(i - 1)
<1>8. Edit!Begin(start)
  BY <1>3
<1>9. /\ pszCurrentInput = cut /\ szCurrentOriginalString = cut
      /\ nCursorPos = Len(cut) /\ column = Len(cut)
      /\ shown = [i \in 1..(Width + 1) |-> cell(i)]
  BY <1>5, <1>8 DEF Edit!Begin
<1>10. cut \in Seq(Symbols) /\ Len(cut) \in 0..Width
  <2> DEFINE n == IF Len(start) > Width THEN Width ELSE Len(start)
  <2>1. n \in 0..Len(start) /\ n <= Width
    BY <1>5, <1>7
  <2> HIDE DEF n
  <2>2. SubSeq(start, 1, n) \in Seq(Symbols) /\ Len(SubSeq(start, 1, n)) = n
    BY <1>7, <2>1, FirstLines
  <2>3. << >> \in Seq(Symbols) /\ Len(<< >>) = 0
    OBVIOUS
  <2>4. cut = SubSeq(start, 1, n) \/ cut = << >>
    BY DEF n
  <2> HIDE DEF cut
  <2>5. CASE cut = SubSeq(start, 1, n)
    <3>1. cut \in Seq(Symbols) /\ Len(cut) = n
      BY <2>2, <2>5, Zenon
    <3> QED
      BY <1>5, <2>1, <3>1
  <2>6. CASE cut = << >>
    <3>1. cut \in Seq(Symbols) /\ Len(cut) = 0
      BY <2>3, <2>6, Zenon
    <3> QED
      BY <1>5, <3>1
  <2> QED
    BY <2>4, <2>5, <2>6
<1> HIDE DEF cut
<1>11. ASSUME NEW i \in 1..(Width + 1) PROVE cell(i) \in Symbols
  <2>1. CASE i <= Len(cut)
    BY <1>10, <2>1
  <2>2. CASE i > Len(cut)
    <3>1. i - 1 < Width => format[i - 1 + 1] \in Edit!Position
      BY <1>4, <1>5, <1>11 DEF Width
    <3>2. i - 1 < Width => Edit!Expected(i - 1) \in Symbols
      BY <3>1 DEF Edit!Position, Edit!Expected, Edit!Chars, Symbols
    <3>3. Edit!Background(i - 1) \in Symbols
      BY <1>5, <1>6, <3>2 DEF Edit!Background
    <3> QED
      BY <1>10, <1>11, <2>2, <3>3
  <2> QED
    BY <1>10, <1>11, <2>1, <2>2
<1>12. Shows(shown, cut)
  <2>1. \A i \in 1..Len(cut) : cell(i) = cut[i]
    BY <1>10
  <2>2. \A i \in (Len(cut) + 1)..(Width + 1) : Vacant(cell(i), i)
    BY <1>10 DEF Vacant
  <2> HIDE DEF cell
  <2> DEFINE s == [i \in 1..(Width + 1) |-> cell(i)]
  <2>3. /\ s \in Seq(Symbols) /\ Len(s) = Width + 1
        /\ \A i \in 1..(Width + 1) : s[i] = cell(i)
    BY <1>5, <1>11
  <2>4. s = shown
    BY <1>9
  <2> HIDE DEF s
  <2>5. Shows(s, cut)
    BY <1>5, <1>10, <2>1, <2>2, <2>3 DEF Shows
  <2> QED
    BY <2>4, <2>5
<1>13. Neat => Placed(cut)
  BY <1>9 DEF Neat, Edit!LiteralsInPlace, Placed
<1>14. Editing
  BY <1>9, <1>10, <1>12, <1>13 DEF Editing, Presented
<1>15. bInsertMode \in BOOLEAN /\ (Edit!Is("PERMALITERAL") => ~bInsertMode)
  BY <1>1 DEF Edit!Is
<1> QED
  BY <1>1, <1>4, <1>6, <1>14, <1>15 DEF EditInv

LEMMA FieldShown ==
    ASSUME EditInv, label = "get_another_key", Edit!Is("PERMALITERAL") => Edit!LiteralsInPlace
    PROVE  /\ column = nCursorPos
           /\ SubSeq(shown, 1, Edit!Length) = pszCurrentInput
           /\ \A i \in (Edit!Length + 1)..Len(shown) :
                 shown[i] \in {Edit!Blank, Edit!Background(i - 1)}
<1> DEFINE n == Len(pszCurrentInput)
           visible == SubSeq(shown, 1, n)
<1>1. /\ pszCurrentInput \in Seq(Symbols) /\ n \in 0..Width
      /\ Shows(shown, pszCurrentInput) /\ column = nCursorPos /\ Edit!Length = n
  BY EditingNow DEF Neat
<1>2. shown \in Seq(Symbols) /\ Len(shown) = Width + 1 /\ n \in 0..Len(shown) /\ n \in Nat
  BY <1>1, FieldIsWide DEF Shows
<1>3. visible \in Seq(Symbols) /\ Len(visible) = n /\ \A i \in 1..n : visible[i] = shown[i]
  BY <1>2, FirstLines
<1>4. \A i \in 1..n : visible[i] = pszCurrentInput[i]
  BY <1>1, <1>3 DEF Shows
<1> HIDE DEF visible
<1>5. visible = pszCurrentInput
  BY <1>1, <1>3, <1>4, SeqEqual
<1>6. \A i \in (n + 1)..Len(shown) : shown[i] \in {Edit!Blank, Edit!Background(i - 1)}
  BY <1>1, <1>2 DEF Shows, Vacant
<1> QED
  BY <1>1, <1>5, <1>6 DEF visible

LEMMA EditInvKept ==
    ASSUME EditInv, [ApplicationNext]_applicationVars
    PROVE  EditInv'
<1> USE ApplicationAssumption
<1>1. CASE Edit!EditNext
  BY <1>1, EditInvStep
<1>2. CASE UNCHANGED editVars
  <2>1. /\ UNCHANGED <<format, nFlags, pszCurrentInput, szCurrentOriginalString, nCursorPos>>
        /\ UNCHANGED <<bInsertMode, chTemp, chAddAtEnd, label, shown, column>>
    BY <1>2 DEF editVars
  <2> QED
    BY <2>1, EditInvStays DEF EditInv, Editing
<1> QED
  BY <1>1, <1>2, FieldMoves

\* Whenever a key is waited for the screen shows the field: the string, blanks and
\* permanent literals behind it, and the cursor where the next character goes.
THEOREM FieldIsShown == ApplicationSpec => []ShowsField
<1>1. EditInv => ShowsField
  BY FieldShown DEF ShowsField, Edit!ShowsField
<1> QED
  BY <1>1, EditInvInit, EditInvKept, PTL DEF ApplicationSpec

\* The characters of the string t, converted one by one, each by the one before
\* it in r.
ConvertedBy(t, r) == [i \in 1..Len(t) |-> Edit!ODEditAsCharForPos(t[i], i - 1, r)]

Conversion(t) == ConvertedBy(t, t)

\* It makes no difference whether the characters before one are those of s or of t.
SameBefore(s, t) == \A i \in 1..Len(t) : \A c :
    Edit!ODEditAsCharForPos(c, i - 1, s) = Edit!ODEditAsCharForPos(c, i - 1, t)

LEMMA DashStays ==
    ASSUME NEW c, NEW pos, NEW before, ~Edit!IsLiteral(pos)
    PROVE  Edit!ODEditAsCharForPos(c, pos, before) = "-" <=> c = "-"
BY DEF Edit!ODEditAsCharForPos, Edit!ToUpper, Edit!ToLower, Edit!Upper, Edit!Lower

LEMMA OnlyDashesMatter ==
    ASSUME NEW c, NEW i \in Nat \ {0}, NEW s, NEW t,
           i > 1 => Edit!IsLiteral(i - 1 - 1) \/ (s[i - 1] = "-" <=> t[i - 1] = "-")
    PROVE  Edit!ODEditAsCharForPos(c, i - 1, s) = Edit!ODEditAsCharForPos(c, i - 1, t)
BY DEF Edit!ODEditAsCharForPos

\* Only whether the character before is a "-" matters, and no conversion changes
\* that; so it may have been converted already, in whatever way.
LEMMA ConvertedInAnyWay ==
    ASSUME NEW t, Len(t) \in Nat, NEW s, NEW r, s = ConvertedBy(t, r)
    PROVE  SameBefore(s, t)
<1> SUFFICES ASSUME NEW i \in 1..Len(t), NEW c
             PROVE  Edit!ODEditAsCharForPos(c, i - 1, s) = Edit!ODEditAsCharForPos(c, i - 1, t)
  BY DEF SameBefore
<1>1. ASSUME i > 1 PROVE Edit!IsLiteral(i - 1 - 1) \/ (s[i - 1] = "-" <=> t[i - 1] = "-")
  <2>1. i - 1 \in 1..Len(t)
    BY <1>1
  <2>2. s[i - 1] = Edit!ODEditAsCharForPos(t[i - 1], i - 1 - 1, r)
    BY <2>1 DEF ConvertedBy
  <2> QED
    BY <2>2, DashStays
<1> QED
  BY <1>1, OnlyDashesMatter

LEMMA SameConversion ==
    ASSUME NEW t, NEW s, SameBefore(s, t)
    PROVE  ConvertedBy(t, s) = Conversion(t)
BY DEF SameBefore, ConvertedBy, Conversion

\* So the conversion is the only string that is converted by itself.
LEMMA ConvertedByItself ==
    ASSUME NEW t, Len(t) \in Nat, NEW s
    PROVE  s = ConvertedBy(t, s) <=> s = Conversion(t)
<1>1. ASSUME s = ConvertedBy(t, s) PROVE s = Conversion(t)
  <2>1. SameBefore(s, t)
    BY <1>1, ConvertedInAnyWay
  <2> QED
    BY <1>1, <2>1, SameConversion
<1>2. ASSUME s = Conversion(t) PROVE s = ConvertedBy(t, s)
  <2>1. s = ConvertedBy(t, t)
    BY <1>2 DEF Conversion
  <2>2. SameBefore(s, t)
    BY <2>1, ConvertedInAnyWay
  <2> QED
    BY <1>2, <2>2, SameConversion
<1> QED
  BY <1>1, <1>2

LEMMA NormalIsConversion ==
    Len(pszCurrentInput) \in Nat => Edit!Normal = Conversion(pszCurrentInput)
<1> SUFFICES ASSUME Len(pszCurrentInput) \in Nat
             PROVE  Edit!Normal = Conversion(pszCurrentInput)
  OBVIOUS
<1> DEFINE t == pszCurrentInput
           Follows(s) == s = [i \in 1..Edit!Length |-> Edit!ODEditAsCharForPos(t[i], i - 1, s)]
<1>1. Edit!Normal = CHOOSE s : Follows(s)
  BY DEF Edit!Normal
<1>2. ASSUME NEW s PROVE Follows(s) <=> s = Conversion(t)
  <2>1. Follows(s) <=> s = ConvertedBy(t, s)
    BY DEF Edit!Length, ConvertedBy
  <2> QED
    BY <2>1, ConvertedByItself
<1> HIDE DEF Follows
<1>3. Follows(Edit!Normal)
  BY <1>1, <1>2, Zenon
<1> QED
  BY <1>2, <1>3

LEMMA NormalIsConversionNext ==
    UNCHANGED format /\ Len(pszCurrentInput') \in Nat
        => Edit!Normal' = Conversion(pszCurrentInput')
<1> SUFFICES ASSUME UNCHANGED format, Len(pszCurrentInput') \in Nat
             PROVE  Edit!Normal' = Conversion(pszCurrentInput')
  OBVIOUS
<1> DEFINE t == pszCurrentInput'
           As(c, pos, s) == IF format'[pos + 1].literal THEN format'[pos + 1].char
                            ELSE IF format'[pos + 1].char # "M" THEN c
                            ELSE IF pos = 0 \/ format'[pos - 1 + 1].literal \/ s[pos] = "-"
                            THEN Edit!ToUpper(c)
                            ELSE Edit!ToLower(c)
           Follows(s) == s = [i \in 1..Len(t) |-> As(t[i], i - 1, s)]
<1>1. Edit!Normal' = CHOOSE s : Follows(s)
  BY DEF Edit!Normal, Edit!Length, Edit!ODEditAsCharForPos, Edit!IsLiteral, Edit!Expected,
         Edit!ToUpper, Edit!ToLower
<1>2. ASSUME NEW c, NEW pos, NEW s PROVE As(c, pos, s) = Edit!ODEditAsCharForPos(c, pos, s)
  BY DEF Edit!ODEditAsCharForPos, Edit!IsLiteral, Edit!Expected
<1> HIDE DEF As
<1>3. ASSUME NEW s PROVE Follows(s) <=> s = Conversion(t)
  <2>1. Follows(s) <=> s = ConvertedBy(t, s)
    BY <1>2 DEF ConvertedBy
  <2> QED
    BY <2>1, ConvertedByItself
<1> HIDE DEF Follows
<1>4. Follows(Edit!Normal')
  BY <1>1, <1>3, Zenon
<1> QED
  BY <1>3, <1>4

LEMMA ValidWhenConverted ==
    ASSUME NEW c, NEW pos, NEW s, Edit!ODEditIsCharValidForPos(c, pos)
    PROVE  Edit!ODEditIsCharValidForPos(Edit!ODEditAsCharForPos(c, pos, s), pos)
BY DEF Edit!ODEditIsCharValidForPos, Edit!ODEditAsCharForPos, Edit!ToUpper, Edit!ToLower,
       Edit!Upper, Edit!Lower, Edit!Digits, Edit!Printable

LEMMA ConvertedOnce ==
    ASSUME NEW c, NEW pos, NEW s
    PROVE  Edit!ODEditAsCharForPos(Edit!ODEditAsCharForPos(c, pos, s), pos, s)
             = Edit!ODEditAsCharForPos(c, pos, s)
BY DEF Edit!ODEditAsCharForPos, Edit!ToUpper, Edit!ToLower, Edit!Upper, Edit!Lower

LEMMA ConversionIsConverted ==
    ASSUME NEW t, Len(t) \in Nat
    PROVE  Len(Conversion(t)) = Len(t) /\ Conversion(Conversion(t)) = Conversion(t)
<1> DEFINE s == Conversion(t)
<1>1. s = ConvertedBy(t, t) /\ Conversion(s) = ConvertedBy(s, s)
  BY DEF Conversion
<1> HIDE DEF s
<1>2. SameBefore(s, t)
  BY <1>1, ConvertedInAnyWay
<1>3. /\ Len(s) = Len(t) /\ s = [i \in 1..Len(t) |-> s[i]]
      /\ \A i \in 1..Len(t) : s[i] = Edit!ODEditAsCharForPos(t[i], i - 1, t)
  BY <1>1 DEF ConvertedBy
<1>4. \A i \in 1..Len(t) : Edit!ODEditAsCharForPos(s[i], i - 1, s) = s[i]
  BY <1>2, <1>3, ConvertedOnce DEF SameBefore
<1>5. ConvertedBy(s, s) = [i \in 1..Len(t) |-> s[i]]
  BY <1>3, <1>4 DEF ConvertedBy
<1> QED
  BY <1>1, <1>3, <1>5 DEF s

Answered == label = "done" /\ wToReturn # "cancel" => Len(pszCurrentInput) \in Nat

LEMMA AcceptStep ==
    ASSUME EditInv, Edit!EditNext
    PROVE  Answered' /\ AcceptedFitsFormat'
<1> SUFFICES ASSUME label' = "done", wToReturn' # "cancel"
             PROVE  (/\ Len(pszCurrentInput) \in Nat
                     /\ Edit!AllValid /\ pszCurrentInput = Edit!Normal
                     /\ Edit!Is("FILL_STRING") =>
                          \/ Edit!Length = Edit!nCurrentStringLength
                          \/ Edit!Is("LEAVE_BLANK") /\ Edit!Length = 0
                     /\ Edit!Is("LEAVE_BLANK") => ~Edit!OnlyLiterals)'
  BY DEF Answered, AcceptedFitsFormat, Edit!AcceptedFitsFormat
<1> USE FieldIsWide
<1>1. Edit!TryToAccept
  BY DEF Edit!EditNext, Edit!EditStep, Edit!GoTo, Edit!Loop, Edit!KeepGoing,
     Edit!PressedRightArrow, Edit!PressedLeftArrow, Edit!PressedDelete,
     Edit!TryThisCharacter, Edit!Cancel, Edit!BackspaceAgain, Edit!KillWholeLine,
     Edit!AddAnotherKey, Edit!AddAtEnd, Edit!Insert, Edit!Overwrite, Edit!CheckCursorChar,
     Edit!Continue, Edit!NoKey, Edit!Type, Edit!Press, Edit!Extended
<1> DEFINE t == pszCurrentInput
<1>2. /\ label = "try_to_accept" /\ UNCHANGED <<format, nFlags>>
      /\ Edit!Is("FILL_STRING") => Edit!Length = Edit!nCurrentStringLength
      /\ Edit!AllValid
      /\ t' = IF Edit!Is("LEAVE_BLANK") /\ Edit!OnlyLiterals THEN << >> ELSE Edit!Normal
  BY <1>1 DEF Edit!TryToAccept, Edit!GoTo, Edit!field
<1>3. t \in Seq(Symbols) /\ Len(t) \in Nat /\ Edit!Length = Len(t)
  BY <1>2, EditingNow
<1>4. Edit!Normal = Conversion(t)
  BY <1>3, NormalIsConversion
<1>5. /\ \A flag : Edit!Is(flag)' = Edit!Is(flag)
      /\ Edit!nCurrentStringLength' = Edit!nCurrentStringLength
      /\ \A pos : Edit!IsLiteral(pos)' = Edit!IsLiteral(pos)
      /\ \A c, pos : Edit!ODEditIsCharValidForPos(c, pos)' = Edit!ODEditIsCharValidForPos(c, pos)
      /\ Edit!Length' = Len(t')
  BY <1>2 DEF Edit!Is, Edit!nCurrentStringLength, Edit!IsLiteral, Edit!Expected, Edit!Length,
     Edit!ODEditIsCharValidForPos
<1>6. CASE Edit!Is("LEAVE_BLANK") /\ Edit!OnlyLiterals
  <2>1. t' = << >> /\ Len(t') = 0 /\ Len(t') \in Nat
    BY <1>2, <1>6
  <2>2. Edit!Normal' = Conversion(t') /\ Conversion(t') = << >>
    BY <1>2, <2>1, NormalIsConversionNext DEF Conversion, ConvertedBy
  <2>3. Edit!AllValid' /\ ~Edit!OnlyLiterals'
    BY <1>5, <2>1 DEF Edit!AllValid, Edit!OnlyLiterals
  <2> QED
    BY <1>5, <1>6, <2>1, <2>2, <2>3
<1>7. CASE ~(Edit!Is("LEAVE_BLANK") /\ Edit!OnlyLiterals)
  <2>1. t' = Conversion(t) /\ Len(t') = Len(t) /\ Conversion(t') = t'
    BY <1>2, <1>3, <1>4, <1>7, ConversionIsConverted
  <2>2. \A i \in 1..Len(t) : t'[i] = Edit!ODEditAsCharForPos(t[i], i - 1, t)
    BY <2>1 DEF Conversion, ConvertedBy
  <2>3. ASSUME NEW pos \in 0..(Len(t) - 1)
        PROVE  Edit!ODEditIsCharValidForPos(t'[pos + 1], pos)
    <3>1. Edit!ODEditIsCharValidForPos(t[pos + 1], pos)
      BY <1>2, <1>3 DEF Edit!AllValid
    <3>2. t'[pos + 1] = Edit!ODEditAsCharForPos(t[pos + 1], pos, t)
      BY <1>3, <2>2
    <3> QED
      BY <3>1, <3>2, ValidWhenConverted
  <2>4. Edit!AllValid'
    BY <1>3, <1>5, <2>1, <2>3 DEF Edit!AllValid
  <2>5. t' = Edit!Normal'
    BY <1>2, <1>3, <2>1, NormalIsConversionNext
  <2>6. Edit!OnlyLiterals' <=> Edit!OnlyLiterals
    BY <1>3, <1>5, <2>1 DEF Edit!OnlyLiterals
  <2> QED
    BY <1>2, <1>3, <1>5, <1>7, <2>1, <2>4, <2>5, <2>6
<1> QED
  BY <1>6, <1>7

\* A field that is left other than by cancelling holds an answer that fits its
\* format: every character is one that the format takes where it stands and is
\* converted, and the field is full where it has to be.
THEOREM AnswerFits == ApplicationSpec => []AcceptedFitsFormat
<1> USE ApplicationAssumption
<1>1. ASSUME EditInv, Answered, AcceptedFitsFormat, [ApplicationNext]_applicationVars
      PROVE  EditInv' /\ Answered' /\ AcceptedFitsFormat'
  <2>1. CASE Edit!EditNext
    BY <1>1, <2>1, EditInvStep, AcceptStep
  <2>2. CASE UNCHANGED editVars
    <3>1. /\ UNCHANGED <<format, nFlags, pszCurrentInput, szCurrentOriginalString, nCursorPos>>
          /\ UNCHANGED <<bInsertMode, chTemp, chAddAtEnd, label, shown, column, wToReturn>>
      BY <2>2 DEF editVars
    <3>2. EditInv'
      BY <1>1, <3>1, EditInvStays DEF EditInv, Editing
    <3>3. Answered'
      BY <1>1, <3>1 DEF Answered
    <3>4. ASSUME Len(pszCurrentInput) \in Nat PROVE Edit!Normal' = Edit!Normal
      <4>1. /\ Edit!Normal' = Conversion(pszCurrentInput')
            /\ Edit!Normal = Conversion(pszCurrentInput)
        BY <3>1, <3>4, NormalIsConversion, NormalIsConversionNext
      <4> QED
        BY <3>1, <4>1
    <3>5. AcceptedFitsFormat'
      BY <1>1, <3>1, <3>4 DEF Answered, AcceptedFitsFormat, Edit!AcceptedFitsFormat,
         Edit!AllValid, Edit!OnlyLiterals, Edit!Is, Edit!nCurrentStringLength, Edit!Length,
         Edit!IsLiteral, Edit!Expected, Edit!ODEditIsCharValidForPos
    <3> QED
      BY <3>2, <3>3, <3>5
  <2> QED
    BY <1>1, <2>1, <2>2, FieldMoves
<1>2. ApplicationInit => Answered /\ AcceptedFitsFormat
  BY DEF ApplicationInit, Edit!Init, Answered, AcceptedFitsFormat, Edit!AcceptedFitsFormat
<1> QED
  BY <1>1, <1>2, EditInvInit, PTL DEF ApplicationSpec

Letters == Edit!Chars \cup {Edit!NUL}

\* A string t with the cursor at pos and the screen's in column col; c is handled, held is
\* held back, and at comes next. What is added is a character the field can hold.
Handled(t, pos, col, c, held, at) ==
    /\ t \in Seq(Edit!Entered) /\ Len(t) <= Width
    /\ pos \in 0..Width /\ col \in 0..Width
    /\ c \in Letters /\ held \in Letters /\ (held # Edit!NUL => c # Edit!NUL)
    /\ at \in {"try_this_character", "kill_whole_line", "add_another_key", "add"} => c # Edit!NUL
    /\ at = "add" /\ pos < Width => c \in Edit!Entered
    /\ at # "done" => col = pos \/ Retreat(at, pos, Len(t))
    /\ at \in Edit!Labels

Counters ==
    /\ nKeysPressed \in 0..2 /\ bCheckAutoEnter \in BOOLEAN
    /\ wToReturn \in {"none", "accept", "previous", "next", "cancel"}

FieldTyped ==
    /\ Handled(pszCurrentInput, nCursorPos, column, chTemp, chAddAtEnd, label)
    /\ szCurrentOriginalString \in Seq(Edit!Entered) /\ Len(szCurrentOriginalString) <= Width
    /\ DOMAIN shown = 1..(Width + 1)
    /\ Counters

LEMMA EnteredAre ==
    /\ Edit!Entered \in {Edit!Printable, Edit!Chars} /\ Edit!Printable \subseteq Edit!Entered
    /\ Edit!Entered \subseteq Edit!Chars /\ Edit!Entered \subseteq Letters
    /\ Edit!NUL \notin Edit!Chars
BY DEF Letters, Edit!Entered, Edit!Chars, Edit!Printable, Edit!Digits, Edit!Lower, Edit!Upper,
   Edit!Controls, Edit!NUL

LEMMA PutInCells == \A cells, from, chars : DOMAIN Edit!Put(cells, from, chars) = DOMAIN cells
BY DEF Edit!Put

LEMMA Positions ==
    ASSUME EditInv, NEW pos \in 0..Width
    PROVE  /\ Edit!IsLiteral(pos) \in BOOLEAN
           /\ Edit!IsLiteral(pos) => Edit!Expected(pos) \in Edit!Printable
           /\ ~Edit!IsLiteral(pos) => Edit!Expected(pos) \in {"#", "M", "*", "-"}
<1>1. pos + 1 \in 1..Len(format)
  BY FieldIsWide DEF Width
<1>2. format[pos + 1] \in Edit!Position
  BY <1>1 DEF EditInv
<1> HIDE DEF Edit!Printable
<1> QED
  BY <1>2 DEF Edit!Position, Edit!IsLiteral, Edit!Expected

\* A character that is valid where it is entered is one that the field can hold.
LEMMA ValidIsEntered ==
    ASSUME EditInv, NEW c \in Edit!Chars, NEW pos \in 0..(Width - 1),
           Edit!ODEditIsCharValidForPos(c, pos)
    PROVE  c \in Edit!Entered
<1>1. pos \in 0..Width /\ pos \in 0..(Edit!nCurrentStringLength - 1)
  BY FieldIsWide
<1>2. /\ Edit!IsLiteral(pos) => Edit!Expected(pos) \in Edit!Printable
      /\ ~Edit!IsLiteral(pos) => Edit!Expected(pos) \in {"#", "M", "*", "-"}
  BY <1>1, Positions
<1>3. CASE Edit!IsLiteral(pos)
  <2>1. c \in Edit!Printable
    BY <1>2, <1>3 DEF Edit!ODEditIsCharValidForPos
  <2> QED
    BY <2>1, EnteredAre
<1>4. CASE ~Edit!IsLiteral(pos) /\ Edit!Expected(pos) # "-"
  <2>1. Edit!Expected(pos) \in {"#", "M", "*"}
    BY <1>2, <1>4
  <2>2. c \in Edit!Digits \/ c \in Edit!Lower \cup Edit!Upper \/ c \in Edit!Printable
    BY <1>4, <2>1 DEF Edit!ODEditIsCharValidForPos
  <2>3. c \in Edit!Printable
    BY <2>2 DEF Edit!Printable
  <2> QED
    BY <2>3, EnteredAre
<1>5. CASE ~Edit!IsLiteral(pos) /\ Edit!Expected(pos) = "-"
  <2>1. Edit!Entered = Edit!Chars
    BY <1>1, <1>5 DEF Edit!Entered
  <2> QED
    BY <2>1
<1> QED
  BY <1>3, <1>4, <1>5

LEMMA ConvertedIsEntered ==
    ASSUME EditInv, NEW c, NEW pos \in 0..Width, NEW before
    PROVE  /\ c \in Edit!Entered => Edit!ODEditAsCharForPos(c, pos, before) \in Edit!Entered
           /\ c \in Edit!Chars => Edit!ODEditAsCharForPos(c, pos, before) \in Edit!Chars
<1>1. Edit!IsLiteral(pos) => Edit!Expected(pos) \in Edit!Printable
  BY Positions
<1>2. Edit!ToUpper(c) \in {c, "A"} /\ Edit!ToLower(c) \in {c, "a"}
  BY DEF Edit!ToUpper, Edit!ToLower
<1>3. "A" \in Edit!Printable /\ "a" \in Edit!Printable
  BY DEF Edit!Printable, Edit!Upper, Edit!Lower
<1>4. Edit!ODEditAsCharForPos(c, pos, before) \in Edit!Printable \cup {c}
  BY <1>1, <1>2, <1>3 DEF Edit!ODEditAsCharForPos
<1> QED
  BY <1>4, EnteredAre

\* The counters, the cells and the field itself in every step.
LEMMA Bookkeeping ==
    ASSUME FieldTyped, Edit!EditNext
    PROVE  /\ UNCHANGED <<format, nFlags, szCurrentOriginalString>>
           /\ DOMAIN shown' = DOMAIN shown /\ Counters'
<1> USE PutInCells DEF FieldTyped, Counters, Edit!field, Edit!text, Edit!screen, Edit!char
<1>1. CASE Edit!Loop
  BY <1>1 DEF Edit!Loop
<1>2. CASE Edit!KeepGoing
  BY <1>2 DEF Edit!KeepGoing, Edit!More
<1>3. CASE Edit!PressedRightArrow \/ Edit!PressedLeftArrow
  BY <1>3 DEF Edit!PressedRightArrow, Edit!PressedLeftArrow
<1>4. CASE Edit!PressedDelete \/ Edit!KillWholeLine
  BY <1>4 DEF Edit!PressedDelete, Edit!KillWholeLine
<1>5. CASE Edit!TryThisCharacter
  BY <1>5 DEF Edit!TryThisCharacter
<1>6. CASE Edit!Cancel \/ Edit!NoKey \/ Edit!TryToAccept
  BY <1>6 DEF Edit!Cancel, Edit!NoKey, Edit!TryToAccept
<1>7. CASE Edit!BackspaceAgain
  BY <1>7 DEF Edit!BackspaceAgain
<1>8. CASE Edit!AddAnotherKey
  BY <1>8 DEF Edit!AddAnotherKey
<1>9. CASE Edit!AddAtEnd \/ Edit!Insert \/ Edit!Overwrite
  BY <1>9 DEF Edit!AddAtEnd, Edit!Insert, Edit!Overwrite, Edit!od_putch
<1>10. CASE Edit!CheckCursorChar
  BY <1>10 DEF Edit!CheckCursorChar
<1>11. CASE \E c \in Edit!Chars : Edit!Type(c)
  BY <1>11 DEF Edit!Type, Edit!More
<1>12. CASE \E key \in Edit!Extended : Edit!Press(key)
  BY <1>12 DEF Edit!Press, Edit!More
<1> QED
  BY <1>1, <1>2, <1>3, <1>4, <1>5, <1>6, <1>7, <1>8, <1>9, <1>10, <1>11, <1>12
     DEF Edit!EditNext, Edit!EditStep

LEMMA HandledIsTyped ==
    ASSUME FieldTyped, Edit!EditNext,
           Handled(pszCurrentInput', nCursorPos', column', chTemp', chAddAtEnd', label')
    PROVE  FieldTyped'
<1>1. /\ UNCHANGED <<format, nFlags, szCurrentOriginalString>>
      /\ DOMAIN shown' = DOMAIN shown /\ Counters'
  BY Bookkeeping
<1>2. Width' = Width /\ Edit!Entered' = Edit!Entered
  BY <1>1 DEF Width, Edit!Entered, Edit!IsLiteral, Edit!Expected, Edit!nCurrentStringLength
<1>3. Handled(pszCurrentInput, nCursorPos, column, chTemp, chAddAtEnd, label)' <=>
        Handled(pszCurrentInput', nCursorPos', column', chTemp', chAddAtEnd', label')
  BY <1>1, <1>2 DEF Handled, Retreat, Edit!Is, Edit!IsLiteral
<1> QED
  BY <1>1, <1>2, <1>3 DEF FieldTyped

\* What a step starts from.
LEMMA FieldNow ==
    ASSUME EditInv, FieldTyped
    PROVE  /\ pszCurrentInput \in Seq(Edit!Entered) /\ Len(pszCurrentInput) \in 0..Width
           /\ nCursorPos \in 0..Width /\ column \in 0..Width
           /\ chTemp \in Letters /\ chAddAtEnd \in Letters
           /\ chAddAtEnd # Edit!NUL => chTemp # Edit!NUL
           /\ label # "done" => nCursorPos \in 0..Len(pszCurrentInput)
           /\ label \notin {"done", "backspace_again"} => column = nCursorPos
           /\ Edit!Length = Len(pszCurrentInput) /\ Width \in Nat \ {0}
           /\ Edit!nCurrentStringLength = Width
<1>1. Width \in Nat \ {0} /\ Edit!nCurrentStringLength = Width
  BY FieldIsWide
<1> QED
  BY <1>1 DEF EditInv, Editing, FieldTyped, Handled, Retreat, Edit!Length

\* A step that leaves the string, the cursor and the screen.
LEMMA QuietlyTyped ==
    ASSUME EditInv, FieldTyped, label \notin {"done", "backspace_again"},
           UNCHANGED <<pszCurrentInput, nCursorPos, column>>,
           chTemp' \in Letters, chAddAtEnd' \in Letters,
           chAddAtEnd' # Edit!NUL => chTemp' # Edit!NUL,
           label' \in {"try_this_character", "kill_whole_line", "add_another_key", "add"}
              => chTemp' # Edit!NUL,
           label' = "add" /\ nCursorPos < Width => chTemp' \in Edit!Entered,
           label' \in Edit!Labels
    PROVE  Handled(pszCurrentInput', nCursorPos', column', chTemp', chAddAtEnd', label')
BY FieldNow DEF Handled

LEMMA QuietTypes ==
    ASSUME EditInv, FieldTyped,
           \/ Edit!Loop \/ Edit!KeepGoing \/ Edit!TryThisCharacter \/ Edit!AddAnotherKey
           \/ \E c \in Edit!Chars : Edit!Type(c)
    PROVE  Handled(pszCurrentInput', nCursorPos', column', chTemp', chAddAtEnd', label')
<1> DEFINE N == Edit!NUL
<1>1. /\ chTemp \in Letters /\ chAddAtEnd \in Letters /\ (chAddAtEnd # N => chTemp # N)
      /\ label \in {"try_this_character", "kill_whole_line", "add_another_key", "add"}
           => chTemp # N
  BY DEF FieldTyped, Handled
<1>2. /\ \A c \in Edit!Printable : c \in Letters /\ c # N /\ c \in Edit!Entered
      /\ \A c \in Letters : c # N => c \in Edit!Chars
      /\ \A c \in Edit!Chars : c \in Letters /\ c # N
  BY EnteredAre DEF Letters
<1>3. Width \in Nat \ {0} /\ Edit!nCurrentStringLength = Width
  BY FieldIsWide
<1> HIDE DEF N
<1>4. CASE Edit!Loop
  <2>1. /\ label = "loop" /\ UNCHANGED <<chTemp, chAddAtEnd>>
        /\ UNCHANGED <<pszCurrentInput, nCursorPos, column>>
        /\ label' \in {"try_to_accept", "keep_going"}
    BY <1>4 DEF Edit!Loop, Edit!text, Edit!screen, Edit!char, Edit!GoTo
  <2>2. label' \in Edit!Labels
    BY <2>1 DEF Edit!Labels
  <2> QED
    BY <1>1, <2>1, <2>2, QuietlyTyped DEF N
<1>5. CASE Edit!KeepGoing
  <2>1. /\ label = "keep_going" /\ UNCHANGED chAddAtEnd
        /\ UNCHANGED <<pszCurrentInput, nCursorPos, column>>
        /\ \/ chTemp' = chTemp /\ label' \in {"pressed_right_arrow", "get_another_key"}
           \/ /\ chTemp' = Edit!Expected(nCursorPos) /\ nCursorPos < Width
              /\ Edit!IsLiteral(nCursorPos) /\ label' = "try_this_character"
    BY <1>3, <1>5 DEF Edit!KeepGoing, Edit!text, Edit!screen, Edit!GoTo
  <2>2. nCursorPos \in 0..Width
    BY FieldNow
  <2>3. Edit!IsLiteral(nCursorPos) => Edit!Expected(nCursorPos) \in Edit!Printable
    BY <2>2, Positions
  <2>4. /\ chTemp' \in Letters /\ (chAddAtEnd # N => chTemp' # N)
        /\ label' = "try_this_character" => chTemp' # N
    BY <1>1, <1>2, <2>1, <2>3
  <2>5. label' \in Edit!Labels
    BY <2>1 DEF Edit!Labels
  <2> QED
    BY <1>1, <2>1, <2>4, <2>5, QuietlyTyped DEF N
<1>6. CASE Edit!TryThisCharacter
  <2>1. /\ label = "try_this_character" /\ UNCHANGED <<chTemp, chAddAtEnd>>
        /\ UNCHANGED <<pszCurrentInput, nCursorPos, column>>
        /\ label' \in {"cancel", "loop", "try_to_accept", "backspace_again", "kill_whole_line",
                       "add_another_key"}
    BY <1>6 DEF Edit!TryThisCharacter, Edit!text, Edit!screen, Edit!char, Edit!GoTo
  <2>2. label' \in Edit!Labels
    BY <2>1 DEF Edit!Labels
  <2> QED
    BY <1>1, <2>1, <2>2, QuietlyTyped DEF N
<1>7. CASE Edit!AddAnotherKey
  <2>1. /\ label = "add_another_key"
        /\ UNCHANGED <<pszCurrentInput, nCursorPos, column>>
        /\ label' \in {"add", "loop", "pressed_right_arrow"}
    BY <1>7 DEF Edit!AddAnotherKey, Edit!text, Edit!screen, Edit!GoTo
  <2>2. chTemp # N /\ chTemp \in Edit!Chars
    BY <1>1, <1>2, <2>1
  <2>3. nCursorPos \in 0..Width
    BY FieldNow
  <2>4. Edit!IsLiteral(nCursorPos) => Edit!Expected(nCursorPos) \in Edit!Printable
    BY <2>3, Positions
  <2>5. \/ /\ UNCHANGED <<chTemp, chAddAtEnd>>
           /\ label' = "add" => Edit!ODEditIsCharValidForPos(chTemp, nCursorPos)
        \/ /\ chAddAtEnd' = chTemp
           /\ \/ chTemp' = chTemp /\ label' # "add"
              \/ chTemp' = Edit!Expected(nCursorPos) /\ Edit!IsLiteral(nCursorPos)
    BY <1>7 DEF Edit!AddAnotherKey, Edit!GoTo, Edit!char
  <2>6. chTemp' \in Letters /\ chAddAtEnd' \in Letters /\ chTemp' # N
    BY <1>1, <1>2, <2>2, <2>4, <2>5
  <2>7. ASSUME label' = "add", nCursorPos < Width PROVE chTemp' \in Edit!Entered
    <3>1. CASE chTemp' = Edit!Expected(nCursorPos) /\ Edit!IsLiteral(nCursorPos)
      BY <1>2, <2>4, <3>1
    <3>2. CASE chTemp' = chTemp /\ Edit!ODEditIsCharValidForPos(chTemp, nCursorPos)
      <4>1. nCursorPos \in 0..(Width - 1)
        BY <1>3, <2>3, <2>7
      <4> QED
        BY <2>2, <3>2, <4>1, ValidIsEntered
    <3> QED
      BY <2>5, <2>7, <3>1, <3>2
  <2>8. label' \in Edit!Labels
    BY <2>1 DEF Edit!Labels
  <2> QED
    BY <2>1, <2>6, <2>7, <2>8, QuietlyTyped DEF N
<1>8. CASE \E c \in Edit!Chars : Edit!Type(c)
  <2>1. /\ label = "get_another_key" /\ UNCHANGED chAddAtEnd /\ chTemp' \in Edit!Chars
        /\ UNCHANGED <<pszCurrentInput, nCursorPos, column>>
        /\ label' = "try_this_character"
    BY <1>8 DEF Edit!Type, Edit!text, Edit!screen, Edit!GoTo
  <2>2. label' \in Edit!Labels
    BY <2>1 DEF Edit!Labels
  <2> QED
    BY <1>1, <1>2, <2>1, <2>2, QuietlyTyped DEF N
<1> QED
  BY <1>4, <1>5, <1>6, <1>7, <1>8

\* A step that moves the cursor only, or puts both where the string is changed.
LEMMA MovedIsTyped ==
    ASSUME EditInv, FieldTyped, label # "done", UNCHANGED <<chTemp, chAddAtEnd>>,
           pszCurrentInput' \in Seq(Edit!Entered), Len(pszCurrentInput') <= Width,
           nCursorPos' \in 0..Width, column' = nCursorPos',
           label' \in {"loop", "get_another_key", "pressed_left_arrow", "pressed_right_arrow",
                       "pressed_delete", "try_to_accept", "check_cursor_char"}
    PROVE  Handled(pszCurrentInput', nCursorPos', column', chTemp', chAddAtEnd', label')
<1>1. label' \in Edit!Labels
  BY DEF Edit!Labels
<1> QED
  BY <1>1, FieldNow DEF Handled

LEMMA CursorTypes ==
    ASSUME EditInv, FieldTyped,
           \/ Edit!PressedRightArrow \/ Edit!PressedLeftArrow
           \/ \E key \in Edit!Extended : Edit!Press(key)
    PROVE  Handled(pszCurrentInput', nCursorPos', column', chTemp', chAddAtEnd', label')
<1>1. CASE Edit!PressedRightArrow
  <2>1. /\ label = "pressed_right_arrow" /\ UNCHANGED <<chTemp, pszCurrentInput>>
        /\ chAddAtEnd' = Edit!NUL
        /\ label' = IF chAddAtEnd # Edit!NUL THEN "add_another_key" ELSE "loop"
        /\ \/ UNCHANGED <<nCursorPos, column>>
           \/ nCursorPos # Len(pszCurrentInput) /\ nCursorPos' = nCursorPos + 1 /\ column' = nCursorPos'
    BY <1>1 DEF Edit!PressedRightArrow, Edit!AtEnd, Edit!Length, Edit!GoTo
  <2>2. nCursorPos \in 0..Len(pszCurrentInput) /\ Len(pszCurrentInput) \in 0..Width
        /\ column = nCursorPos
    BY <2>1, FieldNow
  <2>3. nCursorPos' \in 0..Width /\ column' = nCursorPos'
    BY <2>1, <2>2, FieldNow
  <2>4. label' \in Edit!Labels
    BY <2>1 DEF Edit!Labels
  <2>5. Edit!NUL \in Letters
    BY DEF Letters
  <2> QED
    BY <2>1, <2>3, <2>4, <2>5, FieldNow DEF Handled
<1>2. CASE Edit!PressedLeftArrow
  <2>1. /\ label = "pressed_left_arrow" /\ UNCHANGED <<chTemp, chAddAtEnd, pszCurrentInput>>
        /\ label' \in {"pressed_left_arrow", "loop"}
        /\ \/ UNCHANGED <<nCursorPos, column>>
           \/ nCursorPos > 0 /\ nCursorPos' = nCursorPos - 1 /\ column' = nCursorPos'
    BY <1>2 DEF Edit!PressedLeftArrow, Edit!char, Edit!GoTo
  <2>2. nCursorPos \in 0..Width /\ column = nCursorPos /\ Len(pszCurrentInput) <= Width
    BY <2>1, FieldNow
  <2>3. nCursorPos' \in 0..Width /\ column' = nCursorPos'
    BY <2>1, <2>2, FieldNow
  <2> QED
    BY <2>1, <2>2, <2>3, MovedIsTyped, FieldNow
<1>3. CASE \E key \in Edit!Extended : Edit!Press(key)
  <2>1. PICK key \in Edit!Extended : Edit!Press(key)
    BY <1>3
  <2>2. label = "get_another_key" /\ UNCHANGED <<chTemp, chAddAtEnd, pszCurrentInput>>
    BY <2>1 DEF Edit!Press, Edit!char
  <2>3. \/ UNCHANGED <<nCursorPos, column>>
        \/ nCursorPos' = 0 /\ column' = 0
        \/ /\ nCursorPos' = Len(pszCurrentInput)
           /\ column' = IF nCursorPos = Len(pszCurrentInput) THEN column ELSE Len(pszCurrentInput)
    BY <2>1 DEF Edit!Press, Edit!Extended, Edit!AtEnd, Edit!Length
  <2>4. label' \in {"loop", "pressed_left_arrow", "pressed_right_arrow", "pressed_delete",
                    "try_to_accept"}
    BY <2>1 DEF Edit!Press, Edit!Extended, Edit!GoTo
  <2>5. nCursorPos \in 0..Width /\ column = nCursorPos /\ Len(pszCurrentInput) \in 0..Width
    BY <2>2, FieldNow
  <2>6. nCursorPos' \in 0..Width /\ column' = nCursorPos'
    BY <2>3, <2>5, FieldNow
  <2> QED
    BY <2>2, <2>4, <2>5, <2>6, MovedIsTyped, FieldNow
<1> QED
  BY <1>1, <1>2, <1>3

LEMMA WithoutOne ==
    ASSUME NEW S, NEW s \in Seq(S), NEW k \in 0..(Len(s) - 1)
    PROVE  /\ SubSeq(s, 1, k) \o SubSeq(s, k + 2, Len(s)) \in Seq(S)
           /\ Len(SubSeq(s, 1, k) \o SubSeq(s, k + 2, Len(s))) = Len(s) - 1
<1>1. SubSeq(s, 1, k) \in Seq(S) /\ Len(SubSeq(s, 1, k)) = k
  OBVIOUS
<1>2. SubSeq(s, k + 2, Len(s)) \in Seq(S) /\ Len(SubSeq(s, k + 2, Len(s))) = Len(s) - 1 - k
  OBVIOUS
<1> DEFINE a == SubSeq(s, 1, k)  b == SubSeq(s, k + 2, Len(s))
<1> HIDE DEF a, b
<1>3. a \o b \in Seq(S) /\ Len(a \o b) = Len(a) + Len(b)
  BY <1>1, <1>2 DEF a, b
<1>4. Len(a) = k /\ Len(b) = Len(s) - 1 - k /\ Len(s) \in Nat /\ k \in Nat
  BY <1>1, <1>2 DEF a, b
<1>5. Len(a \o b) = Len(s) - 1
  BY <1>3, <1>4
<1> QED
  BY <1>3, <1>5 DEF a, b

LEMMA WithOneMore ==
    ASSUME NEW S, NEW s \in Seq(S), NEW k \in 0..(Len(s) - 1), NEW c \in S
    PROVE  /\ SubSeq(s, 1, k) \o <<c>> \o SubSeq(s, k + 1, Len(s)) \in Seq(S)
           /\ Len(SubSeq(s, 1, k) \o <<c>> \o SubSeq(s, k + 1, Len(s))) = Len(s) + 1
<1>1. SubSeq(s, 1, k) \in Seq(S) /\ Len(SubSeq(s, 1, k)) = k
  OBVIOUS
<1>2. SubSeq(s, k + 1, Len(s)) \in Seq(S) /\ Len(SubSeq(s, k + 1, Len(s))) = Len(s) - k
  OBVIOUS
<1>3. <<c>> \in Seq(S) /\ Len(<<c>>) = 1
  OBVIOUS
<1> DEFINE a == SubSeq(s, 1, k)  b == SubSeq(s, k + 1, Len(s))  d == <<c>>
<1> HIDE DEF a, b, d
<1>4. a \o d \in Seq(S) /\ Len(a \o d) = Len(a) + Len(d)
  BY <1>1, <1>3 DEF a, d
<1> DEFINE e == a \o d
<1> HIDE DEF e
<1>5. e \o b \in Seq(S) /\ Len(e \o b) = Len(e) + Len(b)
  BY <1>2, <1>4 DEF b, e
<1> QED
  BY <1>1, <1>2, <1>3, <1>4, <1>5 DEF a, b, d, e

LEMMA RemovingTypes ==
    ASSUME EditInv, FieldTyped, Edit!PressedDelete \/ Edit!KillWholeLine
    PROVE  Handled(pszCurrentInput', nCursorPos', column', chTemp', chAddAtEnd', label')
<1>1. CASE Edit!PressedDelete
  <2>1. /\ label = "pressed_delete" /\ UNCHANGED <<nCursorPos, chTemp, chAddAtEnd>>
        /\ label' \in {"loop", "check_cursor_char"}
        /\ \/ UNCHANGED <<pszCurrentInput, column>>
           \/ /\ nCursorPos # Len(pszCurrentInput) /\ column' = nCursorPos
              /\ pszCurrentInput' =
                   SubSeq(pszCurrentInput, 1, nCursorPos)
                   \o SubSeq(pszCurrentInput, nCursorPos + 2, Len(pszCurrentInput))
    BY <1>1 DEF Edit!PressedDelete, Edit!char, Edit!screen, Edit!AtEnd, Edit!Length, Edit!GoTo
  <2>2. /\ pszCurrentInput \in Seq(Edit!Entered) /\ Len(pszCurrentInput) \in 0..Width
        /\ nCursorPos \in 0..Len(pszCurrentInput) /\ column = nCursorPos
        /\ nCursorPos \in 0..Width /\ Width \in Nat
    BY <2>1, FieldNow
  <2>3. CASE UNCHANGED <<pszCurrentInput, column>>
    BY <2>1, <2>2, <2>3, MovedIsTyped
  <2>4. CASE ~UNCHANGED <<pszCurrentInput, column>>
    <3>1. nCursorPos # Len(pszCurrentInput) /\ column' = nCursorPos /\ nCursorPos' = nCursorPos
      BY <2>1, <2>4
    <3>2. nCursorPos \in 0..(Len(pszCurrentInput) - 1)
      BY <2>2, <3>1
    <3>3. pszCurrentInput' \in Seq(Edit!Entered) /\ Len(pszCurrentInput') = Len(pszCurrentInput) - 1
      BY <2>1, <2>2, <2>4, <3>2, WithoutOne
    <3>4. Len(pszCurrentInput') <= Width
      BY <2>2, <3>3
    <3> QED
      BY <2>1, <2>2, <3>1, <3>3, <3>4, MovedIsTyped
  <2> QED
    BY <2>3, <2>4
<1>2. CASE Edit!KillWholeLine
  <2>1. /\ label = "kill_whole_line" /\ UNCHANGED <<chTemp, chAddAtEnd>>
        /\ nCursorPos' = 0 /\ column' = 0 /\ pszCurrentInput' = << >>
        /\ label' \in {"loop", "add_another_key"}
    BY <1>2 DEF Edit!KillWholeLine, Edit!char, Edit!GoTo
  <2>2. pszCurrentInput' \in Seq(Edit!Entered) /\ Len(pszCurrentInput') = 0
    BY <2>1
  <2>3. chTemp # Edit!NUL
    BY <2>1 DEF FieldTyped, Handled
  <2>4. label' \in Edit!Labels
    BY <2>1 DEF Edit!Labels
  <2> QED
    BY <2>1, <2>2, <2>3, <2>4, FieldNow DEF Handled
<1> QED
  BY <1>1, <1>2

LEMMA BackspaceTypes ==
    ASSUME EditInv, FieldTyped, Edit!BackspaceAgain
    PROVE  Handled(pszCurrentInput', nCursorPos', column', chTemp', chAddAtEnd', label')
<1>1. label = "backspace_again" /\ UNCHANGED <<format, nFlags, chTemp, chAddAtEnd>>
  BY DEF Edit!BackspaceAgain, Edit!char, Edit!field
<1>2. /\ pszCurrentInput \in Seq(Edit!Entered) /\ Len(pszCurrentInput) \in 0..Width
      /\ nCursorPos \in 0..Len(pszCurrentInput) /\ nCursorPos \in 0..Width /\ Width \in Nat
  BY <1>1, FieldNow
<1>3. column = nCursorPos \/ Retreat(label, nCursorPos, Len(pszCurrentInput))
  BY <1>1 DEF FieldTyped, Handled
<1>4. CASE /\ UNCHANGED <<pszCurrentInput, nCursorPos, column>>
           /\ label' \in {"loop", "get_another_key"}
  <2>1. \/ nCursorPos = 0
        \/ Edit!Is("PERMALITERAL") /\ \A pos \in 0..(nCursorPos - 1) : Edit!IsLiteral(pos)
        \/ nCursorPos # Len(pszCurrentInput)
    BY <1>2, <1>4 DEF Edit!BackspaceAgain, Edit!AtEnd, Edit!Length
  <2>2. column = nCursorPos
    BY <1>3, <2>1 DEF Retreat
  <2> QED
    BY <1>1, <1>2, <1>4, <2>2, MovedIsTyped
<1>5. CASE /\ nCursorPos > 0 /\ nCursorPos' = nCursorPos - 1 /\ column' = nCursorPos - 1
           /\ UNCHANGED pszCurrentInput /\ label' = "pressed_delete"
  <2>1. nCursorPos' \in 0..Width /\ column' = nCursorPos'
    BY <1>2, <1>5
  <2> QED
    BY <1>1, <1>2, <1>5, <2>1, MovedIsTyped
<1>6. CASE /\ nCursorPos # 0 /\ nCursorPos = Len(pszCurrentInput)
           /\ ~(Edit!Is("PERMALITERAL") /\ \A pos \in 0..(nCursorPos - 1) : Edit!IsLiteral(pos))
  <2> DEFINE u == Edit!Front(pszCurrentInput)
  <2>1. /\ nCursorPos' = Len(pszCurrentInput) - 1 /\ pszCurrentInput' = u
        /\ IF Edit!Is("PERMALITERAL") /\ Edit!IsLiteral(nCursorPos')
           THEN label' = "backspace_again" /\ column' = column
           ELSE column' = nCursorPos' /\ label' = "loop"
    BY <1>6 DEF Edit!BackspaceAgain, Edit!AtEnd, Edit!Length, Edit!screen, Edit!GoTo
  <2>2. Len(pszCurrentInput) \in 1..Width
    BY <1>2, <1>6
  <2>3. u \in Seq(Edit!Entered) /\ Len(u) = Len(pszCurrentInput) - 1
    <3>1. u = SubSeq(pszCurrentInput, 1, Len(pszCurrentInput) - 1)
      BY Zenon DEF Edit!Front
    <3>2. Len(pszCurrentInput) - 1 \in 0..Len(pszCurrentInput)
      BY <2>2
    <3> HIDE DEF u
    <3> QED
      BY <1>2, <3>1, <3>2, FirstLines
  <2> HIDE DEF u
  <2>4. nCursorPos' \in 0..Width /\ Len(u) <= Width /\ nCursorPos' = Len(u)
    <3>1. nCursorPos' = Len(pszCurrentInput) - 1 /\ nCursorPos' = Len(u)
      BY <2>1, <2>3
    <3> QED
      BY <1>2, <2>2, <3>1
  <2>5. CASE ~(Edit!Is("PERMALITERAL") /\ Edit!IsLiteral(nCursorPos'))
    BY <1>1, <2>1, <2>3, <2>4, <2>5, MovedIsTyped
  <2>6. CASE Edit!Is("PERMALITERAL") /\ Edit!IsLiteral(nCursorPos')
    <3>1. PICK pos \in 0..(nCursorPos - 1) : ~Edit!IsLiteral(pos)
      BY <1>6, <2>6
    <3>2. pos \in 0..(nCursorPos' - 1) /\ nCursorPos' > 0
      BY <1>2, <1>6, <2>1, <2>2, <2>6, <3>1
    <3>3. Retreat(label', nCursorPos', Len(u))
      BY <2>1, <2>4, <2>6, <3>1, <3>2 DEF Retreat
    <3>4. column' \in 0..Width /\ label' \in Edit!Labels
      BY <2>1, <2>6, FieldNow DEF Edit!Labels
    <3> QED
      BY <1>1, <2>1, <2>3, <2>4, <2>6, <3>3, <3>4, FieldNow DEF Handled
  <2> QED
    BY <2>5, <2>6
<1> QED
  BY <1>2, <1>4, <1>5, <1>6 DEF Edit!BackspaceAgain, Edit!text, Edit!screen, Edit!AtEnd, Edit!Length,
     Edit!GoTo

LEMMA EndingTypes ==
    ASSUME EditInv, FieldTyped, Edit!Cancel \/ Edit!NoKey \/ Edit!TryToAccept
    PROVE  Handled(pszCurrentInput', nCursorPos', column', chTemp', chAddAtEnd', label')
<1>1. UNCHANGED <<nCursorPos, column, chTemp, chAddAtEnd>>
  BY DEF Edit!Cancel, Edit!NoKey, Edit!TryToAccept, Edit!char, Edit!screen
<1>2. ASSUME label' = "done", pszCurrentInput' \in Seq(Edit!Entered),
             Len(pszCurrentInput') <= Width
      PROVE  Handled(pszCurrentInput', nCursorPos', column', chTemp', chAddAtEnd', label')
  <2>1. label' \in Edit!Labels
    BY <1>2 DEF Edit!Labels
  <2> QED
    BY <1>1, <1>2, <2>1, FieldNow DEF Handled
<1>3. CASE Edit!Cancel \/ Edit!NoKey
  <2>1. label' = "done" /\ pszCurrentInput' = szCurrentOriginalString
    BY <1>3 DEF Edit!Cancel, Edit!NoKey, Edit!GoTo
  <2> QED
    BY <1>2, <2>1 DEF FieldTyped
<1>4. CASE Edit!TryToAccept
  <2>1. label = "try_to_accept" /\ UNCHANGED <<nCursorPos, column, chTemp, chAddAtEnd>>
    BY <1>1, <1>4 DEF Edit!TryToAccept
  <2>2. \/ label' = "keep_going" /\ UNCHANGED pszCurrentInput
        \/ label' = "done" /\ pszCurrentInput' \in {<< >>, Edit!Normal}
    BY <1>4 DEF Edit!TryToAccept, Edit!GoTo
  <2>3. CASE label' = "keep_going" /\ UNCHANGED pszCurrentInput
    <3>1. label' \in Edit!Labels
      BY <2>3 DEF Edit!Labels
    <3> QED
      BY <2>1, <2>3, <3>1, QuietlyTyped, FieldNow
  <2>4. CASE label' = "done" /\ pszCurrentInput' \in {<< >>, Edit!Normal}
    <3> DEFINE t == pszCurrentInput
    <3>1. t \in Seq(Edit!Entered) /\ Len(t) \in 0..Width /\ Len(t) \in Nat /\ Width \in Nat
      BY FieldNow
    <3>2. Edit!Normal = [i \in 1..Len(t) |-> Edit!ODEditAsCharForPos(t[i], i - 1, t)]
      BY <3>1, NormalIsConversion DEF Conversion, ConvertedBy
    <3>3. ASSUME NEW i \in 1..Len(t)
          PROVE  Edit!ODEditAsCharForPos(t[i], i - 1, t) \in Edit!Entered
      <4>1. i - 1 \in 0..Width /\ t[i] \in Edit!Entered
        BY <3>1
      <4> QED
        BY <4>1, ConvertedIsEntered
    <3> HIDE DEF t
    <3>4. Edit!Normal \in Seq(Edit!Entered) /\ Len(Edit!Normal) = Len(t)
      BY <3>1, <3>2, <3>3
    <3>5. << >> \in Seq(Edit!Entered) /\ Len(<< >>) = 0
      OBVIOUS
    <3>6. Len(pszCurrentInput') <= Width
      BY <2>4, <3>1, <3>4, <3>5
    <3> QED
      BY <1>2, <2>4, <3>4, <3>5, <3>6
  <2> QED
    BY <2>2, <2>3, <2>4
<1> QED
  BY <1>3, <1>4

\* What comes next when a character was added, or the field was full.
LEMMA ContinueTypes ==
    ASSUME EditInv, FieldTyped, label = "add", Edit!Continue, UNCHANGED <<format, nFlags>>,
           pszCurrentInput' \in Seq(Edit!Entered), Len(pszCurrentInput') <= Width,
           nCursorPos' \in 0..Width, column' = nCursorPos'
    PROVE  Handled(pszCurrentInput', nCursorPos', column', chTemp', chAddAtEnd', label')
<1> DEFINE converted == Edit!ODEditAsCharForPos(chTemp, nCursorPos, pszCurrentInput)
<1>1. /\ chTemp \in Letters /\ chTemp # Edit!NUL /\ chAddAtEnd \in Letters
      /\ nCursorPos \in 0..Width /\ Width \in Nat /\ Edit!nCurrentStringLength = Width
  BY FieldNow DEF FieldTyped, Handled
<1>2. /\ \A c \in Edit!Printable : c \in Letters /\ c # Edit!NUL
      /\ \A c \in Letters : c # Edit!NUL => c \in Edit!Chars
      /\ \A c \in Edit!Chars : c \in Letters /\ c # Edit!NUL
      /\ Edit!NUL \in Letters
  BY EnteredAre DEF Letters
<1>3. converted \in Edit!Chars
  BY <1>1, <1>2, ConvertedIsEntered
<1>4. Edit!Converted = converted
  BY DEF Edit!Converted
<1> HIDE DEF converted
<1>5. /\ Edit!IsLiteral(nCursorPos') => Edit!Expected(nCursorPos') \in Edit!Printable
  BY Positions
<1>6. label' \in {"add_another_key", "check_cursor_char"}
  BY DEF Edit!Continue, Edit!GoTo
<1>7. label' \in Edit!Labels
  BY <1>6 DEF Edit!Labels
<1>8. \/ /\ Edit!IsLiteral(nCursorPos') /\ chTemp' = Edit!Expected(nCursorPos')
         /\ chAddAtEnd' = chAddAtEnd
      \/ chAddAtEnd # Edit!NUL /\ chTemp' = chAddAtEnd /\ chAddAtEnd' = Edit!NUL
      \/ chTemp' = converted /\ chAddAtEnd' = chAddAtEnd
  BY <1>4 DEF Edit!Continue
<1>9. chTemp' \in Letters /\ chTemp' # Edit!NUL /\ chAddAtEnd' \in Letters
  BY <1>1, <1>2, <1>3, <1>5, <1>8
<1> QED
  BY <1>6, <1>7, <1>9 DEF Handled

LEMMA AddingTypes ==
    ASSUME EditInv, FieldTyped, Edit!AddAtEnd \/ Edit!Insert \/ Edit!Overwrite
    PROVE  Handled(pszCurrentInput', nCursorPos', column', chTemp', chAddAtEnd', label')
<1> DEFINE c == Edit!Converted
<1>1. label = "add" /\ UNCHANGED <<format, nFlags>>
  BY DEF Edit!AddAtEnd, Edit!Insert, Edit!Overwrite, Edit!field
<1>2. /\ pszCurrentInput \in Seq(Edit!Entered) /\ Len(pszCurrentInput) \in 0..Width
      /\ nCursorPos \in 0..Len(pszCurrentInput) /\ nCursorPos \in 0..Width
      /\ column = nCursorPos /\ Edit!Length = Len(pszCurrentInput)
      /\ Width \in Nat /\ Edit!nCurrentStringLength = Width
      /\ Edit!AtEnd <=> nCursorPos = Len(pszCurrentInput)
  BY <1>1, FieldNow DEF Edit!AtEnd
<1>3. nCursorPos < Width => c \in Edit!Entered
  <2>1. nCursorPos < Width => chTemp \in Edit!Entered
    BY <1>1 DEF FieldTyped, Handled
  <2> QED
    BY <1>2, <2>1, ConvertedIsEntered DEF Edit!Converted
<1>4. /\ c \in Edit!Chars /\ c \in Letters /\ c # Edit!NUL
  <2>1. chTemp \in Edit!Chars
    BY <1>1 DEF FieldTyped, Handled, Letters
  <2>2. c \in Edit!Chars
    BY <1>2, <2>1, ConvertedIsEntered DEF Edit!Converted
  <2> HIDE DEF c
  <2> QED
    BY <2>2, EnteredAre DEF Letters
<1> HIDE DEF c
<1>5. CASE Edit!AddAtEnd
  <2>1. nCursorPos = Len(pszCurrentInput) /\ Edit!Continue
    BY <1>2, <1>5 DEF Edit!AddAtEnd
  <2>2. CASE nCursorPos < Width
    <3> DEFINE u == Append(pszCurrentInput, c)
    <3>1. pszCurrentInput' = u /\ nCursorPos' = nCursorPos + 1 /\ column' = column + 1
      BY <1>2, <1>5, <2>1, <2>2 DEF Edit!AddAtEnd, Edit!od_putch, c
    <3>2. u \in Seq(Edit!Entered) /\ Len(u) = Len(pszCurrentInput) + 1
      BY <1>2, <1>3, <2>2
    <3> HIDE DEF u
    <3>3. nCursorPos' \in 0..Width /\ Len(u) <= Width /\ column' = nCursorPos'
      BY <1>2, <2>1, <2>2, <3>1, <3>2
    <3> QED
      BY <1>1, <2>1, <3>1, <3>2, <3>3, ContinueTypes
  <2>3. CASE ~(nCursorPos < Width)
    <3>1. UNCHANGED <<pszCurrentInput, nCursorPos, column>>
      BY <1>2, <1>5, <2>3 DEF Edit!AddAtEnd, Edit!text, Edit!screen
    <3> QED
      BY <1>1, <1>2, <2>1, <3>1, ContinueTypes
  <2> QED
    BY <2>2, <2>3
<1>6. CASE Edit!Insert
  <2>1. nCursorPos # Len(pszCurrentInput)
    BY <1>2, <1>6 DEF Edit!Insert
  <2>2. CASE Len(pszCurrentInput) < Width
    <3> DEFINE u == SubSeq(pszCurrentInput, 1, nCursorPos) \o <<c>>
                    \o SubSeq(pszCurrentInput, nCursorPos + 1, Len(pszCurrentInput))
    <3>1. /\ pszCurrentInput' = u /\ nCursorPos' = nCursorPos + 1 /\ column' = nCursorPos + 1
          /\ Edit!Continue
      BY <1>2, <1>6, <2>2 DEF Edit!Insert, c
    <3>2. nCursorPos \in 0..(Len(pszCurrentInput) - 1) /\ nCursorPos < Width
      BY <1>2, <2>1
    <3>3. u \in Seq(Edit!Entered) /\ Len(u) = Len(pszCurrentInput) + 1
      BY <1>2, <1>3, <3>2, WithOneMore
    <3> HIDE DEF u
    <3>4. nCursorPos' \in 0..Width /\ Len(u) <= Width /\ column' = nCursorPos'
      BY <1>2, <2>2, <3>1, <3>2, <3>3
    <3> QED
      BY <1>1, <3>1, <3>3, <3>4, ContinueTypes
  <2>3. CASE ~(Len(pszCurrentInput) < Width)
    <3>1. /\ UNCHANGED <<pszCurrentInput, nCursorPos, column, chAddAtEnd>>
          /\ chTemp' = c /\ label' = "get_another_key"
      BY <1>2, <1>6, <2>3 DEF Edit!Insert, Edit!text, Edit!screen, Edit!GoTo, c
    <3>2. label' \in Edit!Labels
      BY <3>1 DEF Edit!Labels
    <3>3. chAddAtEnd' \in Letters
      BY <3>1, FieldNow
    <3> QED
      BY <1>1, <1>4, <3>1, <3>2, <3>3, QuietlyTyped
  <2> QED
    BY <2>2, <2>3
<1>7. CASE Edit!Overwrite
  <2> DEFINE u == [pszCurrentInput EXCEPT ![nCursorPos + 1] = c]
  <2>1. /\ nCursorPos # Len(pszCurrentInput) /\ Edit!Continue
        /\ pszCurrentInput' = u /\ nCursorPos' = nCursorPos + 1 /\ column' = column + 1
    BY <1>2, <1>7 DEF Edit!Overwrite, Edit!od_putch, c
  <2>2. nCursorPos \in 0..(Len(pszCurrentInput) - 1) /\ nCursorPos < Width
    BY <1>2, <2>1
  <2>3. u \in Seq(Edit!Entered) /\ Len(u) = Len(pszCurrentInput)
    BY <1>2, <1>3, <2>2
  <2> HIDE DEF u
  <2>4. nCursorPos' \in 0..Width /\ Len(u) <= Width /\ column' = nCursorPos'
    BY <1>2, <2>1, <2>2, <2>3
  <2> QED
    BY <1>1, <2>1, <2>3, <2>4, ContinueTypes
<1> QED
  BY <1>5, <1>6, <1>7

LEMMA ConversionTypes ==
    ASSUME EditInv, FieldTyped, Edit!CheckCursorChar
    PROVE  Handled(pszCurrentInput', nCursorPos', column', chTemp', chAddAtEnd', label')
<1>1. /\ label = "check_cursor_char" /\ label' = "loop" /\ UNCHANGED <<nCursorPos, chAddAtEnd>>
  BY DEF Edit!CheckCursorChar, Edit!GoTo
<1>2. /\ pszCurrentInput \in Seq(Edit!Entered) /\ Len(pszCurrentInput) \in 0..Width
      /\ nCursorPos \in 0..Len(pszCurrentInput) /\ nCursorPos \in 0..Width
      /\ column = nCursorPos /\ Width \in Nat
      /\ Edit!AtEnd <=> nCursorPos = Len(pszCurrentInput)
  BY <1>1, FieldNow DEF Edit!AtEnd
<1>3. label' \in Edit!Labels
  BY <1>1 DEF Edit!Labels
<1>4. CASE UNCHANGED <<chTemp, pszCurrentInput, column>>
  BY <1>1, <1>3, <1>4, QuietlyTyped, FieldNow
<1>5. CASE ~UNCHANGED <<chTemp, pszCurrentInput, column>>
  <2> DEFINE d == pszCurrentInput[nCursorPos + 1]
             c == Edit!ODEditAsCharForPos(d, nCursorPos, pszCurrentInput)
             u == [pszCurrentInput EXCEPT ![nCursorPos + 1] = c]
  <2>1. /\ nCursorPos # Len(pszCurrentInput) /\ chTemp' = c /\ pszCurrentInput' = u
        /\ column' \in {column, nCursorPos}
    BY <1>2, <1>5 DEF Edit!CheckCursorChar, Edit!screen
  <2>2. nCursorPos \in 0..(Len(pszCurrentInput) - 1)
    BY <1>2, <2>1
  <2>3. d \in Edit!Entered
    BY <1>2, <2>2
  <2>4. c \in Edit!Entered
    BY <1>2, <2>3, ConvertedIsEntered
  <2> HIDE DEF c
  <2>5. u \in Seq(Edit!Entered) /\ Len(u) = Len(pszCurrentInput)
    BY <1>2, <2>2, <2>4
  <2> HIDE DEF u, d
  <2>6. chTemp' \in Letters /\ chTemp' # Edit!NUL
    BY <2>1, <2>4, EnteredAre
  <2>7. Len(pszCurrentInput') <= Width /\ nCursorPos' \in 0..Width /\ column' = nCursorPos'
    BY <1>1, <1>2, <2>1, <2>5
  <2>8. chAddAtEnd' \in Letters
    BY <1>1, FieldNow
  <2> QED
    BY <1>1, <1>3, <2>1, <2>5, <2>6, <2>7, <2>8 DEF Handled
<1> QED
  BY <1>4, <1>5

LEMMA FieldTypeStep ==
    ASSUME EditInv, FieldTyped, Edit!EditNext
    PROVE  FieldTyped'
<1>1. Handled(pszCurrentInput', nCursorPos', column', chTemp', chAddAtEnd', label')
  BY QuietTypes, CursorTypes, RemovingTypes, BackspaceTypes, AddingTypes, ConversionTypes,
     EndingTypes DEF Edit!EditNext, Edit!EditStep
<1> QED
  BY <1>1, HandledIsTyped

LEMMA FieldStays ==
    ASSUME FieldTyped, UNCHANGED editVars
    PROVE  FieldTyped'
<1>1. /\ UNCHANGED <<format, nFlags, pszCurrentInput, szCurrentOriginalString, nCursorPos>>
      /\ UNCHANGED <<nKeysPressed, bCheckAutoEnter, wToReturn>>
      /\ UNCHANGED <<bInsertMode, chTemp, chAddAtEnd, label, shown, column>>
  BY DEF editVars
<1> QED
  BY <1>1 DEF FieldTyped, Counters, Handled, Retreat, Width, Edit!Is, Edit!IsLiteral, Edit!Entered,
     Edit!Expected, Edit!nCurrentStringLength

LEMMA FieldTypedInit == ApplicationInit => FieldTyped
<1> SUFFICES ASSUME ApplicationInit PROVE FieldTyped
  OBVIOUS
<1>1. /\ label = "loop" /\ chTemp = Edit!NUL /\ chAddAtEnd = Edit!NUL
      /\ nKeysPressed = 0 /\ bCheckAutoEnter = FALSE /\ wToReturn = "none"
  BY DEF ApplicationInit, Edit!Init
<1>2. PICK start : /\ start \in {<< >>, <<"a", "-">>, <<"1", "-", "1", "1", "1">>}
                   /\ Edit!Begin(start)
  BY DEF ApplicationInit, Edit!Init
<1>3. Width \in Nat \ {0} /\ Edit!nCurrentStringLength = Width
  BY EditInvInit, FieldIsWide
<1>4. start \in Seq(Edit!Entered)
  <2>1. "a" \in Edit!Entered /\ "-" \in Edit!Entered /\ "1" \in Edit!Entered
    BY EnteredAre DEF Edit!Printable, Edit!Digits, Edit!Lower
  <2> DEFINE S == Edit!Entered
  <2> HIDE DEF S
  <2>2. << >> \in Seq(S) /\ <<"a", "-">> \in Seq(S)
    BY <2>1 DEF S
  <2>3. <<"1", "-", "1", "1", "1">> \in Seq(S)
    BY <2>1 DEF S
  <2> QED
    BY <1>2, <2>2, <2>3 DEF S
<1> DEFINE cut == IF Edit!Is("EDIT_STRING")
                  THEN SubSeq(start, 1, IF Len(start) > Width THEN Width ELSE Len(start))
                  ELSE << >>
           cell(i) == IF i <= Len(cut) THEN cut[i] ELSE Edit!Background(i - 1)
<1>5. Edit!Begin(start)
  BY <1>2
<1>6. /\ pszCurrentInput = cut /\ szCurrentOriginalString = cut
      /\ nCursorPos = Len(cut) /\ column = Len(cut)
      /\ shown = [i \in 1..(Width + 1) |-> cell(i)]
  BY <1>3, <1>5 DEF Edit!Begin
<1>7. DOMAIN shown = 1..(Width + 1)
  BY <1>6
<1>8. cut \in Seq(Edit!Entered) /\ Len(cut) \in 0..Width
  <2> DEFINE n == IF Len(start) > Width THEN Width ELSE Len(start)
  <2>1. n \in 0..Len(start) /\ n <= Width
    BY <1>3, <1>4
  <2> HIDE DEF n
  <2>2. SubSeq(start, 1, n) \in Seq(Edit!Entered) /\ Len(SubSeq(start, 1, n)) = n
    BY <1>4, <2>1, FirstLines
  <2>3. << >> \in Seq(Edit!Entered) /\ Len(<< >>) = 0
    OBVIOUS
  <2>4. cut = SubSeq(start, 1, n) \/ cut = << >>
    BY DEF n
  <2> HIDE DEF cut
  <2>5. CASE cut = SubSeq(start, 1, n)
    <3>1. cut \in Seq(Edit!Entered) /\ Len(cut) = n
      BY <2>2, <2>5, Zenon
    <3> QED
      BY <1>3, <2>1, <3>1
  <2>6. CASE cut = << >>
    <3>1. cut \in Seq(Edit!Entered) /\ Len(cut) = 0
      BY <2>3, <2>6, Zenon
    <3> QED
      BY <1>3, <3>1
  <2> QED
    BY <2>4, <2>5, <2>6
<1> HIDE DEF cut
<1>9. label \in Edit!Labels /\ Edit!NUL \in Letters
  BY <1>1 DEF Edit!Labels, Letters
<1>10. Handled(pszCurrentInput, nCursorPos, column, chTemp, chAddAtEnd, label)
  BY <1>1, <1>3, <1>6, <1>8, <1>9 DEF Handled
<1>11. Counters
  <2>1. nKeysPressed \in 0..2 /\ wToReturn \in {"none", "accept", "previous", "next", "cancel"}
    BY <1>1
  <2>2. bCheckAutoEnter \in BOOLEAN
    BY <1>1, Zenon
  <2> QED
    BY <2>1, <2>2 DEF Counters
<1> QED
  BY <1>6, <1>7, <1>8, <1>10, <1>11 DEF FieldTyped

LEMMA FieldIsTyped ==
    ASSUME EditInv, FieldTyped
    PROVE  Edit!EditTypeOK
<1>1. bInsertMode \in BOOLEAN /\ Width \in Nat /\ Edit!nCurrentStringLength = Width
  BY FieldIsWide DEF EditInv
<1> QED
  BY <1>1 DEF FieldTyped, Counters, Handled, Letters, Edit!EditTypeOK, Edit!Length

---------------------------------------------------------------------------
(* The drop file.                                                          *)

\* The tables that od_exit writes from are those that od_init reads into.
LEMMA SameTables ==
    /\ Drop!WritesCHAINTXT = Drop!ReadsCHAINTXT
    /\ Drop!WritesGAP = Drop!ReadsGAP
    /\ Drop!WritesWILDCAT = Drop!ReadsWILDCAT
    /\ Drop!WritesDRWY = Drop!ReadsDRWY
    /\ Drop!WritesTRIBBSSYS = Drop!ReadsTRIBBSSYS
    /\ Drop!ReadsSFDOORSDAT = Drop!WritesSFDOORSDAT \o Drop!WritesSFDOORSDATTail
<1>1. Drop!WritesCHAINTXT = Drop!ReadsCHAINTXT
  BY Zenon DEF Drop!WritesCHAINTXT, Drop!ReadsCHAINTXT
<1>2. Drop!WritesGAP = Drop!ReadsGAP
  BY Zenon DEF Drop!WritesGAP, Drop!ReadsGAP
<1>3. Drop!WritesWILDCAT = Drop!ReadsWILDCAT
  BY <1>2, Zenon DEF Drop!WritesWILDCAT, Drop!ReadsWILDCAT
<1>4. Drop!WritesDRWY = Drop!ReadsDRWY
  BY Zenon DEF Drop!WritesDRWY, Drop!ReadsDRWY
<1>5. Drop!WritesTRIBBSSYS = Drop!ReadsTRIBBSSYS
  BY Zenon DEF Drop!WritesTRIBBSSYS, Drop!ReadsTRIBBSSYS
<1>6. Drop!ReadsSFDOORSDAT = Drop!WritesSFDOORSDAT \o Drop!WritesSFDOORSDATTail
  BY Zenon DEF Drop!ReadsSFDOORSDAT, Drop!WritesSFDOORSDAT, Drop!WritesSFDOORSDATTail
<1> QED
  BY <1>1, <1>2, <1>3, <1>4, <1>5, <1>6

\* What is behind the lines of the short form of DOOR.SYS.
LongForm ==
    <<"user_birthday", "11", "12", "sysop_name", "user_handle", "event_starttime",
      "user_error_free", "7", "13", "14", "15", "16", "user_logintime", "user_lasttime", "18",
      "19", "user_upk", "user_downk", "user_comment", "20", "user_messages">>

Tables ==
    {Drop!ReadsCHAINTXT, Drop!ReadsGAP, LongForm, Drop!ReadsDRWY, Drop!WritesSFDOORSDAT,
     Drop!WritesSFDOORSDATTail, Drop!ReadsTRIBBSSYS}
Text == UNION {{t[i] : i \in 1..Len(t)} : t \in Tables}

LEMMA TablesAreLists ==
    /\ Drop!ReadsCHAINTXT \in Seq(Text) /\ Drop!ReadsGAP \in Seq(Text)
    /\ LongForm \in Seq(Text) /\ Drop!ReadsDRWY \in Seq(Text)
    /\ Drop!ReadsTRIBBSSYS \in Seq(Text) /\ Drop!WritesSFDOORSDAT \in Seq(Text)
    /\ Drop!WritesSFDOORSDATTail \in Seq(Text)
<1>1. \A t \in Tables : \A i \in 1..Len(t) : t[i] \in Text
  BY DEF Text
<1> USE DEF Tables
<1>2. \A i \in 1..Len(Drop!ReadsCHAINTXT) : Drop!ReadsCHAINTXT[i] \in Text
  BY <1>1
<1>3. \A i \in 1..Len(Drop!ReadsGAP) : Drop!ReadsGAP[i] \in Text
  BY <1>1
<1>4. \A i \in 1..Len(LongForm) : LongForm[i] \in Text
  BY <1>1
<1>5. \A i \in 1..Len(Drop!ReadsDRWY) : Drop!ReadsDRWY[i] \in Text
  BY <1>1
<1>6. \A i \in 1..Len(Drop!ReadsTRIBBSSYS) : Drop!ReadsTRIBBSSYS[i] \in Text
  BY <1>1
<1>7. \A i \in 1..Len(Drop!WritesSFDOORSDAT) : Drop!WritesSFDOORSDAT[i] \in Text
  BY <1>1
<1>8. \A i \in 1..Len(Drop!WritesSFDOORSDATTail) : Drop!WritesSFDOORSDATTail[i] \in Text
  BY <1>1
<1> HIDE DEF Tables
<1>12. Drop!ReadsCHAINTXT \in Seq(Text)
  BY <1>2 DEF Drop!ReadsCHAINTXT
<1>13. Drop!ReadsGAP \in Seq(Text)
  BY <1>3 DEF Drop!ReadsGAP
<1>14. LongForm \in Seq(Text)
  BY <1>4 DEF LongForm
<1>15. Drop!ReadsDRWY \in Seq(Text)
  BY <1>5 DEF Drop!ReadsDRWY
<1>16. Drop!ReadsTRIBBSSYS \in Seq(Text)
  BY <1>6 DEF Drop!ReadsTRIBBSSYS
<1>17. Drop!WritesSFDOORSDAT \in Seq(Text)
  BY <1>7 DEF Drop!WritesSFDOORSDAT
<1>18. Drop!WritesSFDOORSDATTail \in Seq(Text)
  BY <1>8 DEF Drop!WritesSFDOORSDATTail
<1> QED
  BY <1>12, <1>13, <1>14, <1>15, <1>16, <1>17, <1>18

LEMMA Lengths ==
    /\ Len(Drop!WritesSFDOORSDAT) = 32 /\ Len(Drop!WritesSFDOORSDATTail) = 7
    /\ Len(Drop!ReadsGAP) = 31 /\ Len(LongForm) = 21
<1>1. Len(Drop!WritesSFDOORSDAT) = 32
  BY DEF Drop!WritesSFDOORSDAT
<1>2. Len(Drop!WritesSFDOORSDATTail) = 7
  BY DEF Drop!WritesSFDOORSDATTail
<1>3. Len(Drop!ReadsGAP) = 31
  BY DEF Drop!ReadsGAP
<1>4. Len(LongForm) = 21
  BY DEF LongForm
<1> QED
  BY <1>1, <1>2, <1>3, <1>4

\* A list that another follows.
LEMMA Behind ==
    ASSUME NEW S, NEW s \in Seq(S), NEW t \in Seq(S)
    PROVE  /\ s \o t \in Seq(S) /\ Len(s \o t) = Len(s) + Len(t)
           /\ \A i \in 1..Len(s) : (s \o t)[i] = s[i]
           /\ \A i \in (Len(s) + 1)..(Len(s) + Len(t)) : (s \o t)[i] = t[i - Len(s)]
BY ConcatProperties

LEMMA LongFormIsBehind ==
    /\ Drop!ReadsWILDCAT \in Seq(Text) /\ Len(Drop!ReadsWILDCAT) = 52
    /\ \A i \in 1..31 : Drop!ReadsWILDCAT[i] = Drop!ReadsGAP[i]
<1>1. Drop!ReadsWILDCAT = Drop!ReadsGAP \o LongForm
  BY Zenon DEF Drop!ReadsWILDCAT, LongForm
<1>2. /\ Drop!ReadsGAP \o LongForm \in Seq(Text)
      /\ Len(Drop!ReadsGAP \o LongForm) = Len(Drop!ReadsGAP) + Len(LongForm)
      /\ \A i \in 1..Len(Drop!ReadsGAP) :
            (Drop!ReadsGAP \o LongForm)[i] = Drop!ReadsGAP[i]
  BY TablesAreLists, Behind
<1>3. Drop!ReadsWILDCAT \in Seq(Text)
  BY <1>1, <1>2, Zenon
<1>4. Len(Drop!ReadsWILDCAT) = Len(Drop!ReadsGAP) + Len(LongForm)
  BY <1>1, <1>2, Zenon
<1>5. \A i \in 1..Len(Drop!ReadsGAP) : Drop!ReadsWILDCAT[i] = Drop!ReadsGAP[i]
  BY <1>1, <1>2, Zenon
<1> QED
  BY <1>3, <1>4, <1>5, Lengths

LEMMA SFDoorsLines ==
    /\ Drop!ReadsSFDOORSDAT \in Seq(Text) /\ Len(Drop!ReadsSFDOORSDAT) = 39
    /\ \A i \in 1..32 : Drop!ReadsSFDOORSDAT[i] = Drop!WritesSFDOORSDAT[i]
    /\ \A i \in 33..39 : Drop!ReadsSFDOORSDAT[i] = Drop!WritesSFDOORSDATTail[i - 32]
<1> DEFINE short == Drop!WritesSFDOORSDAT
           tail == Drop!WritesSFDOORSDATTail
<1>1. Drop!ReadsSFDOORSDAT = short \o tail
  BY SameTables
<1>2. /\ short \o tail \in Seq(Text) /\ Len(short \o tail) = Len(short) + Len(tail)
      /\ \A i \in 1..Len(short) : (short \o tail)[i] = short[i]
      /\ \A i \in (Len(short) + 1)..(Len(short) + Len(tail)) :
            (short \o tail)[i] = tail[i - Len(short)]
  BY TablesAreLists, Behind
<1>3. Len(short) = 32 /\ Len(tail) = 7
  BY Lengths
<1> HIDE DEF short, tail
<1>4. Drop!ReadsSFDOORSDAT \in Seq(Text) /\ Len(Drop!ReadsSFDOORSDAT) = Len(short) + Len(tail)
  BY <1>1, <1>2, Zenon
<1>5. \A i \in 1..Len(short) : Drop!ReadsSFDOORSDAT[i] = short[i]
  BY <1>1, <1>2, Zenon
<1>6. \A i \in (Len(short) + 1)..(Len(short) + Len(tail)) :
         Drop!ReadsSFDOORSDAT[i] = tail[i - Len(short)]
  BY <1>1, <1>2, Zenon
<1>7. \A i \in 1..32 : Drop!ReadsSFDOORSDAT[i] = short[i]
  BY <1>3, <1>5
<1>8. \A i \in 33..39 : Drop!ReadsSFDOORSDAT[i] = tail[i - 32]
  BY <1>3, <1>6
<1> QED
  BY <1>3, <1>4, <1>7, <1>8 DEF short, tail

\* The strings that keep the first and the last of the lines that are added
\* behind SFDOORS.DAT keep no line of it before them.
LEMMA OwnStrings ==
    /\ Drop!ReadsSFDOORSDAT[33] = "15" /\ Drop!ReadsSFDOORSDAT[39] = "18"
    /\ Drop!ReadsSFDOORSDAT[36] = "17"
    /\ \A i \in 1..32 : Drop!ReadsSFDOORSDAT[i] # "15"
    /\ \A i \in 1..38 : Drop!ReadsSFDOORSDAT[i] # "18"
    /\ \A i \in 37..38 : Drop!ReadsSFDOORSDAT[i] \notin Drop!Info
<1>1. \A i \in 1..32 : Drop!WritesSFDOORSDAT[i] # "15" /\ Drop!WritesSFDOORSDAT[i] # "18"
  BY DEF Drop!WritesSFDOORSDAT
<1>2. Drop!WritesSFDOORSDATTail = <<"15", "user_rip", "user_wantchat", "17", "od_com_irq", "od_com_address", "18">>
  BY Zenon DEF Drop!WritesSFDOORSDATTail
<1>3. /\ Drop!ReadsSFDOORSDAT[33] = "15" /\ Drop!ReadsSFDOORSDAT[39] = "18"
      /\ Drop!ReadsSFDOORSDAT[34] = "user_rip"
      /\ Drop!ReadsSFDOORSDAT[35] = "user_wantchat"
      /\ Drop!ReadsSFDOORSDAT[36] = "17"
      /\ Drop!ReadsSFDOORSDAT[37] = "od_com_irq"
      /\ Drop!ReadsSFDOORSDAT[38] = "od_com_address"
  <2>1. \A i \in 33..39 : Drop!ReadsSFDOORSDAT[i] = Drop!WritesSFDOORSDATTail[i - 32]
    BY SFDoorsLines
  <2> QED
    BY <1>2, <2>1
<1>4. "od_com_irq" \notin Drop!Info /\ "od_com_address" \notin Drop!Info
  BY DEF Drop!Info
<1>5. \A i \in 1..32 : Drop!ReadsSFDOORSDAT[i] # "15" /\ Drop!ReadsSFDOORSDAT[i] # "18"
  BY <1>1, SFDoorsLines
<1>6. \A i \in 33..38 : Drop!ReadsSFDOORSDAT[i] # "18"
  <2> SUFFICES ASSUME NEW i \in 33..38 PROVE Drop!ReadsSFDOORSDAT[i] # "18"
    OBVIOUS
  <2>1. i = 33 \/ i = 34 \/ i = 35 \/ i = 36 \/ i = 37 \/ i = 38
    OBVIOUS
  <2> QED
    BY <1>3, <2>1
<1>7. \A i \in 1..38 : Drop!ReadsSFDOORSDAT[i] # "18"
  BY <1>5, <1>6
<1>8. \A i \in 37..38 : Drop!ReadsSFDOORSDAT[i] \notin Drop!Info
  <2> SUFFICES ASSUME NEW i \in 37..38 PROVE Drop!ReadsSFDOORSDAT[i] \notin Drop!Info
    OBVIOUS
  <2>1. i = 37 \/ i = 38
    OBVIOUS
  <2> QED
    BY <1>3, <1>4, <2>1
<1> QED
  BY <1>3, <1>5, <1>7, <1>8

LEMMA FormatsAre ==
    /\ DOMAIN Drop!Format = {"CHAINTXT", "DOORSYS", "DRWY", "SFDOORSDAT", "TRIBBSSYS"}
    /\ Drop!Format["CHAINTXT"] = Drop!ReadsCHAINTXT
    /\ Drop!Format["DOORSYS"] = Drop!ReadsWILDCAT
    /\ Drop!Format["DRWY"] = Drop!ReadsDRWY
    /\ Drop!Format["SFDOORSDAT"] = Drop!ReadsSFDOORSDAT
    /\ Drop!Format["TRIBBSSYS"] = Drop!ReadsTRIBBSSYS
BY DEF Drop!Format

\* The lines of a complete file like this one, and what stands in one when the
\* BBS gets the file back.
Layout == Drop!Format[dropFile.type]
Returned(i) == <<Layout[i], kept[Drop!Source(Layout[i])]>>

FileRead ==
    /\ dropFile.type \in DOMAIN Drop!Format
    /\ dropFile.lines \in Drop!Needed(dropFile.type)..Len(Layout)
    /\ od_info_type =
          IF dropFile.type # "DOORSYS" THEN dropFile.type
          ELSE IF dropFile.lines = Len(Drop!ReadsWILDCAT) THEN "WILDCAT" ELSE "GAP"
    /\ DOMAIN kept = Drop!Names
    /\ \A n \in Drop!Names :
          kept[n] = "none" <=> ~(\E i \in 1..dropFile.lines : Layout[i] = n)

\* A line that was not read is written if it is a member of od_control, and only
\* the last line can be one that is not written.
Given(i) ==
    \/ kept[Layout[i]] # "none"
    \/ Layout[i] \notin Drop!Info
    \/ i = Len(Drop!Written) /\ i > dropFile.lines

LEMMA LineIsNamed ==
    ASSUME dropFile.type \in DOMAIN Drop!Format, NEW i \in 1..Len(Layout)
    PROVE  Layout[i] \in Drop!Names
BY DEF Drop!Names, Layout

LEMMA LayoutIsList ==
    ASSUME dropFile.type \in DOMAIN Drop!Format
    PROVE  Layout \in Seq(Text)
BY FormatsAre, TablesAreLists, LongFormIsBehind, SFDoorsLines DEF Layout

LEMMA NeededIsNumber ==
    ASSUME dropFile.type \in DOMAIN Drop!Format
    PROVE  Drop!Needed(dropFile.type) \in Nat
<1>1. Len(Layout) \in Nat
  BY LayoutIsList
<1>2. dropFile.type = "DOORSYS" => Drop!Needed(dropFile.type) = 31
  BY Lengths DEF Drop!Needed
<1>3. dropFile.type = "SFDOORSDAT" => Drop!Needed(dropFile.type) = 32
  BY Lengths DEF Drop!Needed
<1>4. dropFile.type \notin {"DOORSYS", "SFDOORSDAT"} => Drop!Needed(dropFile.type) = Len(Layout)
  BY DEF Drop!Needed, Layout
<1> QED
  BY <1>1, <1>2, <1>3, <1>4

LEMMA ReadIsGiven ==
    ASSUME FileRead, NEW i \in 1..dropFile.lines
    PROVE  Given(i)
<1>1. Len(Layout) \in Nat
  BY LayoutIsList DEF FileRead
<1>2. Drop!Needed(dropFile.type) \in Nat
  BY NeededIsNumber DEF FileRead
<1>3. i \in 1..Len(Layout) /\ i \in 1..dropFile.lines
  BY <1>1, <1>2 DEF FileRead
<1>4. Layout[i] \in Drop!Names
  BY <1>3, LineIsNamed DEF FileRead
<1> QED
  BY <1>3, <1>4 DEF FileRead, Given

\* Every line that is written is one of the format and in its place.
LEMMA WrittenInPlace ==
    ASSUME FileRead, ~Drop!Disarranged
    PROVE  /\ Len(Drop!Written) \in Nat /\ dropFile.lines \in Nat
           /\ dropFile.lines <= Len(Drop!Written) /\ Len(Drop!Written) <= Len(Layout)
           /\ \A i \in 1..Len(Drop!Written) : Drop!Written[i] = Layout[i] /\ Given(i)
<1> DEFINE Claim ==
              /\ Len(Drop!Written) \in Nat /\ dropFile.lines \in Nat
              /\ dropFile.lines <= Len(Drop!Written) /\ Len(Drop!Written) <= Len(Layout)
              /\ \A i \in 1..Len(Drop!Written) : Drop!Written[i] = Layout[i] /\ Given(i)
<1>1. ASSUME Drop!Written = Layout, dropFile.lines = Len(Layout) PROVE Claim
  <2>1. Len(Layout) \in Nat
    BY LayoutIsList DEF FileRead
  <2>2. \A i \in 1..Len(Layout) : Given(i)
    BY <1>1, ReadIsGiven
  <2> QED
    BY <1>1, <2>1, <2>2
<1>2. CASE dropFile.type \in {"CHAINTXT", "DRWY", "TRIBBSSYS"}
  <2>1. od_info_type = dropFile.type
    BY <1>2 DEF FileRead
  <2>2. Drop!Written = Layout
    BY <1>2, <2>1, FormatsAre, SameTables DEF Layout, Drop!Written
  <2>3. Drop!Needed(dropFile.type) = Len(Layout)
    BY <1>2 DEF Drop!Needed, Layout
  <2>4. dropFile.lines = Len(Layout)
    BY <2>3, LayoutIsList DEF FileRead
  <2> QED
    BY <1>1, <2>2, <2>4
<1>3. CASE dropFile.type = "DOORSYS"
  <2>1. Layout = Drop!ReadsWILDCAT /\ Len(Layout) = 52
    BY <1>3, FormatsAre, LongFormIsBehind DEF Layout
  <2>2. Drop!Needed(dropFile.type) = 31
    BY <1>3, Lengths DEF Drop!Needed
  <2>3. dropFile.lines \in 31..52
    BY <2>1, <2>2 DEF FileRead
  <2>4. CASE dropFile.lines = 52
    <3>1. od_info_type = "WILDCAT"
      BY <1>3, <2>4, LongFormIsBehind DEF FileRead
    <3>2. Drop!Written = Layout
      BY <2>1, <3>1, SameTables DEF Drop!Written
    <3> QED
      BY <1>1, <2>1, <2>4, <3>2
  <2>5. CASE dropFile.lines # 52
    <3>1. od_info_type = "GAP"
      BY <1>3, <2>5, LongFormIsBehind DEF FileRead
    <3>2. dropFile.lines = 31
      BY <2>3, <3>1, Lengths DEF Drop!Disarranged
    <3>3. Drop!Written = Drop!ReadsGAP
      BY <3>1, SameTables DEF Drop!Written
    <3>4. \A i \in 1..31 : Given(i)
      BY <3>2, ReadIsGiven
    <3>5. \A i \in 1..31 : Layout[i] = Drop!ReadsGAP[i]
      BY <2>1, LongFormIsBehind
    <3>6. Len(Drop!Written) = 31
      BY <3>3, Lengths
    <3> QED
      BY <2>1, <3>2, <3>3, <3>4, <3>5, <3>6
  <2> QED
    BY <2>4, <2>5
<1>4. CASE dropFile.type = "SFDOORSDAT"
  <2>1. Layout = Drop!ReadsSFDOORSDAT /\ Len(Layout) = 39
    BY <1>4, FormatsAre, SFDoorsLines DEF Layout
  <2>2. Drop!Needed(dropFile.type) = 32
    BY <1>4, Lengths DEF Drop!Needed
  <2>3. od_info_type = "SFDOORSDAT"
    BY <1>4 DEF FileRead
  <2>4. dropFile.lines \in 32..39 /\ dropFile.lines \notin 33..35
    BY <2>1, <2>2, <2>3 DEF FileRead, Drop!Disarranged
  <2>5. Layout[33] = "15" /\ \A i \in 1..32 : Layout[i] # "15"
    BY <2>1, OwnStrings
  <2>6. Layout[33] \in Drop!Names
    BY <2>1, LineIsNamed DEF FileRead
  <2>7. kept["15"] = "none" <=> ~(\E i \in 1..dropFile.lines : Layout[i] = "15")
    BY <2>5, <2>6 DEF FileRead
  <2>8. CASE dropFile.lines = 32
    <3>1. kept["15"] = "none"
      BY <2>5, <2>7, <2>8
    <3>2. Drop!Written = Drop!WritesSFDOORSDAT \o << >>
      BY <2>3, <3>1 DEF Drop!Written
    <3>3. Drop!Written = Drop!WritesSFDOORSDAT
      BY <3>2, TablesAreLists, ConcatEmptySeq
    <3>4. \A i \in 1..32 : Layout[i] = Drop!WritesSFDOORSDAT[i]
      BY <2>1, SFDoorsLines
    <3>5. \A i \in 1..32 : Given(i)
      BY <2>8, ReadIsGiven
    <3>6. Len(Drop!Written) = 32
      BY <3>3, Lengths
    <3> QED
      BY <2>1, <2>8, <3>3, <3>4, <3>5, <3>6
  <2>9. CASE dropFile.lines \in 36..39
    <3>1. kept["15"] # "none"
      BY <2>5, <2>7, <2>9
    <3>2. Drop!Written = Drop!WritesSFDOORSDAT \o Drop!WritesSFDOORSDATTail
      BY <2>3, <3>1 DEF Drop!Written
    <3>3. Drop!Written = Layout
      BY <2>1, <3>2, SameTables
    <3>4. \A i \in 1..dropFile.lines : Given(i)
      BY ReadIsGiven
    <3>5. \A i \in 37..38 : Given(i)
      BY <2>1, OwnStrings DEF Given
    <3>6. dropFile.lines < 39 => Given(39)
      BY <2>1, <2>9, <3>3 DEF Given
    <3>7. \A i \in 1..39 : i \in 1..dropFile.lines \/ i \in 37..38 \/ (dropFile.lines < 39 /\ i = 39)
      BY <2>9
    <3>8. \A i \in 1..39 : Given(i)
      BY <3>4, <3>5, <3>6, <3>7
    <3>9. Len(Drop!Written) = 39 /\ \A i \in 1..39 : Drop!Written[i] = Layout[i]
      BY <2>1, <3>3, Zenon
    <3> QED
      BY <2>1, <2>9, <3>8, <3>9
  <2>10. dropFile.lines = 32 \/ dropFile.lines \in 36..39
    BY <2>4
  <2> QED
    BY <2>8, <2>9, <2>10, Zenon
<1> QED
  BY <1>2, <1>3, <1>4, FormatsAre DEF FileRead

\* What is in the file so far: the first lines of the format, with their values,
\* all of those that were to be written unless the writer has failed.
Output ==
    /\ out \in Seq({Returned(i) : i \in 1..Len(Layout)})
    /\ line \in Nat /\ Len(out) <= line /\ line <= Len(Drop!Written)
    /\ \A i \in 1..Len(out) : out[i] = Returned(i)
    /\ nErrorCode \/ Len(out) = line \/ (line = Len(Drop!Written) /\ dropFile.lines <= Len(out))
    /\ stage = "closed" => nErrorCode \/ line = Len(Drop!Written)

FileInv ==
    /\ dropFile \in Files
    /\ stage \in {"init", "running", "failed", "writing", "closed"}
    /\ stage \in {"init", "running", "failed"} => out = << >> /\ line = 0
    /\ stage \in {"running", "writing", "closed"} => FileRead
    /\ stage \in {"writing", "closed"} /\ ~Drop!Disarranged => Output

LEMMA LinePrinted ==
    ASSUME FileRead, ~Drop!Disarranged, NEW i \in 1..Len(Drop!Written)
    PROVE  \/ Drop!Printed(Drop!Written[i]) = <<Returned(i)>>
           \/ /\ Drop!Printed(Drop!Written[i]) = << >>
              /\ i = Len(Drop!Written) /\ dropFile.lines < i
<1>1. Drop!Written[i] = Layout[i] /\ Given(i) /\ dropFile.lines \in Nat
  BY WrittenInPlace
<1>2. ~(od_info_type = "TRIBBSSYS" /\ kept["user_password"] = "old")
  BY DEF Drop!Disarranged
<1>3. CASE Layout[i] \in Drop!Info /\ kept[Layout[i]] = "none"
  BY <1>1, <1>3, WrittenInPlace DEF Drop!Printed, Given
<1>4. CASE ~(Layout[i] \in Drop!Info /\ kept[Layout[i]] = "none")
  BY <1>1, <1>2, <1>4 DEF Drop!Printed, Returned
<1> QED
  BY <1>3, <1>4

LEMMA OneMoreLine ==
    ASSUME NEW S, NEW s \in Seq(S), NEW e \in S
    PROVE  /\ s \o <<e>> \in Seq(S) /\ Len(s \o <<e>>) = Len(s) + 1
           /\ \A i \in 1..Len(s) : (s \o <<e>>)[i] = s[i]
           /\ (s \o <<e>>)[Len(s) + 1] = e
OBVIOUS

\* While the file is written nobody changes what is to be written.
LEMMA MeantStays ==
    ASSUME UNCHANGED <<dropFile, od_info_type, kept>>
    PROVE  /\ FileRead' <=> FileRead
           /\ Drop!Disarranged' <=> Drop!Disarranged
           /\ Layout' = Layout /\ Drop!Written' = Drop!Written
           /\ \A i : Returned(i)' = Returned(i)
BY DEF FileRead, Drop!Disarranged, Layout, Drop!Written, Returned

LEMMA FileInvStep ==
    ASSUME FileInv, Drop!DropFileNext
    PROVE  FileInv'
<1> USE DEF FileInv
<1>1. CASE Drop!Read
  <2>1. /\ stage = "init" /\ UNCHANGED <<dropFile, line, out>>
        /\ stage' \in {"running", "failed"}
    BY <1>1 DEF Drop!Read
  <2>2. stage' = "running" => FileRead'
    <3> SUFFICES ASSUME stage' = "running" PROVE FileRead'
      OBVIOUS
    <3>1. ~(dropFile.lines < Drop!Needed(dropFile.type))
      BY <1>1 DEF Drop!Read
    <3>2. dropFile.type \in DOMAIN Drop!Format /\ dropFile.lines \in 0..Len(Layout)
      BY ApplicationAssumption DEF Drop!FilesAssumption, Layout
    <3>3. /\ kept' = [n \in Drop!Names |->
                IF \E i \in 1..dropFile.lines : Layout[i] = n THEN "old" ELSE "none"]
          /\ od_info_type' =
                IF dropFile.type # "DOORSYS" THEN dropFile.type
                ELSE IF dropFile.lines = Len(Drop!ReadsWILDCAT) THEN "WILDCAT" ELSE "GAP"
      BY <1>1, <3>1 DEF Drop!Read, Layout
    <3>4. Layout' = Layout
      BY <2>1 DEF Layout
    <3>5. Drop!Needed(dropFile.type) \in Nat
      BY <3>2, NeededIsNumber
    <3>6. dropFile.lines \in Drop!Needed(dropFile.type)..Len(Layout)
      BY <3>1, <3>2, <3>5
    <3> QED
      BY <2>1, <3>2, <3>3, <3>4, <3>6 DEF FileRead
  <2> QED
    BY <2>1, <2>2
<1>2. CASE \E member \in Changeable : Drop!Change(member)
  <2>1. /\ stage = "running" /\ FileRead
        /\ UNCHANGED <<dropFile, od_info_type, stage, line, out>>
    BY <1>2 DEF Drop!Change
  <2>2. PICK member : /\ \E i \in 1..dropFile.lines : Layout[i] = member
                      /\ kept' = [kept EXCEPT ![member] = "new"]
    BY <1>2 DEF Drop!Change, Layout
  <2>3. FileRead'
    BY <2>1, <2>2 DEF FileRead, Layout
  <2> QED
    BY <2>1, <2>3
<1>3. CASE Drop!Open
  <2>1. /\ stage = "running" /\ out' = << >> /\ line' = 0
        /\ UNCHANGED <<dropFile, od_info_type, kept>>
        /\ stage' = "writing" \/ (stage' = "closed" /\ nErrorCode')
    BY <1>3 DEF Drop!Open
  <2>2. FileRead' /\ FileRead
    BY <2>1, MeantStays
  <2>3. ~Drop!Disarranged' => Output'
    <3> SUFFICES ASSUME ~Drop!Disarranged' PROVE Output'
      OBVIOUS
    <3>1. Len(Drop!Written)' \in Nat
      BY <2>1, <2>2, MeantStays, WrittenInPlace
    <3> QED
      BY <2>1, <3>1 DEF Output
  <2> QED
    BY <2>1, <2>2, <2>3
<1>4. ASSUME stage = "writing", stage' \in {"writing", "closed"},
             UNCHANGED <<dropFile, od_info_type, kept>>,
             FileRead /\ ~Drop!Disarranged /\ Output => Output'
      PROVE  FileInv'
  BY <1>4, MeantStays
<1>5. CASE Drop!WriteLine
  <2>1. PICK success \in BOOLEAN : Drop!Writes(success)
    BY <1>5 DEF Drop!WriteLine
  <2>2. /\ stage = "writing" /\ line < Len(Drop!Written) /\ line' = line + 1
        /\ ~nErrorCode
        /\ UNCHANGED <<dropFile, od_info_type, kept, stage>>
    BY <1>5, <2>1 DEF Drop!WriteLine, Drop!Writes
  <2>3. ASSUME FileRead, ~Drop!Disarranged, Output PROVE Output'
    <3> DEFINE Lines == {Returned(i) : i \in 1..Len(Layout)}
    <3>1. /\ Layout' = Layout /\ Drop!Written' = Drop!Written
          /\ \A i : Returned(i)' = Returned(i)
      BY <2>2, MeantStays
    <3>2. /\ Len(Drop!Written) \in Nat /\ dropFile.lines \in Nat
          /\ dropFile.lines <= Len(Drop!Written) /\ Len(Drop!Written) <= Len(Layout)
      BY <2>3, WrittenInPlace
    <3>3. /\ out \in Seq(Lines) /\ line \in Nat /\ Len(out) = line
          /\ \A i \in 1..Len(out) : out[i] = Returned(i)
      BY <2>2, <2>3 DEF Output
    <3>4. Lines' = Lines
      BY <3>1
    <3> HIDE DEF Lines
    <3>5. ASSUME NEW s, s = out', s \in Seq(Lines), Len(s) <= line',
                 \A i \in 1..Len(s) : s[i] = Returned(i),
                 \/ nErrorCode' \/ Len(s) = line'
                 \/ line' = Len(Drop!Written) /\ dropFile.lines <= Len(s)
          PROVE  Output'
      <4>1. out' \in Seq(Lines)'
        BY <3>4, <3>5
      <4> QED
        BY <2>2, <3>1, <3>2, <3>3, <3>5, <4>1 DEF Output, Lines
    <3>6. CASE ~success
      <4>1. PICK length \in 0..Len(out) : out' = SubSeq(out, 1, length)
        BY <2>1, <3>6 DEF Drop!Writes
      <4>2. nErrorCode'
        BY <2>1, <3>6 DEF Drop!Writes
      <4>3. /\ SubSeq(out, 1, length) \in Seq(Lines) /\ Len(SubSeq(out, 1, length)) = length
            /\ \A i \in 1..length : SubSeq(out, 1, length)[i] = out[i]
        BY <3>3, FirstLines
      <4> QED
        BY <2>2, <3>3, <3>5, <4>1, <4>2, <4>3
    <3>7. CASE success
      <4>1. out' = out \o Drop!Printed(Drop!Written[line + 1])
        BY <2>1, <3>7 DEF Drop!Writes
      <4>2. line + 1 \in 1..Len(Drop!Written) /\ line + 1 \in 1..Len(Layout)
        BY <2>2, <3>2, <3>3, LayoutIsList, <2>3 DEF FileRead
      <4>3. CASE Drop!Printed(Drop!Written[line + 1]) = <<Returned(line + 1)>>
        <5>1. Returned(line + 1) \in Lines
          BY <4>2 DEF Lines
        <5>2. out' = out \o <<Returned(line + 1)>>
          BY <4>1, <4>3
        <5>3. /\ out \o <<Returned(line + 1)>> \in Seq(Lines)
              /\ Len(out \o <<Returned(line + 1)>>) = Len(out) + 1
              /\ \A i \in 1..Len(out) : (out \o <<Returned(line + 1)>>)[i] = out[i]
              /\ (out \o <<Returned(line + 1)>>)[Len(out) + 1] = Returned(line + 1)
          BY <3>3, <5>1, OneMoreLine
        <5> HIDE DEF Returned
        <5>4. \A i \in 1..(line + 1) : (out \o <<Returned(line + 1)>>)[i] = Returned(i)
          <6> SUFFICES ASSUME NEW i \in 1..(line + 1)
                       PROVE  (out \o <<Returned(line + 1)>>)[i] = Returned(i)
            OBVIOUS
          <6>1. i \in 1..Len(out) \/ i = Len(out) + 1
            BY <3>3
          <6> QED
            BY <3>3, <5>3, <6>1
        <5> QED
          BY <2>2, <3>3, <3>5, <5>2, <5>3, <5>4
      <4>4. CASE /\ Drop!Printed(Drop!Written[line + 1]) = << >>
                 /\ line + 1 = Len(Drop!Written) /\ dropFile.lines < line + 1
        <5>1. out' = out
          BY <3>3, <4>1, <4>4, ConcatEmptySeq
        <5> QED
          BY <2>2, <3>2, <3>3, <3>5, <4>4, <5>1
      <4> QED
        BY <2>3, <4>2, <4>3, <4>4, LinePrinted
    <3> QED
      BY <3>6, <3>7
  <2> QED
    BY <1>4, <2>2, <2>3
<1>6. CASE Drop!Suppress
  <2>1. /\ stage = "writing" /\ nErrorCode /\ nErrorCode' /\ line < Len(Drop!Written)
        /\ line' = Len(Drop!Written)
        /\ UNCHANGED <<dropFile, od_info_type, kept, stage, out>>
    BY <1>6 DEF Drop!Suppress
  <2>2. ASSUME FileRead, ~Drop!Disarranged, Output PROVE Output'
    <3>1. Len(Drop!Written) \in Nat
      BY <2>2, WrittenInPlace
    <3>2. /\ Layout' = Layout /\ Drop!Written' = Drop!Written
          /\ \A i : Returned(i)' = Returned(i)
      BY <2>1, MeantStays
    <3> QED
      BY <2>1, <2>2, <3>1, <3>2 DEF Output
  <2> QED
    BY <1>4, <2>1, <2>2
<1>7. CASE Drop!Close
  <2>1. /\ stage = "writing" /\ stage' = "closed" /\ line = Len(Drop!Written) /\ line' = line
        /\ UNCHANGED <<dropFile, od_info_type, kept>>
        /\ \/ UNCHANGED <<out, nErrorCode>>
           \/ nErrorCode' /\ \E length \in 0..Len(out) : out' = SubSeq(out, 1, length)
    BY <1>7 DEF Drop!Close
  <2>2. ASSUME FileRead, ~Drop!Disarranged, Output PROVE Output'
    <3>1. Len(Drop!Written) \in Nat
      BY <2>2, WrittenInPlace
    <3>2. /\ Layout' = Layout /\ Drop!Written' = Drop!Written
          /\ \A i : Returned(i)' = Returned(i)
      BY <2>1, MeantStays
    <3>3. CASE UNCHANGED <<out, nErrorCode>>
      BY <2>1, <2>2, <3>1, <3>2, <3>3 DEF Output
    <3>4. CASE nErrorCode' /\ \E length \in 0..Len(out) : out' = SubSeq(out, 1, length)
      <4> DEFINE Lines == {Returned(i) : i \in 1..Len(Layout)}
      <4>1. PICK length \in 0..Len(out) : out' = SubSeq(out, 1, length)
        BY <3>4
      <4>2. /\ out \in Seq(Lines) /\ line \in Nat /\ Len(out) <= line
            /\ \A i \in 1..Len(out) : out[i] = Returned(i)
        BY <2>2 DEF Output
      <4>3. Lines' = Lines
        BY <3>2
      <4> HIDE DEF Lines
      <4>4. /\ SubSeq(out, 1, length) \in Seq(Lines) /\ Len(SubSeq(out, 1, length)) = length
            /\ \A i \in 1..length : SubSeq(out, 1, length)[i] = out[i]
        BY <4>2, FirstLines
      <4>5. out' \in Seq(Lines)' /\ Len(out') = length
        BY <4>1, <4>3, <4>4
      <4>6. \A i \in 1..length : out'[i] = Returned(i)
        BY <4>1, <4>2, <4>4
      <4> QED
        BY <2>1, <3>1, <3>2, <3>4, <4>2, <4>5, <4>6 DEF Output, Lines
    <3> QED
      BY <2>1, <3>3, <3>4
  <2> QED
    BY <1>4, <2>1, <2>2
<1> QED
  BY <1>1, <1>2, <1>3, <1>5, <1>6, <1>7 DEF Drop!DropFileNext

LEMMA FileInvInit == ApplicationInit => FileInv
BY ApplicationAssumption DEF ApplicationInit, Drop!DropFileInit, FileInv

LEMMA FileInvKept ==
    ASSUME FileInv, [ApplicationNext]_applicationVars
    PROVE  FileInv'
<1> USE ApplicationAssumption
<1>1. CASE Drop!DropFileNext
  BY <1>1, FileInvStep
<1>2. CASE UNCHANGED dropFileVars
  <2>1. UNCHANGED <<dropFile, od_info_type, kept, stage, line, out, nErrorCode>>
    BY <1>2 DEF dropFileVars
  <2>2. /\ FileRead' <=> FileRead
        /\ Drop!Disarranged' <=> Drop!Disarranged
        /\ Layout' = Layout /\ Drop!Written' = Drop!Written
        /\ \A i : Returned(i)' = Returned(i)
    BY <2>1, MeantStays
  <2>3. Output' <=> Output
    BY <2>1, <2>2 DEF Output
  <2> QED
    BY <2>1, <2>2, <2>3 DEF FileInv
<1> QED
  BY <1>1, <1>2, FileMoves

\* The lines of a drop file come out where they went in, with the values that the
\* door left in them, and none is missing unless the writer has said so.
THEOREM LinesComeBack == ApplicationSpec => []LinesStayInPlace
<1>1. FileInv => LinesStayInPlace
  <2> SUFFICES ASSUME FileInv, stage = "closed", ~Drop!Disarranged
               PROVE  /\ Len(out) <= Len(Layout)
                      /\ \A i \in 1..Len(out) : out[i] = Returned(i)
                      /\ Len(out) < dropFile.lines => nErrorCode
    BY DEF LinesStayInPlace, Drop!LinesStayInPlace, Layout, Returned
  <2>1. FileRead /\ Output
    BY DEF FileInv
  <2>2. /\ Len(Drop!Written) \in Nat /\ dropFile.lines \in Nat
        /\ dropFile.lines <= Len(Drop!Written) /\ Len(Drop!Written) <= Len(Layout)
    BY <2>1, WrittenInPlace
  <2>3. Len(Layout) \in Nat
    BY <2>1, LayoutIsList DEF FileRead
  <2> QED
    BY <2>1, <2>2, <2>3 DEF Output
<1> QED
  BY <1>1, FileInvInit, FileInvKept, PTL DEF ApplicationSpec

\* What a line may be: a name and its value, or half of the password's.
Entries ==
    {<<n, kept[Drop!Source(n)]>> : n \in Text}
    \union {<<"user_password", "old">>, <<"", "old">>}

FileTyped ==
    /\ od_info_type \in {"none", "GAP", "WILDCAT", "CHAINTXT", "DOORSYS", "DRWY", "SFDOORSDAT",
                         "TRIBBSSYS"}
    /\ \A n \in DOMAIN kept : kept[n] \in {"none", "old", "new"}
    /\ nErrorCode \in BOOLEAN
    /\ line \in Nat /\ out \in Seq(Entries)
    /\ Len(out) <= (IF od_info_type = "TRIBBSSYS" THEN 2 * line ELSE line)
    /\ stage \in {"writing", "closed"} => line <= Len(Drop!Written)

LEMMA TableLengths ==
    /\ Len(Drop!ReadsCHAINTXT) = 30 /\ Len(Drop!ReadsDRWY) = 5 /\ Len(Drop!ReadsTRIBBSSYS) = 20
<1>1. Len(Drop!ReadsCHAINTXT) = 30
  BY DEF Drop!ReadsCHAINTXT
<1>2. Len(Drop!ReadsDRWY) = 5
  BY DEF Drop!ReadsDRWY
<1>3. Len(Drop!ReadsTRIBBSSYS) = 20
  BY DEF Drop!ReadsTRIBBSSYS
<1> QED
  BY <1>1, <1>2, <1>3

LEMMA WrittenIsList ==
    ASSUME FileRead
    PROVE  /\ Drop!Written \in Seq(Text) /\ Len(Drop!Written) <= 52
           /\ od_info_type = "TRIBBSSYS" => Len(Drop!Written) = 20
<1>1. od_info_type \in {"CHAINTXT", "GAP", "WILDCAT", "DRWY", "SFDOORSDAT", "TRIBBSSYS"}
  BY FormatsAre DEF FileRead
<1> DEFINE Short(s) == s \in Seq(Text) /\ Len(s) <= 52
<1>2. Short(Drop!ReadsCHAINTXT) /\ Short(Drop!ReadsGAP) /\ Short(Drop!ReadsDRWY)
  BY TablesAreLists, TableLengths, Lengths
<1>3. Short(Drop!ReadsTRIBBSSYS) /\ Short(Drop!ReadsWILDCAT) /\ Short(Drop!ReadsSFDOORSDAT)
  BY TablesAreLists, TableLengths, LongFormIsBehind, SFDoorsLines
<1>4. Short(Drop!WritesSFDOORSDAT)
  BY TablesAreLists, Lengths
<1>5. Drop!WritesSFDOORSDAT \o << >> = Drop!WritesSFDOORSDAT
  BY TablesAreLists, ConcatEmptySeq
<1> HIDE DEF Short
<1>6. CASE od_info_type = "CHAINTXT"
  BY <1>2, <1>6, SameTables DEF Drop!Written, Short
<1>7. CASE od_info_type = "GAP"
  BY <1>2, <1>7, SameTables DEF Drop!Written, Short
<1>8. CASE od_info_type = "WILDCAT"
  BY <1>3, <1>8, SameTables DEF Drop!Written, Short
<1>9. CASE od_info_type = "DRWY"
  BY <1>2, <1>9, SameTables DEF Drop!Written, Short
<1>10. CASE od_info_type = "SFDOORSDAT"
  <2>1. \/ Drop!Written = Drop!WritesSFDOORSDAT \o << >>
        \/ Drop!Written = Drop!WritesSFDOORSDAT \o Drop!WritesSFDOORSDATTail
    BY <1>10 DEF Drop!Written
  <2>2. Drop!Written \in {Drop!WritesSFDOORSDAT, Drop!ReadsSFDOORSDAT}
    BY <1>5, <2>1, SameTables
  <2> QED
    BY <1>3, <1>4, <1>10, <2>2 DEF Short
<1>11. CASE od_info_type = "TRIBBSSYS"
  BY <1>3, <1>11, SameTables, TableLengths DEF Drop!Written, Short
<1> QED
  BY <1>1, <1>6, <1>7, <1>8, <1>9, <1>10, <1>11

LEMMA TwoMore ==
    \A a, b \in Nat, n \in 0..2 : a <= 2 * b => a + n <= 2 * (b + 1)
OBVIOUS

LEMMA ShortLists ==
    ASSUME NEW S, NEW e \in S, NEW f \in S
    PROVE  /\ <<e>> \in Seq(S) /\ Len(<<e>>) = 1
           /\ <<e, f>> \in Seq(S) /\ Len(<<e, f>>) = 2
OBVIOUS

LEMMA PrintedIsEntries ==
    ASSUME NEW name \in Text
    PROVE  /\ Drop!Printed(name) \in Seq(Entries) /\ Len(Drop!Printed(name)) \in 0..2
           /\ od_info_type # "TRIBBSSYS" => Len(Drop!Printed(name)) <= 1
<1>1. /\ <<name, kept[Drop!Source(name)]>> \in Entries
      /\ <<"user_password", "old">> \in Entries /\ <<"", "old">> \in Entries
  BY DEF Entries
<1>2. \/ Drop!Printed(name) = << >>
      \/ /\ Drop!Printed(name) = <<<<"user_password", "old">>, <<"", "old">>>>
         /\ od_info_type = "TRIBBSSYS"
      \/ Drop!Printed(name) = <<<<name, kept[Drop!Source(name)]>>>>
  BY DEF Drop!Printed
<1> HIDE DEF Entries
<1>3. CASE Drop!Printed(name) = << >>
  BY <1>3
<1>4. CASE /\ Drop!Printed(name) = <<<<"user_password", "old">>, <<"", "old">>>>
           /\ od_info_type = "TRIBBSSYS"
  <2> DEFINE e == <<"user_password", "old">>  f == <<"", "old">>  s == Drop!Printed(name)
  <2>1. e \in Entries /\ f \in Entries /\ s = <<e, f>>
    BY <1>1, <1>4
  <2> HIDE DEF e, f, s
  <2>2. s \in Seq(Entries) /\ Len(s) = 2
    BY <2>1, ShortLists
  <2>3. od_info_type = "TRIBBSSYS"
    BY <1>4
  <2> QED
    BY <2>2, <2>3 DEF s
<1>5. CASE Drop!Printed(name) = <<<<name, kept[Drop!Source(name)]>>>>
  <2> DEFINE e == <<name, kept[Drop!Source(name)]>>  s == Drop!Printed(name)
  <2>1. e \in Entries /\ s = <<e>>
    BY <1>1, <1>5
  <2> HIDE DEF e, s
  <2>2. s \in Seq(Entries) /\ Len(s) = 1
    BY <2>1, ShortLists
  <2> QED
    BY <2>2 DEF s
<1> QED
  BY <1>2, <1>3, <1>4, <1>5

LEMMA FileTypeStep ==
    ASSUME FileInv, FileInv', FileTyped, Drop!DropFileNext
    PROVE  FileTyped'
<1>1. /\ stage \in {"init", "running", "failed"} => out = << >> /\ line = 0
      /\ stage \in {"running", "writing", "closed"} => FileRead
      /\ stage' \in {"running", "writing", "closed"} => FileRead'
  BY DEF FileInv
<1>2. << >> \in Seq(Entries') /\ Len(<< >>) = 0
  OBVIOUS
<1>3. CASE Drop!Read
  <2>1. /\ stage = "init" /\ stage' \in {"running", "failed"}
        /\ UNCHANGED <<dropFile, line, out, nErrorCode>>
        /\ \/ UNCHANGED <<od_info_type, kept>>
           \/ /\ kept' = [n \in Drop!Names |->
                    IF \E i \in 1..dropFile.lines : Drop!Format[dropFile.type][i] = n
                    THEN "old" ELSE "none"]
              /\ od_info_type' \in {dropFile.type, "WILDCAT", "GAP"}
    BY <1>3 DEF Drop!Read
  <2>2. dropFile.type \in {"CHAINTXT", "DOORSYS", "DRWY", "SFDOORSDAT", "TRIBBSSYS"}
    BY ApplicationAssumption, FormatsAre DEF Drop!FilesAssumption, FileInv
  <2>3. /\ od_info_type' \in {"none", "GAP", "WILDCAT", "CHAINTXT", "DOORSYS", "DRWY",
                              "SFDOORSDAT", "TRIBBSSYS"}
        /\ \A n \in DOMAIN kept' : kept'[n] \in {"none", "old", "new"}
    BY <2>1, <2>2 DEF FileTyped
  <2>4. out' = << >> /\ line' = 0
    BY <1>1, <2>1
  <2> QED
    BY <1>2, <2>1, <2>3, <2>4 DEF FileTyped
<1>4. CASE \E member \in Changeable : Drop!Change(member)
  <2>1. PICK member \in Changeable : Drop!Change(member)
    BY <1>4
  <2>2. /\ stage = "running" /\ kept' = [kept EXCEPT ![member] = "new"]
        /\ UNCHANGED <<dropFile, od_info_type, stage, line, out, nErrorCode>>
    BY <2>1 DEF Drop!Change
  <2>3. FileRead /\ out' = << >> /\ line' = 0
    BY <1>1, <2>2
  <2>4. \A n \in DOMAIN kept' : kept'[n] \in {"none", "old", "new"}
    BY <2>2 DEF FileTyped
  <2> QED
    BY <1>2, <2>2, <2>3, <2>4 DEF FileTyped
<1>5. CASE Drop!Open
  <2>1. /\ stage = "running" /\ line' = line /\ stage' \in {"writing", "closed"}
        /\ out' = << >> /\ nErrorCode' \in BOOLEAN
        /\ UNCHANGED <<dropFile, od_info_type, kept>>
    BY <1>1, <1>5 DEF Drop!Open, FileTyped
  <2>2. Len(Drop!Written') \in Nat /\ line' = 0
    BY <1>1, <2>1, WrittenIsList DEF Drop!Written
  <2> QED
    BY <1>2, <2>1, <2>2 DEF FileTyped
<1>6. CASE stage = "writing"
  <2>1. /\ UNCHANGED <<dropFile, od_info_type, kept>> /\ stage' \in {"writing", "closed"}
        /\ Drop!WriteLine \/ Drop!Suppress \/ Drop!Close
    BY <1>6 DEF Drop!DropFileNext, Drop!Read, Drop!Change, Drop!Open, Drop!WriteLine,
       Drop!Writes, Drop!Suppress, Drop!Close
  <2>2. FileRead /\ Drop!Written' = Drop!Written /\ Entries' = Entries
    BY <1>1, <1>6, <2>1 DEF Drop!Written, Entries
  <2>3. /\ Drop!Written \in Seq(Text) /\ Len(Drop!Written) \in Nat
    BY <2>2, WrittenIsList
  <2>4. /\ out \in Seq(Entries) /\ Len(out) \in Nat /\ line \in Nat
        /\ Len(out) <= (IF od_info_type = "TRIBBSSYS" THEN 2 * line ELSE line)
        /\ line <= Len(Drop!Written)
    BY <1>6 DEF FileTyped
  <2>5. ASSUME out' \in Seq(Entries), line' \in Nat, line' <= Len(Drop!Written),
               Len(out') <= (IF od_info_type = "TRIBBSSYS" THEN 2 * line' ELSE line'),
               nErrorCode' \in BOOLEAN
        PROVE  FileTyped'
    BY <2>1, <2>2, <2>5 DEF FileTyped
  <2>6. \A length \in 0..Len(out) :
           /\ SubSeq(out, 1, length) \in Seq(Entries)
           /\ Len(SubSeq(out, 1, length)) = length
    BY <2>4, FirstLines
  <2>7. CASE Drop!WriteLine
    <3>1. PICK success \in BOOLEAN : Drop!Writes(success)
      BY <2>7 DEF Drop!WriteLine
    <3>2. line < Len(Drop!Written) /\ line' = line + 1
      BY <3>1 DEF Drop!Writes
    <3>3. CASE success
      <4> DEFINE printed == Drop!Printed(Drop!Written[line + 1])
      <4>1. out' = out \o printed /\ nErrorCode' = nErrorCode
        BY <3>1, <3>3 DEF Drop!Writes
      <4>2. Drop!Written[line + 1] \in Text
        BY <2>3, <2>4, <3>2
      <4>3. /\ printed \in Seq(Entries) /\ Len(printed) \in 0..2
            /\ od_info_type # "TRIBBSSYS" => Len(printed) <= 1
        BY <4>2, PrintedIsEntries
      <4> HIDE DEF printed
      <4>4. out \o printed \in Seq(Entries) /\ Len(out \o printed) = Len(out) + Len(printed)
        BY <2>4, <4>3, Behind
      <4>5. Len(out') <= (IF od_info_type = "TRIBBSSYS" THEN 2 * line' ELSE line')
        <5>1. Len(out') = Len(out) + Len(printed) /\ line' = line + 1
          BY <3>2, <4>1, <4>4
        <5>2. CASE od_info_type = "TRIBBSSYS"
          <6>1. Len(out) <= 2 * line /\ Len(printed) \in 0..2
            BY <2>4, <4>3, <5>2
          <6>2. Len(out) \in Nat /\ line \in Nat
            BY <2>4
          <6>3. Len(out) + Len(printed) <= 2 * (line + 1)
            BY <6>1, <6>2, TwoMore
          <6>4. Len(out') <= 2 * line'
            BY <5>1, <6>3, Zenon
          <6> QED
            BY <5>2, <6>4
        <5>3. CASE od_info_type # "TRIBBSSYS"
          <6>1. Len(out) <= line /\ Len(printed) \in 0..2 /\ Len(printed) <= 1
            BY <2>4, <4>3, <5>3
          <6>2. Len(out') <= line'
            BY <2>4, <5>1, <6>1
          <6> QED
            BY <5>3, <6>2
        <5> QED
          BY <5>2, <5>3
      <4>6. nErrorCode' \in BOOLEAN
        BY <4>1 DEF FileTyped
      <4> QED
        BY <2>3, <2>4, <2>5, <3>2, <4>1, <4>4, <4>5, <4>6
    <3>4. CASE ~success
      <4>1. /\ nErrorCode' = TRUE
            /\ \E length \in 0..Len(out) : out' = SubSeq(out, 1, length)
        BY <3>1, <3>4 DEF Drop!Writes
      <4>2. PICK length \in 0..Len(out) : out' = SubSeq(out, 1, length)
        BY <4>1
      <4> QED
        BY <2>3, <2>4, <2>5, <2>6, <3>2, <4>1, <4>2
    <3> QED
      BY <3>3, <3>4
  <2>8. CASE Drop!Suppress
    <3>1. line' = Len(Drop!Written) /\ UNCHANGED <<out, nErrorCode>>
      BY <2>8 DEF Drop!Suppress
    <3>2. nErrorCode' \in BOOLEAN
      BY <3>1 DEF FileTyped
    <3> QED
      BY <2>3, <2>4, <2>5, <3>1, <3>2
  <2>9. CASE Drop!Close
    <3>1. /\ line' = line
          /\ \/ UNCHANGED <<out, nErrorCode>>
             \/ /\ nErrorCode' = TRUE
                /\ \E length \in 0..Len(out) : out' = SubSeq(out, 1, length)
      BY <2>9 DEF Drop!Close
    <3>2. nErrorCode' \in BOOLEAN
      BY <3>1 DEF FileTyped
    <3>3. out' \in Seq(Entries) /\ Len(out') <= Len(out) /\ Len(out') \in Nat
      BY <2>4, <2>6, <3>1
    <3> QED
      BY <2>4, <2>5, <3>1, <3>2, <3>3
  <2> QED
    BY <2>1, <2>7, <2>8, <2>9
<1> QED
  BY <1>3, <1>4, <1>5, <1>6 DEF Drop!DropFileNext, Drop!WriteLine, Drop!Writes,
     Drop!Suppress, Drop!Close

LEMMA FileTypedInit == ApplicationInit => FileTyped
<1> HAVE ApplicationInit
<1>1. /\ od_info_type = "none" /\ kept = << >> /\ stage = "init" /\ line = 0 /\ out = << >>
      /\ nErrorCode = FALSE
  BY DEF ApplicationInit, Drop!DropFileInit
<1>2. DOMAIN kept = {}
  BY <1>1
<1>3. out \in Seq(Entries) /\ Len(out) = 0
  BY <1>1
<1>4. Len(out) <= (IF od_info_type = "TRIBBSSYS" THEN 2 * line ELSE line)
  BY <1>1, <1>3
<1>5. line \in Nat /\ ~(stage \in {"writing", "closed"})
  BY <1>1
<1>6. \A n \in DOMAIN kept : kept[n] \in {"none", "old", "new"}
  BY <1>2
<1> HIDE DEF ApplicationInit
<1> QED
  BY <1>1, <1>3, <1>4, <1>5, <1>6 DEF FileTyped

LEMMA FileIsTyped ==
    ASSUME FileInv, FileTyped
    PROVE  Drop!DropFileTypeOK
<1>1. Len(Drop!ReadsWILDCAT) = 52
  BY LongFormIsBehind
<1>2. line \in 0..52 /\ Len(out) <= 52
  <2>1. /\ line \in Nat /\ Len(out) \in Nat
        /\ Len(out) <= (IF od_info_type = "TRIBBSSYS" THEN 2 * line ELSE line)
    BY DEF FileTyped
  <2>2. CASE stage \in {"init", "running", "failed"}
    BY <2>1, <2>2 DEF FileInv
  <2>3. CASE stage \in {"writing", "closed"}
    <3>1. /\ Drop!Written \in Seq(Text) /\ Len(Drop!Written) <= 52
          /\ od_info_type = "TRIBBSSYS" => Len(Drop!Written) = 20
      BY <2>3, WrittenIsList DEF FileInv
    <3>2. line <= Len(Drop!Written) /\ Len(Drop!Written) \in Nat
      BY <2>3, <3>1 DEF FileTyped
    <3>3. line \in 0..52
      BY <2>1, <3>1, <3>2
    <3>4. CASE od_info_type = "TRIBBSSYS"
      <4>1. Len(out) <= 2 * line /\ line <= 20
        BY <2>1, <3>1, <3>2, <3>4
      <4> QED
        BY <2>1, <3>3, <4>1
    <3>5. CASE od_info_type # "TRIBBSSYS"
      <4>1. Len(out) <= line
        BY <2>1, <3>5
      <4> QED
        BY <2>1, <3>3, <4>1
    <3> QED
      BY <3>4, <3>5
  <2> QED
    BY <2>2, <2>3 DEF FileInv
<1>3. ASSUME NEW i \in 1..Len(out)
      PROVE  out[i] = <<out[i][1], out[i][2]>>
  <2>1. out[i] \in Entries
    BY DEF FileTyped
  <2>2. (\E n, v : out[i] = <<n, v>>)
    BY <2>1 DEF Entries
  <2>3. PICK n, v : out[i] = <<n, v>>
    BY <2>2
  <2> QED
    BY <2>3
<1>4. od_info_type \in {"none", "GAP", "WILDCAT"} \union DOMAIN Drop!Format
  BY FormatsAre DEF FileTyped
<1> QED
  BY <1>1, <1>2, <1>3, <1>4 DEF FileInv, FileTyped, Drop!DropFileTypeOK

LEMMA FileTypedStep ==
    ASSUME FileInv, FileInv', FileTyped, [ApplicationNext]_applicationVars
    PROVE  FileTyped'
<1>1. CASE Drop!DropFileNext
  BY <1>1, FileTypeStep
<1>2. CASE UNCHANGED dropFileVars
  <2>1. UNCHANGED <<dropFile, od_info_type, kept, stage, line, out, nErrorCode>>
    BY <1>2 DEF dropFileVars
  <2>2. Drop!Written' = Drop!Written
    BY <2>1, MeantStays
  <2>3. Entries' = Entries
    BY <2>1 DEF Entries, Text, Tables, Drop!Source
  <2> QED
    BY <2>1, <2>2, <2>3 DEF FileTyped
<1> QED
  BY <1>1, <1>2, FileMoves

---------------------------------------------------------------------------
(* The parts.                                                              *)

\* What is proved of the session alone holds of it in the application: the
\* other parts leave its variables as they are.
THEOREM SessionIsPart == ApplicationSpec => Spec
<1>1. ApplicationInit => Init
  BY DEF ApplicationInit
<1>2. [ApplicationNext]_applicationVars => [Next]_vars
  BY DEF ApplicationNext, SessionStep, TimeStep, FieldStep, TimerStep, FileStep,
     ScreenStep, applicationVars
<1> QED
  BY <1>1, <1>2, PTL DEF ApplicationSpec, Spec

\* What the variables of all parts hold, and the invariants this rests on.
Typed ==
    /\ TimeTyped /\ Ended /\ TimerTyped /\ ScreenTyped /\ FieldTyped /\ FileTyped

Invariants == TimerInv /\ ScreenInv /\ EditInv /\ FileInv

LEMMA TypedStep ==
    ASSUME Invariants, Invariants', Typed, [ApplicationNext]_applicationVars
    PROVE  Typed'
<1>1. FieldTyped'
  <2>1. EditInv /\ FieldTyped
    BY DEF Invariants, Typed
  <2> QED
    BY <2>1, FieldTypeStep, FieldStays, FieldMoves
<1>2. TimerTyped' /\ ScreenTyped' /\ FileTyped' /\ TimeTyped' /\ Ended'
  BY TimeTypedStep, TimerTypedStep, ScreenTypedStep, FileTypedStep DEF Invariants, Typed
<1> QED
  BY <1>1, <1>2 DEF Typed

\* Every variable of the part that moves stays in its set, for any constants: what
\* the caller's time sinks to, what a field can hold, how many lines a drop file
\* gets, and that nothing is drawn off the screen.
THEOREM ApplicationTypeCorrect == ApplicationSpec => []ApplicationTypeOK
<1>1. ApplicationInit => Invariants /\ Typed
  <2> SUFFICES ASSUME ApplicationInit PROVE Invariants /\ Typed
    OBVIOUS
  <2>1. Invariants
    BY TimerInvInit, ScreenInvInit, EditInvInit, FileInvInit DEF Invariants
  <2>2. Geometry
    BY <2>1 DEF Invariants, ScreenInv
  <2>3. forced = "no"
    BY DEF ApplicationInit, Time!Init
  <2>4. Ended
    BY <2>3, Zenon DEF Ended
  <2> QED
    BY <2>1, <2>2, <2>4, TimeTypedInit, TimerTypedInit, ScreenTypedInit, FieldTypedInit,
       FileTypedInit DEF Typed
<1>2. Invariants /\ [ApplicationNext]_applicationVars => Invariants'
  BY TimerInvKept, ScreenInvKept, EditInvKept, FileInvKept DEF Invariants
<1>3. Invariants /\ Invariants' /\ Typed /\ [ApplicationNext]_applicationVars => Typed'
  BY TypedStep
<1>4. ApplicationSpec => []TypeOK
  BY SessionIsPart, SessionTyped, PTL
<1>5. TypeOK /\ Invariants /\ Typed => ApplicationTypeOK
  <2> SUFFICES ASSUME TypeOK, Invariants, Typed PROVE ApplicationTypeOK
    OBVIOUS
  <2>1. /\ Time!TypeOK /\ Wait!TimerTypeOK /\ Shown!ScreenTypeOK
        /\ Edit!EditTypeOK /\ Drop!DropFileTypeOK
    BY TimeIsTyped, TimerIsTyped, ScreenIsTyped, FieldIsTyped, FileIsTyped
       DEF Invariants, Typed
  <2> QED
    BY <2>1 DEF ApplicationTypeOK
<1> QED
  BY <1>1, <1>2, <1>3, <1>4, <1>5, PTL DEF ApplicationSpec
=============================================================================
