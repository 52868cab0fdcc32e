--------------------------- MODULE SessionProofs ---------------------------
(***************************************************************************)
(* What Session promises of nested calls, of the end of the session and of *)
(* the operator's requests, for every value of the constants: any depth of *)
(* the call stack and any number of requests, with and without callbacks.  *)
(*                                                                         *)
(* SessionInv has three parts.  Stack says that nAPILevel counts the calls *)
(* on the call stack since the last wait, and what may be on it together:  *)
(* od_init only on top, a single od_exit and that of the first request, a  *)
(* request in one batch.  Ending says how the first request is remembered  *)
(* from the moment it is made until the session has ended.  Numbering      *)
(* divides the requests made so far between the FIFO, the stack and the    *)
(* history.                                                                *)
(*                                                                         *)
(* An activation enters, goes on at another place or returns: the lemmas   *)
(* Push, Turn and Pop say what that does to Stack, so that the lemma of an *)
(* action says which of them it is, and leaves the counting to CountFrame  *)
(* and CountWait.                                                          *)
(*                                                                         *)
(* What the operator is shown has an invariant of its own, ShownInv: the   *)
(* cache is what the settings will be whenever no call is in progress, or  *)
(* the last one has only to return.                                        *)
(*                                                                         *)
(* Last come the types.  What SessionInv leaves out of them is Booleans,   *)
(* Phases and KeptBelow: what a wait has kept of the level is no more than *)
(* the depth at which it waits.                                            *)
(***************************************************************************)
EXTENDS Session, FiniteSetTheorems, Recursion

---------------------------------------------------------------------------
(* The call stack.                                                         *)

Frames == FrameType(Int)

\* What a frame counts for in nAPILevel.
Weight(f) == IF IsPublicCall(f) THEN 1 ELSE 0

Waits(s) == {i \in 1..Len(s) : IsWaiting(s[i])}
WaitsBefore(s, k) == {w \in Waits(s) : w < k}
Calls(s, w, i) == {j \in (w + 1)..i : IsPublicCall(s[j])}

\* The level is n on the stack s, and it was right at every wait.  There is a
\* last wait before each position, or none.
Counted(s, n) ==
    /\ \A k \in 1..(Len(s) + 1) :
          \E m \in WaitsBefore(s, k) \union {0} : \A w \in WaitsBefore(s, k) \union {0} : w <= m
    /\ n = Cardinality(Calls(s, Max0(WaitsBefore(s, Len(s) + 1)), Len(s)))
    /\ \A i \in Waits(s) : s[i].saved = Cardinality(Calls(s, Max0(WaitsBefore(s, i)), i))

LEMMA LastWait ==
    ASSUME NEW s \in Seq(Frames), NEW n, Counted(s, n), NEW k \in 1..(Len(s) + 1)
    PROVE  Max0(WaitsBefore(s, k)) \in WaitsBefore(s, k) \union {0}
<1> DEFINE S == WaitsBefore(s, k)
<1>1. PICK m \in S \union {0} : \A w \in S \union {0} : w <= m
  BY DEF Counted
<1> HIDE DEF S
<1>2. Max0(S) \in S \union {0}
  BY <1>1 DEF Max0
<1> QED
  BY <1>2 DEF S

LEMMA CallsFinite ==
    ASSUME NEW s, NEW w \in Int, NEW i \in Int
    PROVE  IsFiniteSet(Calls(s, w, i)) /\ Cardinality(Calls(s, w, i)) \in Nat
<1>1. Calls(s, w, i) \subseteq (w + 1)..i
  BY DEF Calls
<1>2. IsFiniteSet((w + 1)..i)
  BY FS_Interval
<1>3. IsFiniteSet(Calls(s, w, i))
  BY <1>1, <1>2, FS_Subset
<1> QED
  BY <1>3, FS_CardinalityType

LEMMA Pushed ==
    ASSUME NEW s \in Seq(Frames), NEW f \in Frames
    PROVE  LET t == Append(s, f)
           IN  /\ t \in Seq(Frames) /\ Len(t) = Len(s) + 1 /\ Len(s) \in Nat
               /\ \A i \in 1..Len(s) : t[i] = s[i]
               /\ t[Len(s) + 1] = f
OBVIOUS

LEMMA WaitsPushed ==
    ASSUME NEW s \in Seq(Frames), NEW f \in Frames
    PROVE  LET t == Append(s, f)
           IN  /\ \A k \in 1..(Len(s) + 1) : WaitsBefore(t, k) = WaitsBefore(s, k)
               /\ WaitsBefore(t, Len(s) + 2) = Waits(t)
               /\ WaitsBefore(s, Len(s) + 1) = Waits(s)
               /\ ~IsWaiting(f) => Waits(t) = Waits(s)
               /\ IsWaiting(f) => Waits(t) = Waits(s) \union {Len(s) + 1}
<1> DEFINE t == Append(s, f)
<1>1. /\ t \in Seq(Frames) /\ Len(t) = Len(s) + 1 /\ Len(s) \in Nat
      /\ \A i \in 1..Len(s) : t[i] = s[i]
      /\ t[Len(s) + 1] = f
  BY Pushed
<1> HIDE DEF t
<1>2. \A i \in 1..Len(s) : IsWaiting(t[i]) <=> IsWaiting(s[i])
  BY <1>1
<1>3. IsWaiting(t[Len(s) + 1]) <=> IsWaiting(f)
  BY <1>1
<1>4. \A i \in Nat : i \in Waits(t) <=> (i \in Waits(s) \/ (i = Len(s) + 1 /\ IsWaiting(f)))
  BY <1>1, <1>2, <1>3 DEF Waits
<1>5. Waits(t) \subseteq 1..(Len(s) + 1) /\ Waits(s) \subseteq 1..Len(s)
  BY <1>1 DEF Waits
<1> QED
  BY SMTT(30), <1>1, <1>4, <1>5 DEF WaitsBefore, t

LEMMA CallsPushed ==
    ASSUME NEW s \in Seq(Frames), NEW f \in Frames, NEW w \in Nat
    PROVE  LET t == Append(s, f)
           IN  /\ \A i \in 1..Len(s) : Calls(t, w, i) = Calls(s, w, i)
               /\ w <= Len(s) =>
                     Cardinality(Calls(t, w, Len(s) + 1)) = Cardinality(Calls(s, w, Len(s))) + Weight(f)
<1> DEFINE t == Append(s, f)
<1>1. /\ t \in Seq(Frames) /\ Len(t) = Len(s) + 1 /\ Len(s) \in Nat
      /\ \A i \in 1..Len(s) : t[i] = s[i]
      /\ t[Len(s) + 1] = f
  BY Pushed
<1> HIDE DEF t
<1>2. \A i \in 1..Len(s) : IsPublicCall(t[i]) <=> IsPublicCall(s[i])
  BY <1>1
<1>3. IsPublicCall(t[Len(s) + 1]) <=> IsPublicCall(f)
  BY <1>1
<1>4. \A i \in 1..Len(s) : Calls(t, w, i) = Calls(s, w, i)
  BY <1>1, <1>2 DEF Calls
<1>5. ASSUME w <= Len(s)
      PROVE  Cardinality(Calls(t, w, Len(s) + 1)) = Cardinality(Calls(s, w, Len(s))) + Weight(f)
  <2>1. IsFiniteSet(Calls(s, w, Len(s))) /\ Len(s) + 1 \notin Calls(s, w, Len(s))
        /\ Cardinality(Calls(s, w, Len(s))) \in Nat
    <3>1. Len(s) + 1 \notin Calls(s, w, Len(s))
      BY <1>1 DEF Calls
    <3>2. Len(s) \in Int /\ w \in Int
      BY <1>1
    <3> QED
      BY <3>1, <3>2, CallsFinite
  <2>2. CASE IsPublicCall(f)
    <3>1. Calls(t, w, Len(s) + 1) = Calls(s, w, Len(s)) \union {Len(s) + 1}
      BY <1>1, <1>2, <1>3, <1>5, <2>2 DEF Calls
    <3> QED
      BY <2>1, <2>2, <3>1, FS_AddElement DEF Weight
  <2>3. CASE ~IsPublicCall(f)
    <3>1. Calls(t, w, Len(s) + 1) = Calls(s, w, Len(s))
      BY <1>1, <1>2, <1>3, <1>5, <2>3 DEF Calls
    <3> QED
      BY <2>1, <2>3, <3>1 DEF Weight
  <2> QED
    BY <2>2, <2>3
<1> QED
  BY <1>4, <1>5 DEF t

\* A frame that does not wait counts for itself.
LEMMA CountFrame ==
    ASSUME NEW s \in Seq(Frames), NEW f \in Frames, ~IsWaiting(f), NEW n \in Int
    PROVE  Counted(Append(s, f), n) <=> Counted(s, n - Weight(f))
<1> DEFINE t == Append(s, f)
           w == Max0(WaitsBefore(s, Len(s) + 1))
<1>1. /\ t \in Seq(Frames) /\ Len(t) = Len(s) + 1 /\ Len(s) \in Nat
      /\ \A i \in 1..Len(s) : t[i] = s[i]
      /\ t[Len(s) + 1] = f
  BY Pushed
<1>2. /\ \A k \in 1..(Len(s) + 1) : WaitsBefore(t, k) = WaitsBefore(s, k)
      /\ WaitsBefore(t, Len(s) + 2) = Waits(t)
      /\ WaitsBefore(s, Len(s) + 1) = Waits(s)
      /\ Waits(t) = Waits(s)
  BY WaitsPushed
<1>3. /\ \A v \in Nat, i \in 1..Len(s) : Calls(t, v, i) = Calls(s, v, i)
      /\ w \in Nat /\ w <= Len(s) =>
           Cardinality(Calls(t, w, Len(s) + 1)) = Cardinality(Calls(s, w, Len(s))) + Weight(f)
  BY CallsPushed
<1> HIDE DEF t
<1>4. Len(t) + 1 = Len(s) + 2 /\ Len(t) = Len(s) + 1
  BY <1>1
<1>5. ASSUME NEW i \in Waits(s) PROVE i \in 1..Len(s) /\ i \in 1..(Len(s) + 1)
  BY <1>1 DEF Waits
<1>6. w = Max0(WaitsBefore(t, Len(t) + 1))
  BY <1>2, <1>4
<1>7. Weight(f) \in Int
  BY DEF Weight
<1>8. ASSUME Counted(t, n) PROVE Counted(s, n - Weight(f))
  <2>1. \A k \in 1..(Len(s) + 1) :
          \E m \in WaitsBefore(s, k) \union {0} : \A v \in WaitsBefore(s, k) \union {0} : v <= m
    <3> SUFFICES ASSUME NEW k \in 1..(Len(s) + 1)
                 PROVE  \E m \in WaitsBefore(s, k) \union {0} :
                           \A v \in WaitsBefore(s, k) \union {0} : v <= m
      OBVIOUS
    <3>1. k \in 1..(Len(t) + 1) /\ WaitsBefore(s, k) = WaitsBefore(t, k)
      BY <1>1, <1>2
    <3> QED
      BY <1>8, <3>1 DEF Counted
  <2>2. w \in Nat /\ w <= Len(s)
    <3>1. Max0(WaitsBefore(t, Len(s) + 2)) \in WaitsBefore(t, Len(s) + 2) \union {0}
      BY <1>1, <1>8, LastWait
    <3> QED
      BY <1>1, <1>2, <3>1, <1>5
  <2>3. n - Weight(f) = Cardinality(Calls(s, w, Len(s)))
    <3>1. n = Cardinality(Calls(t, w, Len(s) + 1))
      BY <1>4, <1>6, <1>8 DEF Counted
    <3>2. Cardinality(Calls(s, w, Len(s))) \in Nat
      BY <1>1, <2>2, CallsFinite
    <3> QED
      BY <1>3, <1>7, <2>2, <3>1, <3>2
  <2>4. ASSUME NEW i \in Waits(s)
        PROVE  s[i].saved = Cardinality(Calls(s, Max0(WaitsBefore(s, i)), i))
    <3>1. t[i].saved = Cardinality(Calls(t, Max0(WaitsBefore(t, i)), i))
      BY <1>2, <1>8 DEF Counted
    <3>2. Max0(WaitsBefore(t, i)) \in WaitsBefore(t, i) \union {0}
      BY <1>1, <1>5, <1>8, LastWait
    <3>3. Max0(WaitsBefore(t, i)) \in Nat
      BY <3>2 DEF WaitsBefore, Waits
    <3> QED
      BY <1>1, <1>2, <1>3, <1>5, <3>1, <3>3
  <2> QED
    BY <2>1, <2>3, <2>4 DEF Counted
<1>9. ASSUME Counted(s, n - Weight(f)) PROVE Counted(t, n)
  <2>1. w \in WaitsBefore(s, Len(s) + 1) \union {0}
    BY <1>1, <1>9, LastWait
  <2>2. w \in Nat /\ w <= Len(s)
    BY <1>1, <1>2, <1>5, <2>1
  <2>3. \A k \in 1..(Len(t) + 1) :
          \E m \in WaitsBefore(t, k) \union {0} : \A v \in WaitsBefore(t, k) \union {0} : v <= m
    <3>1. \A k \in 1..(Len(s) + 1) :
            \E m \in WaitsBefore(t, k) \union {0} : \A v \in WaitsBefore(t, k) \union {0} : v <= m
      BY <1>1, <1>2, <1>9 DEF Counted
    <3>2. WaitsBefore(t, Len(s) + 2) = WaitsBefore(t, Len(s) + 1)
      BY <1>1, <1>2
    <3>3. \A k \in 1..(Len(t) + 1) : k \in 1..(Len(s) + 1) \/ k = Len(s) + 2
      BY <1>1
    <3>4. Len(s) + 1 \in 1..(Len(s) + 1)
      BY <1>1
    <3> QED
      BY <3>1, <3>2, <3>3, <3>4
  <2>4. n = Cardinality(Calls(t, w, Len(t)))
    <3>1. n - Weight(f) = Cardinality(Calls(s, w, Len(s)))
      BY <1>9 DEF Counted
    <3>2. Cardinality(Calls(s, w, Len(s))) \in Nat
      BY <1>1, <2>2, CallsFinite
    <3> QED
      BY <1>1, <1>3, <1>7, <2>2, <3>1, <3>2
  <2>5. ASSUME NEW i \in Waits(t)
        PROVE  t[i].saved = Cardinality(Calls(t, Max0(WaitsBefore(t, i)), i))
    <3>1. s[i].saved = Cardinality(Calls(s, Max0(WaitsBefore(s, i)), i))
      BY <1>2, <1>9 DEF Counted
    <3>2. Max0(WaitsBefore(s, i)) \in WaitsBefore(s, i) \union {0}
      BY <1>2, <1>5, <1>9, LastWait
    <3>3. Max0(WaitsBefore(s, i)) \in Nat
      BY <3>2 DEF WaitsBefore, Waits
    <3> QED
      BY <1>1, <1>2, <1>3, <1>5, <3>1, <3>3
  <2> QED
    BY <1>6, <2>3, <2>4, <2>5 DEF Counted
<1> QED
  BY <1>8, <1>9 DEF t

\* A wait keeps the level, and starts to count anew.
LEMMA CountWait ==
    ASSUME NEW s \in Seq(Frames), NEW g \in Frames, IsWaiting(g)
    PROVE  /\ Counted(s, g.saved - 1) /\ g.saved \in Int => Counted(Append(s, g), 0)
           /\ \A n : Counted(Append(s, g), n) => Counted(s, g.saved - 1)
<1> DEFINE t == Append(s, g)
           w == Max0(WaitsBefore(s, Len(s) + 1))
<1>1. /\ t \in Seq(Frames) /\ Len(t) = Len(s) + 1 /\ Len(s) \in Nat
      /\ \A i \in 1..Len(s) : t[i] = s[i]
      /\ t[Len(s) + 1] = g
  BY Pushed
<1>2. /\ \A k \in 1..(Len(s) + 1) : WaitsBefore(t, k) = WaitsBefore(s, k)
      /\ WaitsBefore(t, Len(s) + 2) = Waits(t)
      /\ WaitsBefore(s, Len(s) + 1) = Waits(s)
      /\ Waits(t) = Waits(s) \union {Len(s) + 1}
  BY WaitsPushed
<1>3. Weight(g) = 1
  BY DEF Weight, IsPublicCall, IsWaiting
<1>4. /\ \A v \in Nat, i \in 1..Len(s) : Calls(t, v, i) = Calls(s, v, i)
      /\ w \in Nat /\ w <= Len(s) =>
           Cardinality(Calls(t, w, Len(s) + 1)) = Cardinality(Calls(s, w, Len(s))) + 1
  BY <1>3, CallsPushed
<1> HIDE DEF t
<1>5. ASSUME NEW i \in Waits(s) PROVE i \in 1..Len(s) /\ i \in 1..(Len(s) + 1)
  BY <1>1 DEF Waits
<1>6. w = Max0(WaitsBefore(t, Len(s) + 1)) /\ Len(s) + 1 \in 1..(Len(s) + 1)
  BY <1>1, <1>2
<1>7. ASSUME Counted(s, g.saved - 1), g.saved \in Int PROVE Counted(t, 0)
  <2>1. w \in WaitsBefore(s, Len(s) + 1) \union {0}
    BY <1>6, <1>7, LastWait
  <2>2. w \in Nat /\ w <= Len(s)
    BY <1>1, <1>2, <1>5, <2>1
  <2>3. ASSUME NEW k \in 1..(Len(t) + 1)
        PROVE  \E m \in WaitsBefore(t, k) \union {0} : \A v \in WaitsBefore(t, k) \union {0} : v <= m
    <3>1. CASE k \in 1..(Len(s) + 1)
      BY <1>2, <1>7, <3>1 DEF Counted
    <3>2. CASE k = Len(s) + 2
      <4>1. Len(s) + 1 \in WaitsBefore(t, k)
        BY <1>2, <3>2
      <4>2. \A v \in WaitsBefore(t, k) \union {0} : v <= Len(s) + 1
        BY <1>1, <1>2, <1>5, <3>2
      <4> QED
        BY <4>1, <4>2
    <3> QED
      BY <1>1, <3>1, <3>2
  <2>4. Cardinality(Calls(t, Max0(WaitsBefore(t, Len(t) + 1)), Len(t))) = 0
    <3> DEFINE S == WaitsBefore(t, Len(t) + 1)
    <3>1. S = Waits(s) \union {Len(s) + 1}
      BY <1>1, <1>2
    <3> HIDE DEF S
    <3>2. Max0(S) = Len(s) + 1
      <4>1. \A v \in S \union {0} : v \in Nat /\ v <= Len(s) + 1
        BY <1>1, <1>5, <3>1
      <4>2. Len(s) + 1 \in S \union {0} /\ \A v \in S : v <= Len(s) + 1
        BY <3>1, <4>1
      <4>3. Max0(S) \in S \union {0} /\ \A v \in S : v <= Max0(S)
        BY <4>2 DEF Max0
      <4> DEFINE m == Max0(S)
      <4> HIDE DEF m
      <4>4. m \in Nat /\ m <= Len(s) + 1
        BY <4>1, <4>3 DEF m
      <4>5. Len(s) + 1 <= m
        BY <3>1, <4>3 DEF m
      <4> QED
        BY <1>1, <4>4, <4>5 DEF m
    <3>3. Calls(t, Len(s) + 1, Len(s) + 1) = {}
      BY <1>1 DEF Calls
    <3> QED
      BY <1>1, <3>2, <3>3, FS_EmptySet DEF S
  <2>5. ASSUME NEW i \in Waits(t)
        PROVE  t[i].saved = Cardinality(Calls(t, Max0(WaitsBefore(t, i)), i))
    <3>1. CASE i \in Waits(s)
      <4>1. s[i].saved = Cardinality(Calls(s, Max0(WaitsBefore(s, i)), i))
        BY <1>7, <3>1 DEF Counted
      <4>2. Max0(WaitsBefore(s, i)) \in WaitsBefore(s, i) \union {0}
        BY <1>5, <1>7, <3>1, LastWait
      <4>3. Max0(WaitsBefore(s, i)) \in Nat
        BY <4>2 DEF WaitsBefore, Waits
      <4> QED
        BY <1>1, <1>2, <1>4, <1>5, <3>1, <4>1, <4>3
    <3>2. CASE i = Len(s) + 1
      <4>1. g.saved - 1 = Cardinality(Calls(s, w, Len(s)))
        BY <1>7 DEF Counted
      <4>2. Cardinality(Calls(s, w, Len(s))) \in Nat
        BY <1>1, <2>2, CallsFinite
      <4>3. g.saved = Cardinality(Calls(t, w, Len(s) + 1))
        BY <1>4, <1>7, <2>2, <4>1, <4>2
      <4> QED
        BY <1>1, <1>6, <3>2, <4>3
    <3> QED
      BY <1>2, <3>1, <3>2
  <2> QED
    BY <2>3, <2>4, <2>5 DEF Counted
<1>8. ASSUME NEW n, Counted(t, n) PROVE Counted(s, g.saved - 1)
  <2>1. \A k \in 1..(Len(s) + 1) :
          \E m \in WaitsBefore(s, k) \union {0} : \A v \in WaitsBefore(s, k) \union {0} : v <= m
    <3> SUFFICES ASSUME NEW k \in 1..(Len(s) + 1)
                 PROVE  \E m \in WaitsBefore(s, k) \union {0} :
                           \A v \in WaitsBefore(s, k) \union {0} : v <= m
      OBVIOUS
    <3>1. k \in 1..(Len(t) + 1) /\ WaitsBefore(s, k) = WaitsBefore(t, k)
      BY <1>1, <1>2
    <3> QED
      BY <1>8, <3>1 DEF Counted
  <2>2. w \in Nat /\ w <= Len(s)
    <3>1. Len(s) + 1 \in 1..(Len(t) + 1)
      BY <1>1
    <3>2. Max0(WaitsBefore(t, Len(s) + 1)) \in WaitsBefore(t, Len(s) + 1) \union {0}
      BY <1>1, <1>8, <3>1, LastWait
    <3> QED
      BY <1>1, <1>2, <1>5, <1>6, <3>2
  <2>3. g.saved - 1 = Cardinality(Calls(s, w, Len(s)))
    <3>1. Len(s) + 1 \in Waits(t)
      BY <1>2
    <3>2. t[Len(s) + 1].saved = Cardinality(Calls(t, Max0(WaitsBefore(t, Len(s) + 1)), Len(s) + 1))
      BY <1>8, <3>1 DEF Counted
    <3>3. g.saved = Cardinality(Calls(t, w, Len(s) + 1))
      BY <1>1, <1>6, <3>2
    <3>4. Cardinality(Calls(s, w, Len(s))) \in Nat
      BY <1>1, <2>2, CallsFinite
    <3> QED
      BY <1>4, <2>2, <3>3, <3>4
  <2>4. ASSUME NEW i \in Waits(s)
        PROVE  s[i].saved = Cardinality(Calls(s, Max0(WaitsBefore(s, i)), i))
    <3>1. t[i].saved = Cardinality(Calls(t, Max0(WaitsBefore(t, i)), i))
      BY <1>2, <1>8 DEF Counted
    <3>2. i \in 1..(Len(t) + 1)
      BY <1>1, <1>5
    <3>3. Max0(WaitsBefore(t, i)) \in WaitsBefore(t, i) \union {0}
      BY <1>1, <1>8, <3>2, LastWait
    <3>4. Max0(WaitsBefore(t, i)) \in Nat
      BY <3>3 DEF WaitsBefore, Waits
    <3> QED
      BY <1>1, <1>2, <1>4, <1>5, <3>1, <3>4
  <2> QED
    BY <2>1, <2>3, <2>4 DEF Counted
<1> QED
  BY <1>7, <1>8 DEF t

---------------------------------------------------------------------------
(* What the stack holds.                                                   *)

NoInit(s) == \A i \in 1..Len(s) : s[i].op # "od_init"
NoExit(s) == \A i \in 1..Len(s) : s[i].op # "od_exit"

\* The requests of a batch and of those of the whole stack.
InBatch(b) == {b[k].n : k \in 1..Len(b)}
Holds(f) == IF f.op = "dispatch" THEN InBatch(f.batch) ELSE {}
Carried(s) == {x \in 1..MaxRequests : \E i \in 1..Len(s) : x \in Holds(s[i])}
Distinct(b) == \A j, k \in 1..Len(b) : j # k => b[j].n # b[k].n

\* od_init is the innermost activation while it runs.  Only while the session
\* is being ended (e) is there an od_exit, a single one, and it is that of the
\* first request (c).  A request is in one batch at most.
Orderly(s, e, c) ==
    /\ s \in Seq(Frames)
    /\ \A i \in 1..Len(s) : s[i].op = "od_init" => i = Len(s)
    /\ \A i \in 1..Len(s) : s[i].op = "od_exit" => e /\ s[i].code = c
    /\ \A i, j \in 1..Len(s) : s[i].op = "od_exit" /\ s[j].op = "od_exit" => i = j
    /\ \A i \in 1..Len(s) : s[i].op = "dispatch" =>
          Distinct(s[i].batch) /\ (s[i].at = "refresh" => s[i].batch = << >>)
    /\ \A i, j \in 1..Len(s) : i # j => Holds(s[i]) \intersect Holds(s[j]) = {}

Stack(s, n, e, c) == Orderly(s, e, c) /\ n \in Int /\ Counted(s, n)

Light(f) == f.op = "dispatch" => f.batch = << >>

\* A frame whose batch may join those of the stack.
Fits(s, f) ==
    /\ f.op = "dispatch" => Distinct(f.batch) /\ (f.at = "refresh" => f.batch = << >>)
    /\ \A i \in 1..Len(s) : Holds(f) \intersect Holds(s[i]) = {}

LEMMA LightFits ==
    ASSUME NEW f, Light(f)
    PROVE  Holds(f) = {} /\ \A s : Fits(s, f)
BY DEF Light, Holds, InBatch, Distinct, Fits

LEMMA HoldsRequests ==
    ASSUME NEW f \in Frames
    PROVE  Holds(f) \subseteq 1..MaxRequests
<1>1. CASE f.op = "dispatch"
  <2>1. f.batch \in Seq(Request)
    BY <1>1 DEF Frames, FrameType
  <2>2. \A k \in 1..Len(f.batch) : f.batch[k] \in Request
    BY <2>1
  <2>3. \A r \in Request : r.n \in 1..MaxRequests
    BY DEF Request
  <2> QED
    BY <1>1, <2>2, <2>3 DEF Holds, InBatch
<1>2. CASE f.op # "dispatch"
  BY <1>2 DEF Holds
<1> QED
  BY <1>1, <1>2

LEMMA OrderlyPop ==
    ASSUME NEW s \in Seq(Frames), NEW f \in Frames, NEW e, NEW c, Orderly(Append(s, f), e, c)
    PROVE  /\ Orderly(s, e, c) /\ NoInit(s)
           /\ f.op = "od_exit" => NoExit(s) /\ e /\ f.code = c
           /\ Fits(s, f)
           /\ Carried(Append(s, f)) = Carried(s) \union Holds(f)
           /\ Carried(s) \intersect Holds(f) = {}
<1> DEFINE t == Append(s, f)
<1>1. /\ t \in Seq(Frames) /\ Len(t) = Len(s) + 1 /\ Len(s) \in Nat
      /\ \A i \in 1..Len(s) : t[i] = s[i]
      /\ t[Len(s) + 1] = f
  BY Pushed
<1>2. Orderly(t, e, c)
  OBVIOUS
<1> HIDE DEF t
<1>3. Len(s) + 1 \in 1..Len(t) /\ \A i \in 1..Len(s) : i \in 1..Len(t) /\ i # Len(s) + 1
  BY <1>1
<1>4. Orderly(s, e, c)
  BY <1>1, <1>2, <1>3 DEF Orderly
<1>5. NoInit(s)
  BY <1>1, <1>2, <1>3 DEF Orderly, NoInit
<1>6. f.op = "od_exit" => NoExit(s) /\ e /\ f.code = c
  BY <1>1, <1>2, <1>3 DEF Orderly, NoExit
<1>7. Fits(s, f)
  <2>1. f.op = "dispatch" => Distinct(f.batch) /\ (f.at = "refresh" => f.batch = << >>)
    BY <1>1, <1>2, <1>3 DEF Orderly
  <2>2. \A i \in 1..Len(s) : Holds(t[i]) \intersect Holds(t[Len(s) + 1]) = {}
    BY <1>2, <1>3 DEF Orderly
  <2> QED
    BY <1>1, <2>1, <2>2 DEF Fits
<1>8. \A i \in 1..Len(t) : i \in 1..Len(s) \/ i = Len(s) + 1
  BY <1>1
<1>9. Carried(t) = Carried(s) \union Holds(f)
  BY <1>1, <1>3, <1>8, HoldsRequests DEF Carried
<1>10. Carried(s) \intersect Holds(f) = {}
  BY <1>7 DEF Fits, Carried
<1> QED
  BY <1>4, <1>5, <1>6, <1>7, <1>9, <1>10 DEF t

LEMMA Pop ==
    ASSUME NEW s \in Seq(Frames), NEW f \in Frames, ~IsWaiting(f), NEW n, NEW e, NEW c,
           Stack(Append(s, f), n, e, c)
    PROVE  /\ Stack(s, n - Weight(f), e, c) /\ NoInit(s)
           /\ f.op = "od_exit" => NoExit(s) /\ e /\ f.code = c
           /\ Fits(s, f)
           /\ Carried(Append(s, f)) = Carried(s) \union Holds(f)
           /\ Carried(s) \intersect Holds(f) = {}
<1>1. Orderly(Append(s, f), e, c) /\ n \in Int /\ Counted(Append(s, f), n)
  BY DEF Stack
<1>2. Counted(s, n - Weight(f)) /\ n - Weight(f) \in Int
  BY <1>1, CountFrame DEF Weight
<1> QED
  BY <1>1, <1>2, OrderlyPop DEF Stack

LEMMA OrderlyPush ==
    ASSUME NEW s \in Seq(Frames), NEW f \in Frames, NEW e, NEW c, Orderly(s, e, c), NoInit(s),
           f.op = "od_exit" => NoExit(s) /\ e /\ f.code = c, Fits(s, f)
    PROVE  /\ Orderly(Append(s, f), e, c)
           /\ f.op # "od_init" => NoInit(Append(s, f))
           /\ Carried(Append(s, f)) = Carried(s) \union Holds(f)
<1> DEFINE t == Append(s, f)
<1>1. /\ t \in Seq(Frames) /\ Len(t) = Len(s) + 1 /\ Len(s) \in Nat
      /\ \A i \in 1..Len(s) : t[i] = s[i]
      /\ t[Len(s) + 1] = f
  BY Pushed
<1> HIDE DEF t
<1>2. \A i \in 1..Len(t) : i \in 1..Len(s) \/ (i = Len(s) + 1 /\ t[i] = f)
  BY <1>1
<1>3. \A i \in 1..Len(s) : i \in 1..Len(t)
  BY <1>1
<1>4. \A i \in 1..Len(t) : t[i].op = "od_init" => i = Len(t)
  BY <1>1, <1>2 DEF NoInit
<1>5. \A i \in 1..Len(t) : t[i].op = "od_exit" => e /\ t[i].code = c
  BY <1>1, <1>2 DEF Orderly
<1>6. \A i, j \in 1..Len(t) : t[i].op = "od_exit" /\ t[j].op = "od_exit" => i = j
  BY <1>1, <1>2 DEF Orderly, NoExit
<1>7. \A i \in 1..Len(t) : t[i].op = "dispatch" =>
         Distinct(t[i].batch) /\ (t[i].at = "refresh" => t[i].batch = << >>)
  BY <1>1, <1>2 DEF Orderly, Fits
<1>8. \A i, j \in 1..Len(t) : i # j => Holds(t[i]) \intersect Holds(t[j]) = {}
  BY <1>1, <1>2 DEF Orderly, Fits
<1>9. f.op # "od_init" => NoInit(t)
  BY <1>1, <1>2 DEF NoInit
<1>10. Carried(t) = Carried(s) \union Holds(f)
  BY <1>1, <1>2, <1>3, HoldsRequests DEF Carried
<1> QED
  BY <1>1, <1>4, <1>5, <1>6, <1>7, <1>8, <1>9, <1>10 DEF Orderly, t

LEMMA Push ==
    ASSUME NEW s \in Seq(Frames), NEW f \in Frames, ~IsWaiting(f), NEW n, NEW e, NEW c,
           Stack(s, n, e, c), NoInit(s),
           f.op = "od_exit" => NoExit(s) /\ e /\ f.code = c, Fits(s, f)
    PROVE  /\ Stack(Append(s, f), n + Weight(f), e, c)
           /\ f.op # "od_init" => NoInit(Append(s, f))
           /\ Carried(Append(s, f)) = Carried(s) \union Holds(f)
<1>1. Orderly(s, e, c) /\ n \in Int /\ Counted(s, n)
  BY DEF Stack
<1>2. n + Weight(f) \in Int /\ (n + Weight(f)) - Weight(f) = n
  BY <1>1 DEF Weight
<1>3. Counted(Append(s, f), n + Weight(f))
  BY <1>1, <1>2, CountFrame
<1> QED
  BY <1>1, <1>2, <1>3, OrderlyPush DEF Stack

\* The innermost activation goes on.
LEMMA Turn ==
    ASSUME NEW s \in Seq(Frames), NEW f \in Frames, NEW g \in Frames,
           ~IsWaiting(f), ~IsWaiting(g), Weight(f) = Weight(g), g.op = f.op,
           f.op # "od_init", f.op = "od_exit" => g.code = f.code, Light(f), Light(g),
           NEW n, NEW e, NEW c, Stack(Append(s, f), n, e, c)
    PROVE  /\ Stack(Append(s, g), n, e, c) /\ NoInit(Append(s, g))
           /\ Carried(Append(s, g)) = Carried(Append(s, f))
<1>1. Holds(f) = {} /\ Holds(g) = {} /\ Fits(s, g)
  BY LightFits
<1>2. /\ Stack(s, n - Weight(f), e, c) /\ NoInit(s)
      /\ f.op = "od_exit" => NoExit(s) /\ e /\ f.code = c
      /\ Carried(Append(s, f)) = Carried(s) \union Holds(f)
  BY Pop
<1>3. /\ Stack(Append(s, g), (n - Weight(f)) + Weight(g), e, c)
      /\ g.op # "od_init" => NoInit(Append(s, g))
      /\ Carried(Append(s, g)) = Carried(s) \union Holds(g)
  BY <1>1, <1>2, Push
<1>4. n \in Int /\ Weight(f) \in Int
  BY DEF Stack, Weight
<1>5. (n - Weight(f)) + Weight(g) = n
  BY <1>4
<1> QED
  BY <1>1, <1>2, <1>3, <1>5

---------------------------------------------------------------------------
(* Steps of the innermost activation.                                      *)

\* Where an activation goes on, other than from a wait.
Legal(op, at) ==
    \/ op = "od_get_key"
       /\ at \in {"kernel", "waits", "checkpoint", "checked", "leaving", "left"}
    \/ op = "od_chat" /\ at \in {"chat", "leaving", "left"}
    \/ op = "od_kernel"
       /\ at \in {"entered", "hooked", "poll", "keys", "resumes", "time", "leaving", "left"}
    \/ op = "od_exit" /\ at \in {"hook", "deciding", "closing"}
    \/ op = "chat" /\ at \in {"kernel", "opening", "talking", "ended", "closing"}
    \/ op = "dispatch" /\ at \in {"loop", "refresh"}
    \/ op = "callback" /\ at \in {"ker_exec", "chat", "before_exit"}

LEMMA FramesMade ==
    /\ \A at \in {"starting", "done"} : Frame("od_init", at) \in Frames
    /\ \A at \in {"chat", "leaving", "left"} : Frame("od_chat", at) \in Frames
    /\ Frame("od_kernel", "entered") \in Frames
    /\ Frame("chat", "kernel") \in Frames
    /\ \A at \in {"ker_exec", "chat", "before_exit"} : Frame("callback", at) \in Frames
    /\ \A at \in {"kernel", "waiting"}, n \in Int : GetKey(at, n) \in Frames
    /\ \A at \in {"initializing", "hook", "deciding", "closing"}, nested \in BOOLEAN, c \in Code :
          Exit(at, nested, c) \in Frames
    /\ \A b \in Seq(Request) : Dispatch(b) \in Frames
BY DEF Frames, FrameType, Frame, GetKey, Exit, Dispatch

LEMMA FrameGoesOn ==
    ASSUME NEW f \in Frames, NEW x, Legal(f.op, f.at), Legal(f.op, x)
    PROVE  LET g == [f EXCEPT !.at = x]
           IN  /\ g \in Frames /\ g.op = f.op /\ g.at = x
               /\ ~IsWaiting(f) /\ ~IsWaiting(g) /\ Weight(f) = Weight(g)
               /\ f.op = "od_exit" => g.code = f.code /\ g.nested = f.nested
               /\ f.op = "dispatch" => g.batch = f.batch
<1> DEFINE g == [f EXCEPT !.at = x]
<1>1. CASE f.op = "od_get_key"
  BY <1>1 DEF Frames, FrameType, Legal, IsWaiting, Weight, IsPublicCall
<1>2. CASE f.op = "od_chat"
  BY <1>2 DEF Frames, FrameType, Legal, IsWaiting, Weight, IsPublicCall
<1>3. CASE f.op = "od_kernel"
  BY <1>3 DEF Frames, FrameType, Legal, IsWaiting, Weight, IsPublicCall
<1>4. CASE f.op = "od_exit"
  BY <1>4 DEF Frames, FrameType, Legal, IsWaiting, Weight, IsPublicCall
<1>5. CASE f.op = "chat"
  BY <1>5 DEF Frames, FrameType, Legal, IsWaiting, Weight, IsPublicCall
<1>6. CASE f.op = "dispatch"
  BY <1>6 DEF Frames, FrameType, Legal, IsWaiting, Weight, IsPublicCall
<1>7. CASE f.op = "callback"
  BY <1>7 DEF Frames, FrameType, Legal, IsWaiting, Weight, IsPublicCall
<1> QED
  BY <1>1, <1>2, <1>3, <1>4, <1>5, <1>6, <1>7 DEF Legal

LEMMA TopFrame ==
    ASSUME NEW n, NEW e, NEW c, Stack(flow, n, e, c), flow # << >>
    PROVE  Below \in Seq(Frames) /\ Top \in Frames /\ flow = Append(Below, Top)
           /\ Len(flow) \in 1..Len(flow) /\ Top = flow[Len(flow)]
<1>1. flow \in Seq(Frames)
  BY DEF Stack, Orderly
<1> QED
  BY <1>1 DEF Below, Top, Front, Last

LEMMA Proceed ==
    ASSUME NEW n, NEW e, NEW c, Stack(flow, n, e, c), flow # << >>,
           NEW x, Legal(Top.op, Top.at), Legal(Top.op, x), Light(Top)
    PROVE  /\ Stack(At(x), n, e, c) /\ NoInit(At(x))
           /\ Carried(At(x)) = Carried(flow) /\ At(x) # << >> /\ At(x) \in Seq(Frames)
<1> DEFINE f == Top
           g == [Top EXCEPT !.at = x]
<1>1. Below \in Seq(Frames) /\ f \in Frames /\ flow = Append(Below, f)
  BY TopFrame
<1>2. /\ g \in Frames /\ g.op = f.op /\ g.at = x
      /\ ~IsWaiting(f) /\ ~IsWaiting(g) /\ Weight(f) = Weight(g)
      /\ f.op = "od_exit" => g.code = f.code /\ g.nested = f.nested
      /\ f.op = "dispatch" => g.batch = f.batch
  BY <1>1, FrameGoesOn
<1>3. f.op # "od_init" /\ Light(f) /\ Light(g)
  BY <1>2 DEF Legal, Light
<1>4. At(x) = Append(Below, g)
  BY DEF At
<1> HIDE DEF f, g
<1>5. /\ Stack(Append(Below, g), n, e, c) /\ NoInit(Append(Below, g))
      /\ Carried(Append(Below, g)) = Carried(Append(Below, f))
  BY <1>1, <1>2, <1>3, Turn
<1> QED
  BY <1>1, <1>2, <1>4, <1>5

\* OD_API_ENTRY by f.
LEMMA Entering ==
    ASSUME NEW s \in Seq(Frames), NEW f \in Frames, NEW e, NEW c, Stack(s, level, e, c),
           NoInit(s), IsPublicCall(f), ~IsWaiting(f),
           f.op = "od_exit" => NoExit(s) /\ e /\ f.code = c, Enter(s, f)
    PROVE  /\ Stack(flow', level', e, c) /\ NoInit(flow') /\ Carried(flow') = Carried(s)
<1> DEFINE d == Dispatch(<< >>)
           t == Append(s, f)
<1>1. f.op # "dispatch" /\ f.op # "od_init" /\ Weight(f) = 1
  BY DEF IsPublicCall, Weight
<1>2. Light(f) /\ Holds(f) = {} /\ Fits(s, f)
  BY <1>1, LightFits DEF Light
<1>3. /\ Stack(t, level + Weight(f), e, c)
      /\ f.op # "od_init" => NoInit(t)
      /\ Carried(t) = Carried(s) \union Holds(f)
  BY <1>2, Push
<1>4. t \in Seq(Frames)
  OBVIOUS
<1>5. /\ d \in Frames /\ d.op = "dispatch" /\ Light(d) /\ Weight(d) = 0 /\ ~IsWaiting(d)
  <2>1. << >> \in Seq(Request)
    OBVIOUS
  <2> QED
    BY <2>1, FramesMade DEF Dispatch, Light, Weight, IsPublicCall, IsWaiting
<1> HIDE DEF d, t
<1>6. Holds(d) = {} /\ Fits(t, d)
  BY <1>5, LightFits
<1>7. /\ Stack(Append(t, d), (level + 1) + Weight(d), e, c)
      /\ d.op # "od_init" => NoInit(Append(t, d))
      /\ Carried(Append(t, d)) = Carried(t) \union Holds(d)
  BY <1>1, <1>3, <1>4, <1>5, <1>6, Push
<1>8. level' = level + 1 /\ (level + 1) + Weight(d) = level + 1
  BY <1>5 DEF Enter, Stack
<1>9. flow' = t \/ flow' = Append(t, d)
  BY DEF Enter, d, t
<1> QED
  BY <1>1, <1>2, <1>3, <1>5, <1>6, <1>7, <1>8, <1>9

\* Frames that are pushed on another without being a public call.
Inner(g) ==
    /\ g \in Frames /\ Light(g) /\ Weight(g) = 0 /\ ~IsWaiting(g)
    /\ g.op # "od_exit" /\ g.op # "od_init"

LEMMA InnerFrames ==
    /\ Inner(Dispatch(<< >>)) /\ Inner(Frame("chat", "kernel"))
    /\ \A at \in {"ker_exec", "chat", "before_exit"} : Inner(Frame("callback", at))
<1>1. << >> \in Seq(Request)
  OBVIOUS
<1> QED
  BY <1>1, FramesMade
     DEF Inner, Light, Weight, IsPublicCall, IsWaiting, Frame, Dispatch

LEMMA PushInner ==
    ASSUME NEW s \in Seq(Frames), NEW n, NEW e, NEW c, Stack(s, n, e, c), NoInit(s),
           NEW g, Inner(g)
    PROVE  /\ Stack(Append(s, g), n, e, c) /\ NoInit(Append(s, g))
           /\ Carried(Append(s, g)) = Carried(s)
<1>1. /\ g \in Frames /\ Weight(g) = 0 /\ ~IsWaiting(g) /\ Holds(g) = {} /\ Fits(s, g)
      /\ g.op # "od_exit" /\ g.op # "od_init"
  BY LightFits DEF Inner
<1>2. n + Weight(g) = n
  BY <1>1 DEF Stack
<1>3. /\ Stack(Append(s, g), n + Weight(g), e, c)
      /\ g.op # "od_init" => NoInit(Append(s, g))
      /\ Carried(Append(s, g)) = Carried(s) \union Holds(g)
  BY <1>1, Push
<1> QED
  BY <1>1, <1>2, <1>3

LEMMA Callbacks ==
    ASSUME NEW s \in Seq(Frames), NEW n, NEW e, NEW c, Stack(s, n, e, c), NoInit(s),
           NEW owner \in {"ker_exec", "chat", "before_exit"}, NEW t \in WithCallback(s, owner)
    PROVE  Stack(t, n, e, c) /\ NoInit(t) /\ Carried(t) = Carried(s)
<1>1. Inner(Frame("callback", owner))
  BY InnerFrames
<1>2. t = s \/ t = Append(s, Frame("callback", owner))
  BY DEF WithCallback
<1> QED
  BY <1>1, <1>2, PushInner

LEMMA RunningKernel ==
    ASSUME NEW s \in Seq(Frames), NEW e, NEW c, Stack(s, level, e, c), NoInit(s), RunKernel(s)
    PROVE  /\ Stack(flow', level', e, c) /\ NoInit(flow') /\ Carried(flow') = Carried(s)
<1> DEFINE k == Frame("od_kernel", "entered")
<1>1. k \in Frames
  BY FramesMade
<1>2. IsPublicCall(k) /\ ~IsWaiting(k) /\ k.op # "od_exit"
  BY DEF IsPublicCall, IsWaiting, Frame
<1>3. Enter(s, k) \/ (flow' = s /\ level' = level)
  BY DEF RunKernel
<1> HIDE DEF k
<1> QED
  BY <1>1, <1>2, <1>3, Entering

LEMMA Return ==
    ASSUME NEW n, NEW e, NEW c, Stack(flow, n, e, c), flow # << >>,
           ~IsWaiting(Top), Light(Top)
    PROVE  /\ Stack(Below, n - Weight(Top), e, c) /\ NoInit(Below)
           /\ Carried(Below) = Carried(flow)
<1> DEFINE f == Top
           s == Below
<1>1. s \in Seq(Frames) /\ f \in Frames /\ flow = Append(s, f)
  BY TopFrame
<1>2. Holds(f) = {}
  BY LightFits
<1> HIDE DEF f, s
<1>3. ~IsWaiting(f) /\ Light(f)
  BY DEF f
<1>4. /\ Stack(s, n - Weight(f), e, c) /\ NoInit(s)
      /\ Carried(Append(s, f)) = Carried(s) \union Holds(f)
  BY <1>1, <1>3, Pop
<1> QED
  BY <1>1, <1>2, <1>4 DEF f, s

---------------------------------------------------------------------------
(* The invariant.                                                          *)

Done == {applied[i] : i \in 1..Len(applied)}

\* The exit that is pending is that of the first request, and the session is
\* being ended, or has ended, once there was one.  od_init runs while the
\* session is initialized.  The FIFO is destroyed with the frame's thread.
Ending ==
    /\ lifecycle = "NeverStarted" =>
          flow = << >> /\ first = NoCode /\ pending = NoCode /\ ~exiting /\ ~early
    /\ lifecycle \in {"NeverStarted", "Initializing"} =>
          asked = 0 /\ fifo = << >> /\ frame = "idle"
    /\ \A i \in 1..Len(flow) : flow[i].op = "od_init" =>
          lifecycle = (IF flow[i].at = "starting" THEN "Initializing" ELSE "Active")
    /\ lifecycle = "Initializing" =>
          flow # << >> /\ Top.op = "od_init" /\ (early \/ first = NoCode)
    /\ early => flow # << >> /\ Top.op = "od_init" /\ pending # NoCode
    /\ pending # NoCode => pending = first
    /\ lifecycle = "ExitPending" => pending # NoCode /\ ~exiting
    /\ exiting => first # NoCode
    /\ first # NoCode => exiting \/ early \/ lifecycle \in {"ExitPending", "Terminal"}
    /\ lifecycle = "Terminal" => ~exiting /\ fifo = << >> /\ frame = "stopped"
    /\ result # NoCode => result = first
    /\ pending \in Code \union {NoCode}

\* A request waits in the FIFO, is in a batch, or has been carried out.
Numbering ==
    /\ fifo \in Seq(Request) /\ asked \in 0..MaxRequests /\ applied \in Seq(1..MaxRequests)
    /\ frame = "queueing" => asked < MaxRequests
    /\ Distinct(fifo)
    /\ \A i, j \in 1..Len(applied) : i # j => applied[i] # applied[j]
    /\ InBatch(fifo) \union Carried(flow) \union Done \subseteq 1..asked
    /\ InBatch(fifo) \intersect Carried(flow) = {}
    /\ InBatch(fifo) \intersect Done = {}
    /\ Carried(flow) \intersect Done = {}
    /\ lifecycle = "Active" => 1..asked \subseteq InBatch(fifo) \union Carried(flow) \union Done

SessionInv == Stack(flow, level, exiting, first) /\ Ending /\ Numbering

\* od_init does not run.
Started == NoInit(flow) /\ ~early /\ lifecycle \notin {"NeverStarted", "Initializing"}

LEMMA TopStarted ==
    ASSUME SessionInv, flow # << >>, Top.op # "od_init"
    PROVE  Started
<1>1. flow[Len(flow)].op # "od_init" /\ flow \in Seq(Frames)
  BY DEF SessionInv, Stack, Orderly, Top, Last
<1>2. NoInit(flow)
  BY <1>1 DEF SessionInv, Stack, Orderly, NoInit
<1> QED
  BY <1>2 DEF SessionInv, Ending, Started

LEMMA AppStarted ==
    ASSUME SessionInv, ApplicationRuns, Open
    PROVE  Started
<1>1. CASE flow = << >>
  BY <1>1 DEF SessionInv, Ending, Started, NoInit, Open
<1>2. CASE flow # << >>
  BY <1>2, TopStarted DEF ApplicationRuns
<1> QED
  BY <1>1, <1>2

Kept == Stack(flow', level', exiting', first') /\ NoInit(flow') /\ Carried(flow') = Carried(flow)

\* Steps that neither ask for an exit nor carry one out.
LEMMA Calm ==
    ASSUME SessionInv, Started, Kept, UNCHANGED <<lifecycle, ending, fifo, frame, asked, applied>>
    PROVE  SessionInv'
<1>1. Stack(flow, level, exiting, first)'
  BY DEF Kept
<1>2. Ending'
  BY DEF Kept, Started, SessionInv, Ending, ending, NoInit
<1>3. Numbering'
  BY DEF Kept, SessionInv, Numbering, ending, Done
<1> QED
  BY <1>1, <1>2, <1>3 DEF SessionInv

LEMMA StackNow ==
    ASSUME SessionInv
    PROVE  /\ Stack(flow, level, exiting, first) /\ flow \in Seq(Frames) /\ level \in Int
           /\ \A i \in 1..Len(flow) :
                 flow[i].op = "dispatch" /\ flow[i].at = "refresh" => flow[i].batch = << >>
BY DEF SessionInv, Stack, Orderly

\* The activation at one place goes on at another, with or without one more on
\* top of it; or it returns.
LEMMA Continue ==
    ASSUME SessionInv, flow # << >>, NEW x, Legal(Top.op, Top.at), Legal(Top.op, x), Light(Top)
    PROVE  /\ Started
           /\ Stack(At(x), level, exiting, first) /\ NoInit(At(x)) /\ At(x) \in Seq(Frames)
           /\ Carried(At(x)) = Carried(flow)
           /\ \A g : Inner(g) =>
                 /\ Stack(Append(At(x), g), level, exiting, first) /\ NoInit(Append(At(x), g))
                 /\ Carried(Append(At(x), g)) = Carried(flow)
<1>1. Started
  BY TopStarted DEF Legal
<1>2. /\ Stack(At(x), level, exiting, first) /\ NoInit(At(x))
      /\ Carried(At(x)) = Carried(flow) /\ At(x) # << >> /\ At(x) \in Seq(Frames)
  BY StackNow, Proceed
<1> QED
  BY <1>1, <1>2, PushInner

LEMMA ContinueUnder ==
    ASSUME SessionInv, flow # << >>, NEW x, Legal(Top.op, Top.at), Legal(Top.op, x), Light(Top),
           NEW g, Inner(g)
    PROVE  /\ Stack(Append(At(x), g), level, exiting, first) /\ NoInit(Append(At(x), g))
           /\ Carried(Append(At(x), g)) = Carried(flow)
BY Continue

LEMMA PublicCallStep ==
    ASSUME SessionInv, NEW f, PublicCall(f), f \in Frames, IsPublicCall(f), ~IsWaiting(f),
           f.op # "od_exit"
    PROVE  SessionInv'
<1>1. Started
  BY AppStarted DEF PublicCall
<1>2. Kept /\ UNCHANGED <<lifecycle, ending, fifo, frame, asked, applied>>
  BY <1>1, StackNow, Entering DEF PublicCall, Kept, Started, ending, requests
<1> QED
  BY <1>1, <1>2, Calm

LEMMA CallsStep ==
    ASSUME SessionInv, CallGetKey \/ CallChat \/ CallKernel
    PROVE  SessionInv'
<1>1. CASE CallGetKey
  <2> DEFINE f == GetKey("kernel", 0)
  <2>1. f \in Frames /\ IsPublicCall(f) /\ ~IsWaiting(f) /\ f.op # "od_exit"
    BY FramesMade DEF IsPublicCall, IsWaiting, GetKey
  <2> HIDE DEF f
  <2> QED
    BY <1>1, <2>1, PublicCallStep DEF CallGetKey, f
<1>2. CASE CallChat
  <2> DEFINE f == Frame("od_chat", "chat")
  <2>1. f \in Frames /\ IsPublicCall(f) /\ ~IsWaiting(f) /\ f.op # "od_exit"
    BY FramesMade DEF IsPublicCall, IsWaiting, Frame
  <2> HIDE DEF f
  <2> QED
    BY <1>2, <2>1, PublicCallStep DEF CallChat, f
<1>3. CASE CallKernel
  <2> DEFINE f == Frame("od_kernel", "entered")
  <2>1. f \in Frames /\ IsPublicCall(f) /\ ~IsWaiting(f) /\ f.op # "od_exit"
    BY FramesMade DEF IsPublicCall, IsWaiting, Frame
  <2> HIDE DEF f
  <2> QED
    BY <1>3, <2>1, PublicCallStep DEF CallKernel, f
<1> QED
  BY <1>1, <1>2, <1>3

LEMMA CallbackReturnsStep ==
    ASSUME SessionInv, CallbackReturns
    PROVE  SessionInv'
<1>1. flow # << >> /\ Top.op = "callback" /\ flow' = Below /\ level' = level
      /\ UNCHANGED <<lifecycle, ending, fifo, frame, asked, applied>>
  BY DEF CallbackReturns, ending
<1>2. ~IsWaiting(Top) /\ Light(Top) /\ Weight(Top) = 0
  BY <1>1 DEF IsWaiting, Light, Weight, IsPublicCall
<1>3. level - Weight(Top) = level
  BY <1>2, StackNow
<1>4. Kept
  BY <1>1, <1>2, <1>3, StackNow, Return DEF Kept, ending
<1> QED
  BY <1>1, <1>4, TopStarted, Calm

LEMMA Waiting ==
    ASSUME NEW s \in Seq(Frames), NEW g \in Frames, IsWaiting(g), NEW n, NEW e, NEW c,
           Stack(s, n, e, c), NoInit(s), g.saved = n + 1
    PROVE  /\ Stack(Append(s, g), 0, e, c) /\ NoInit(Append(s, g))
           /\ Carried(Append(s, g)) = Carried(s)
<1>1. Orderly(s, e, c) /\ n \in Int /\ Counted(s, n) /\ n = g.saved - 1 /\ g.saved \in Int
  BY DEF Stack
<1>2. Counted(Append(s, g), 0)
  BY <1>1, CountWait
<1>3. Light(g) /\ Holds(g) = {} /\ Fits(s, g) /\ g.op # "od_exit" /\ g.op # "od_init"
  BY LightFits DEF Light, IsWaiting
<1>4. /\ Orderly(Append(s, g), e, c) /\ NoInit(Append(s, g))
      /\ Carried(Append(s, g)) = Carried(s) \union Holds(g)
  BY <1>1, <1>3, OrderlyPush
<1> QED
  BY <1>2, <1>3, <1>4 DEF Stack

LEMMA Waited ==
    ASSUME NEW s \in Seq(Frames), NEW g \in Frames, IsWaiting(g), NEW n, NEW e, NEW c,
           Stack(Append(s, g), n, e, c)
    PROVE  /\ Stack(s, g.saved - 1, e, c) /\ NoInit(s) /\ g.saved \in Int
           /\ Carried(Append(s, g)) = Carried(s)
<1>1. Orderly(Append(s, g), e, c) /\ Counted(Append(s, g), n)
  BY DEF Stack
<1>2. Counted(s, g.saved - 1)
  BY <1>1, CountWait
<1>3. Light(g) /\ Holds(g) = {}
  BY LightFits DEF Light, IsWaiting
<1>4. /\ Orderly(s, e, c) /\ NoInit(s)
      /\ Carried(Append(s, g)) = Carried(s) \union Holds(g)
  BY <1>1, OrderlyPop
<1>5. g.saved \in Int
  BY DEF IsWaiting, Frames, FrameType
<1> QED
  BY <1>2, <1>3, <1>4, <1>5 DEF Stack

LEMMA GetKeyLemma ==
    ASSUME SessionInv, GetKeyStep
    PROVE  SessionInv'
<1> USE StackNow
<1>1. flow # << >> /\ Top.op = "od_get_key" /\ Light(Top) /\ Started
      /\ UNCHANGED <<lifecycle, ending, fifo, frame, asked, applied>>
  BY TopStarted DEF GetKeyStep, GetKeyRunsKernel, GetKeyWaits, GetKeyPolls, GetKeyWaited,
     CheckpointRunsKernel, CheckpointReturns, On, Light, requests, ending
<1>2. Below \in Seq(Frames) /\ Top \in Frames /\ flow = Append(Below, Top)
  BY <1>1, TopFrame
<1>3. CASE GetKeyRunsKernel
  BY <1>1, <1>3, Continue, RunningKernel, Calm DEF GetKeyRunsKernel, On, Legal, Kept, ending
<1>4. CASE GetKeyWaits
  <2> DEFINE g == GetKey("waiting", level)
  <2>1. g \in Frames /\ IsWaiting(g) /\ g.saved = level
    BY FramesMade DEF GetKey, IsWaiting
  <2>2. ~IsWaiting(Top) /\ Weight(Top) = 1 /\ flow' = Append(Below, g) /\ level' = 0
    BY <1>1, <1>4 DEF GetKeyWaits, On, IsWaiting, Weight, IsPublicCall
  <2>3. /\ Stack(Below, level - 1, exiting, first) /\ NoInit(Below)
        /\ Carried(Below) = Carried(flow)
    BY <1>1, <2>2, Return
  <2>4. g.saved = (level - 1) + 1
    BY <2>1
  <2> HIDE DEF g
  <2>5. /\ Stack(Append(Below, g), 0, exiting, first) /\ NoInit(Append(Below, g))
        /\ Carried(Append(Below, g)) = Carried(Below)
    BY <1>2, <2>1, <2>3, <2>4, Waiting
  <2> QED
    BY <1>1, <2>2, <2>3, <2>5, Calm DEF Kept, ending
<1>5. CASE GetKeyPolls
  BY <1>1, <1>5, RunningKernel, Calm DEF GetKeyPolls, Started, Kept, ending
<1>6. CASE GetKeyWaited
  <2> DEFINE f(x) == [Top EXCEPT !.at = x]
             places == {"leaving", "waits", "checkpoint"}
  <2>1. IsWaiting(Top) /\ level' = Top.saved
    BY <1>1, <1>6 DEF GetKeyWaited, On, IsWaiting
  <2>2. /\ Stack(Below, Top.saved - 1, exiting, first) /\ NoInit(Below) /\ Top.saved \in Int
        /\ Carried(flow) = Carried(Below)
    BY <1>2, <2>1, Waited
  <2>3. \A x \in places :
           /\ f(x) \in Frames /\ ~IsWaiting(f(x)) /\ Weight(f(x)) = 1
           /\ f(x).op = "od_get_key"
    BY <1>1, <1>2 DEF Frames, FrameType, IsWaiting, Weight, IsPublicCall
  <2>4. ASSUME NEW x \in places
        PROVE  /\ Stack(At(x), level', exiting, first) /\ NoInit(At(x))
               /\ Carried(At(x)) = Carried(flow) /\ At(x) \in Seq(Frames)
    <3> DEFINE h == f(x)
    <3>1. h \in Frames /\ ~IsWaiting(h) /\ Weight(h) = 1 /\ h.op = "od_get_key"
      BY <2>3
    <3>2. At(x) = Append(Below, h)
      BY DEF At
    <3> HIDE DEF h
    <3>3. Holds(h) = {} /\ Fits(Below, h)
      BY <3>1, LightFits DEF Light
    <3>4. /\ Stack(Append(Below, h), (Top.saved - 1) + Weight(h), exiting, first)
          /\ h.op # "od_init" => NoInit(Append(Below, h))
          /\ Carried(Append(Below, h)) = Carried(Below) \union Holds(h)
      BY <1>2, <2>2, <3>1, <3>3, Push
    <3>5. (Top.saved - 1) + Weight(h) = level'
      BY <2>1, <2>2, <3>1
    <3> QED
      BY <1>2, <2>2, <3>1, <3>2, <3>3, <3>4, <3>5
  <2>5. \/ \E x \in places : flow' = At(x)
        \/ flow' = Append(At("checkpoint"), Dispatch(<< >>))
    BY <1>6 DEF GetKeyWaited
  <2>6. Kept
    <3>1. Stack(flow', level', exiting, first) /\ NoInit(flow') /\ Carried(flow') = Carried(flow)
      <4>1. CASE \E x \in places : flow' = At(x)
        BY <2>4, <4>1
      <4>2. CASE flow' = Append(At("checkpoint"), Dispatch(<< >>))
        <5>1. "checkpoint" \in places /\ Inner(Dispatch(<< >>))
          BY InnerFrames
        <5> QED
          BY <2>4, <4>2, <5>1, PushInner
      <4> QED
        BY <2>5, <4>1, <4>2
    <3> QED
      BY <1>1, <3>1 DEF Kept, ending
  <2> QED
    BY <1>1, <2>6, Calm
<1>7. CASE CheckpointRunsKernel
  BY <1>1, <1>7, Continue, RunningKernel, Calm DEF CheckpointRunsKernel, On, Legal, Kept, ending
<1>8. CASE CheckpointReturns
  BY <1>1, <1>8, Continue, Calm DEF CheckpointReturns, On, Legal, Kept, ending
<1> QED
  BY <1>3, <1>4, <1>5, <1>6, <1>7, <1>8 DEF GetKeyStep

LEMMA LeavingFrame ==
    ASSUME SessionInv, flow # << >>, Top.at \in {"leaving", "left"}
    PROVE  /\ Top.op \in {"od_get_key", "od_chat", "od_kernel"} /\ Legal(Top.op, Top.at)
           /\ Legal(Top.op, "left") /\ ~IsWaiting(Top) /\ Weight(Top) = 1 /\ Light(Top)
           /\ Started
<1>1. Top \in Frames
  BY StackNow, TopFrame
<1>2. Top.op \in {"od_get_key", "od_chat", "od_kernel"}
  BY <1>1 DEF Frames, FrameType
<1> QED
  BY <1>2, TopStarted DEF Legal, IsWaiting, Weight, IsPublicCall, Light

LEMMA LeaveLemma ==
    ASSUME SessionInv, InnerExit \/ OuterExitReturns \/ OuterExitDispatches
    PROVE  SessionInv'
<1> USE StackNow, LeavingFrame
<1>1. flow # << >> /\ Top.at \in {"leaving", "left"}
      /\ UNCHANGED <<lifecycle, ending, fifo, frame, asked, applied>>
  BY DEF InnerExit, OuterExitReturns, OuterExitDispatches, requests, ending
<1>2. CASE InnerExit \/ OuterExitReturns
  <2>1. flow' = Below /\ level' = level - Weight(Top)
    BY <1>1, <1>2 DEF InnerExit, OuterExitReturns, Leave
  <2>2. Kept
    BY <1>1, <2>1, Return DEF Kept, ending
  <2> QED
    BY <1>1, <2>2, Calm
<1>3. CASE OuterExitDispatches
  <2>1. level' = level /\ (flow' = At("left") \/ flow' = Append(At("left"), Dispatch(<< >>)))
    BY <1>3 DEF OuterExitDispatches
  <2>2. Stack(flow', level', exiting, first) /\ NoInit(flow') /\ Carried(flow') = Carried(flow)
    <3>1. CASE flow' = At("left")
      BY <1>1, <2>1, <3>1, Continue
    <3>2. CASE flow' = Append(At("left"), Dispatch(<< >>))
      BY <1>1, <2>1, <3>2, ContinueUnder, InnerFrames
    <3> QED
      BY <2>1, <3>1, <3>2
  <2>3. Kept
    BY <1>1, <2>2 DEF Kept, ending
  <2> QED
    BY <1>1, <2>3, Calm
<1> QED
  BY <1>2, <1>3

LEMMA ToggleChatStack ==
    ASSUME SessionInv, On("od_kernel", "keys"), ToggleChat, level' = level
    PROVE  /\ Stack(flow', level', exiting, first) /\ NoInit(flow')
           /\ Carried(flow') = Carried(flow) /\ Started
           /\ UNCHANGED <<fifo, frame, asked>>
<1>1. /\ flow # << >> /\ Legal(Top.op, Top.at) /\ Legal(Top.op, "resumes") /\ Light(Top)
  BY DEF On, Legal, Light
<1>2. Started /\ Stack(flow, level, exiting, first) /\ NoInit(flow)
  BY <1>1, StackNow, Continue DEF Started
<1>3. flow' = flow \/ flow' = Append(At("resumes"), Frame("chat", "kernel"))
  BY DEF ToggleChat
<1>4. UNCHANGED <<fifo, frame, asked>>
  BY DEF ToggleChat, requests
<1>5. CASE flow' = flow
  BY <1>2, <1>4, <1>5
<1>6. CASE flow' = Append(At("resumes"), Frame("chat", "kernel"))
  BY <1>1, <1>2, <1>4, <1>6, ContinueUnder, InnerFrames
<1> QED
  BY <1>3, <1>5, <1>6

LEMMA KernelLemma ==
    ASSUME SessionInv,
           \/ KernelStarts \/ KernelHooked \/ ChatKey \/ PressChatKey \/ KernelResumes
           \/ PressEscape \/ PressSettingKey
    PROVE  SessionInv'
<1>1. flow # << >> /\ Top.op = "od_kernel" /\ Light(Top) /\ Legal(Top.op, Top.at)
  BY DEF KernelStarts, KernelHooked, ChatKey, PressChatKey, KernelResumes, PressEscape,
     PressSettingKey, KernelReadsKeys, On, Light, Legal
<1>2. Started /\ NoInit(flow)
  BY <1>1, TopStarted DEF Started
<1>3. UNCHANGED <<lifecycle, ending, applied>>
  BY DEF KernelStarts, KernelHooked, ChatKey, PressChatKey, KernelResumes, PressEscape,
     PressSettingKey
<1>4. \A x \in {"poll", "keys", "leaving", "hooked", "resumes", "time"} : Legal(Top.op, x)
  BY <1>1 DEF Legal
<1>5. /\ Stack(flow', level', exiting, first) /\ NoInit(flow')
      /\ Carried(flow') = Carried(flow) /\ UNCHANGED <<fifo, frame, asked>>
  <2>1. CASE KernelStarts
    <3>1. level' = level /\ UNCHANGED <<fifo, frame, asked>>
          /\ (flow' = At("poll") \/ flow' = Append(At("hooked"), Frame("callback", "ker_exec")))
      BY <2>1 DEF KernelStarts, requests
    <3>2. CASE flow' = At("poll")
      BY <1>1, <1>4, <3>1, <3>2, Continue
    <3>3. CASE flow' = Append(At("hooked"), Frame("callback", "ker_exec"))
      BY <1>1, <1>4, <3>1, <3>3, ContinueUnder, InnerFrames
    <3> QED
      BY <3>1, <3>2, <3>3
  <2>2. CASE KernelHooked
    <3>1. level' = level /\ UNCHANGED <<fifo, frame, asked>>
          /\ (flow' = At("poll") \/ flow' = At("leaving"))
      BY <2>2 DEF KernelHooked, requests
    <3> QED
      BY <1>1, <1>4, <3>1, Continue
  <2>3. CASE ChatKey \/ PressChatKey
    BY <2>3, ToggleChatStack DEF ChatKey, PressChatKey, KernelReadsKeys
  <2>4. CASE KernelResumes
    <3>1. level' = level /\ UNCHANGED <<fifo, frame, asked>> /\ flow' = At("keys")
      BY <2>4 DEF KernelResumes, requests
    <3> QED
      BY <1>1, <1>4, <3>1, Continue
  <2>5. CASE PressEscape
    BY <1>2, <2>5, StackNow DEF PressEscape
  <2>6. CASE PressSettingKey
    <3>1. level' = level /\ UNCHANGED <<fifo, frame, asked>> /\ flow' = At("time")
      BY <2>6 DEF PressSettingKey
    <3> QED
      BY <1>1, <1>4, <3>1, Continue
  <2> QED
    BY <2>1, <2>2, <2>3, <2>4, <2>5, <2>6
<1>6. Kept
  BY <1>3, <1>5 DEF Kept, ending
<1> QED
  BY <1>2, <1>3, <1>5, <1>6, Calm

LEMMA ChatLemma ==
    ASSUME SessionInv, ChatStep
    PROVE  SessionInv'
<1>1. flow # << >> /\ Top.op \in {"chat", "od_chat"} /\ Light(Top) /\ Legal(Top.op, Top.at)
      /\ UNCHANGED <<lifecycle, ending, fifo, frame, asked, applied>>
  BY DEF ChatStep, BeginChat, ChatRunsKernel, ChatOpens, ChatTalks, ChatCleansUp, ChatEnds, On,
     Light, Legal, requests
<1>2. Started /\ NoInit(flow)
  BY <1>1, TopStarted DEF Started
<1>3. /\ Stack(flow', level', exiting, first) /\ NoInit(flow')
      /\ Carried(flow') = Carried(flow)
  <2>1. CASE BeginChat
    <3>1. level' = level /\ flow' = Append(At("leaving"), Frame("chat", "kernel"))
          /\ Legal(Top.op, "leaving")
      BY <2>1 DEF BeginChat, On, Legal
    <3> QED
      BY <1>1, <3>1, Continue, InnerFrames
  <2>2. CASE ChatRunsKernel
    <3>1. RunKernel(At("opening")) /\ Legal(Top.op, "opening")
      BY <2>2 DEF ChatRunsKernel, On, Legal
    <3> QED
      BY <1>1, <3>1, Continue, RunningKernel
  <2>3. CASE ChatOpens
    <3>1. level' = level /\ flow' \in WithCallback(At("talking"), "chat") /\ Legal(Top.op, "talking")
      BY <2>3 DEF ChatOpens, On, Legal
    <3> QED
      BY <1>1, <3>1, Continue, Callbacks
  <2>4. CASE ChatTalks
    <3>1. RunKernel(flow) \/ (flow' = At("ended") /\ level' = level)
      BY <2>4 DEF ChatTalks
    <3>2. Legal(Top.op, "ended")
      BY <2>4 DEF ChatTalks, On, Legal
    <3> QED
      BY <1>1, <1>2, <3>1, <3>2, Continue, RunningKernel, StackNow
  <2>5. CASE ChatCleansUp
    <3>1. level' = level /\ flow' \in WithCallback(At("closing"), "chat") /\ Legal(Top.op, "closing")
      BY <2>5 DEF ChatCleansUp, On, Legal
    <3> QED
      BY <1>1, <3>1, Continue, Callbacks
  <2>6. CASE ChatEnds
    <3>1. flow' = Below /\ level' = level /\ Top.op = "chat"
      BY <2>6 DEF ChatEnds, On
    <3>2. ~IsWaiting(Top) /\ Weight(Top) = 0 /\ level - Weight(Top) = level
      BY <3>1, StackNow DEF IsWaiting, Weight, IsPublicCall
    <3> QED
      BY <1>1, <3>1, <3>2, Return, StackNow
  <2> QED
    BY <2>1, <2>2, <2>3, <2>4, <2>5, <2>6 DEF ChatStep
<1>4. Kept
  BY <1>1, <1>3 DEF Kept, ending
<1> QED
  BY <1>1, <1>2, <1>4, Calm

\* Steps of a dispatch that has no batch, and of od_exit before it decides.
LEMMA DispatchIdleLemma ==
    ASSUME SessionInv, DispatchFindsNone \/ DispatchRefreshes
    PROVE  SessionInv'
<1>1. flow # << >> /\ Top.op = "dispatch" /\ Legal(Top.op, Top.at) /\ level' = level
      /\ UNCHANGED <<lifecycle, ending, fifo, frame, asked, applied>>
  BY DEF DispatchFindsNone, DispatchRefreshes, On, Legal, requests
<1>2. Light(Top)
  <2>1. CASE DispatchFindsNone
    BY <2>1 DEF DispatchFindsNone, Light
  <2>2. CASE DispatchRefreshes
    <3>1. Len(flow) \in 1..Len(flow) /\ Top = flow[Len(flow)]
      BY <1>1, StackNow, TopFrame
    <3> QED
      BY <1>1, <2>2, <3>1, StackNow DEF DispatchRefreshes, On, Light
  <2> QED
    BY <2>1, <2>2
<1>3. ~IsWaiting(Top) /\ Weight(Top) = 0 /\ level - Weight(Top) = level
  BY <1>1, StackNow DEF IsWaiting, Weight, IsPublicCall
<1>4. flow' = At("refresh") \/ flow' = At("loop") \/ flow' = Below
  BY DEF DispatchFindsNone, DispatchRefreshes
<1>5. Legal(Top.op, "refresh") /\ Legal(Top.op, "loop")
  BY <1>1 DEF Legal
<1>6. Stack(flow', level', exiting, first) /\ NoInit(flow') /\ Carried(flow') = Carried(flow)
  <2>1. CASE flow' = Below
    BY <1>1, <1>2, <1>3, <2>1, StackNow, Return
  <2>2. CASE flow' = At("refresh") \/ flow' = At("loop")
    BY <1>1, <1>2, <1>5, <2>2, Continue
  <2> QED
    BY <1>4, <2>1, <2>2
<1>7. Kept
  BY <1>1, <1>6 DEF Kept, ending
<1> QED
  BY <1>1, <1>7, TopStarted, Calm

LEMMA ExitBeginsLemma ==
    ASSUME SessionInv, ExitInitialized \/ ExitRunsHook
    PROVE  SessionInv'
<1>1. flow # << >> /\ Top.op = "od_exit" /\ Light(Top) /\ ~IsWaiting(Top)
      /\ UNCHANGED <<lifecycle, ending, fifo, frame, asked, applied>>
  BY DEF ExitInitialized, ExitRunsHook, On, Light, IsWaiting, requests
<1>2. CASE ExitInitialized
  <2> DEFINE f == Exit("hook", level # 0, Top.code)
  <2>1. Below \in Seq(Frames) /\ Top \in Frames /\ flow = Append(Below, Top)
    BY <1>1, StackNow, TopFrame
  <2>2. Top.code \in Code /\ Weight(Top) = 0
    BY <1>1, <1>2, <2>1
       DEF Frames, FrameType, ExitInitialized, On, Weight, IsPublicCall
  <2>3. f \in Frames /\ IsPublicCall(f) /\ ~IsWaiting(f) /\ f.op = "od_exit" /\ f.code = Top.code
    BY <2>2, FramesMade DEF IsPublicCall, IsWaiting, Exit
  <2>4. Enter(Below, f)
    BY <1>2 DEF ExitInitialized
  <2> HIDE DEF f
  <2>5. Stack(Below, level, exiting, first) /\ NoInit(Below) /\ Carried(Below) = Carried(flow)
    <3>1. level - Weight(Top) = level
      BY <2>2, StackNow
    <3> QED
      BY <1>1, <3>1, StackNow, Return
  <2>6. NoExit(Below) /\ exiting /\ Top.code = first
    <3> DEFINE s == Below
               g == Top
    <3>1. Stack(Append(s, g), level, exiting, first) /\ s \in Seq(Frames) /\ g \in Frames
          /\ ~IsWaiting(g) /\ g.op = "od_exit"
      BY <1>1, <2>1, StackNow
    <3> HIDE DEF s, g
    <3>2. NoExit(s) /\ exiting /\ g.code = first
      BY <3>1, Pop
    <3> QED
      BY <3>2 DEF s, g
  <2>7. /\ Stack(flow', level', exiting, first) /\ NoInit(flow')
        /\ Carried(flow') = Carried(Below)
    BY <2>1, <2>3, <2>4, <2>5, <2>6, Entering
  <2>8. Kept
    BY <1>1, <2>5, <2>7 DEF Kept, ending
  <2> QED
    BY <1>1, <2>8, TopStarted, Calm
<1>3. CASE ExitRunsHook
  <2>1. Legal(Top.op, Top.at) /\ Legal(Top.op, "deciding")
        /\ flow' \in WithCallback(At("deciding"), "before_exit") /\ level' = level
    BY <1>3 DEF ExitRunsHook, On, Legal
  <2>2. Stack(flow', level', exiting, first) /\ NoInit(flow') /\ Carried(flow') = Carried(flow)
    BY <1>1, <2>1, Continue, Callbacks
  <2>3. Kept
    BY <1>1, <2>2 DEF Kept, ending
  <2> QED
    BY <1>1, <2>3, TopStarted, Calm
<1> QED
  BY <1>2, <1>3

---------------------------------------------------------------------------
(* Exits.                                                                  *)

\* A stack without an od_exit is right for whichever request is the first.
LEMMA AnyExit ==
    ASSUME NEW s, NEW n, NEW e, NEW c, Stack(s, n, e, c), NoExit(s)
    PROVE  \A d : Stack(s, n, TRUE, d) /\ Stack(s, n, exiting, d) /\ Stack(s, n, exiting', d)
BY DEF Stack, Orderly, NoExit

LEMMA NotExiting ==
    ASSUME NEW s, NEW n, NEW c, Stack(s, n, exiting, c), ~exiting
    PROVE  NoExit(s)
BY DEF Stack, Orderly, NoExit

LEMMA CallingExit ==
    ASSUME SessionInv, Started, NEW s \in Seq(Frames), Stack(s, level, exiting, first), NoInit(s),
           NEW c \in Code, CallExit(s, c), UNCHANGED <<lifecycle, fifo, frame, asked>>
    PROVE  /\ Stack(flow', level', exiting', first') /\ NoInit(flow')
           /\ Carried(flow') = Carried(s) /\ Ending'
<1>1. first' = IF first = NoCode THEN c ELSE first
  BY DEF CallExit, Remember
<1>2. c # NoCode
  BY DEF Code, NoCode
<1>3. UNCHANGED <<early, pending, noexit, result>>
  BY DEF CallExit
<1>4. CASE Refuses
  <2>1. flow' = s /\ level' = level /\ exiting' = exiting
    BY <1>4 DEF CallExit
  <2>2. Stack(s, level, exiting, first')
    <3>1. CASE first # NoCode
      BY <1>1, <3>1
    <3>2. CASE first = NoCode
      <4>1. NoExit(s)
        BY <3>2, NotExiting DEF SessionInv, Ending
      <4> QED
        BY <4>1, AnyExit
    <3> QED
      BY <3>1, <3>2
  <2>3. Ending'
    BY <1>1, <1>2, <1>3, <1>4, <2>1 DEF SessionInv, Ending, Started, NoInit, Refuses
  <2> QED
    BY <2>1, <2>2, <2>3
<1>5. CASE ~Refuses
  <2> DEFINE f == Exit("hook", level # 0, c)
  <2>1. Enter(s, f) /\ exiting' = TRUE
    BY <1>5 DEF CallExit
  <2>2. first = NoCode /\ first' = c /\ ~exiting
    BY <1>1, <1>5 DEF Refuses, SessionInv, Ending, Started
  <2>3. f \in Frames /\ IsPublicCall(f) /\ ~IsWaiting(f) /\ f.op = "od_exit" /\ f.code = c
    BY FramesMade DEF IsPublicCall, IsWaiting, Exit
  <2> HIDE DEF f
  <2>4. Stack(s, level, TRUE, c) /\ NoExit(s)
    BY <2>2, NotExiting, AnyExit
  <2>5. /\ Stack(flow', level', TRUE, c) /\ NoInit(flow') /\ Carried(flow') = Carried(s)
    BY <2>1, <2>3, <2>4, Entering
  <2>6. Ending'
    BY <1>2, <1>3, <1>5, <2>1, <2>2, <2>5
       DEF SessionInv, Ending, Started, NoInit, Refuses
  <2> QED
    BY <2>1, <2>2, <2>5, <2>6
<1> QED
  BY <1>4, <1>5

LEMMA ExitCallStep ==
    ASSUME SessionInv, Started, NEW s \in Seq(Frames), Stack(s, level, exiting, first), NoInit(s),
           Carried(s) = Carried(flow), NEW c \in Code, CallExit(s, c),
           UNCHANGED <<lifecycle, fifo, frame, asked, applied>>
    PROVE  SessionInv'
<1>1. /\ Stack(flow', level', exiting', first') /\ Carried(flow') = Carried(flow) /\ Ending'
  BY CallingExit
<1>2. Numbering'
  BY <1>1 DEF SessionInv, Numbering, Done
<1> QED
  BY <1>1, <1>2 DEF SessionInv

LEMMA ExitCallsLemma ==
    ASSUME SessionInv, AppExits \/ KernelPolls \/ PressExitKey \/ KernelFindsInactive \/ KernelTime
    PROVE  SessionInv'
<1>1. "app" \in Code /\ "kernel" \in Code /\ "operator" \in Code
  BY DEF Code
<1>2. CASE AppExits
  <2>1. Started /\ CallExit(flow, "app") /\ UNCHANGED <<lifecycle, fifo, frame, asked, applied>>
    BY <1>2, AppStarted DEF AppExits, requests
  <2> QED
    BY <1>1, <2>1, StackNow, ExitCallStep DEF Started
<1>3. CASE KernelPolls \/ PressExitKey \/ KernelFindsInactive \/ KernelTime
  <2>1. /\ flow # << >> /\ Legal(Top.op, Top.at) /\ Light(Top)
        /\ Legal(Top.op, "keys") /\ Legal(Top.op, "leaving")
    BY <1>3 DEF KernelPolls, PressExitKey, KernelFindsInactive, KernelTime, KernelReadsKeys, On,
       Legal, Light
  <2>2. UNCHANGED <<lifecycle, fifo, frame, asked, applied>>
    BY <1>3 DEF KernelPolls, PressExitKey, KernelFindsInactive, KernelTime, requests
  <2>3. Started /\ NoInit(flow)
    BY <2>1, Continue DEF Started
  <2>4. \A x \in {"keys", "leaving"} :
           /\ Stack(At(x), level, exiting, first) /\ NoInit(At(x)) /\ At(x) \in Seq(Frames)
           /\ Carried(At(x)) = Carried(flow)
    BY <2>1, Continue
  <2>5. \/ \E x \in {"keys", "leaving"} : flow' = At(x) /\ level' = level /\ ending' = ending
        \/ \E x \in {"keys", "leaving"} : CallExit(At(x), "kernel")
        \/ CallExit(flow, "operator")
    BY <1>3 DEF KernelPolls, PressExitKey, KernelFindsInactive, KernelTime
  <2>6. CASE \E x \in {"keys", "leaving"} : flow' = At(x) /\ level' = level /\ ending' = ending
    <3>1. Kept
      BY <2>4, <2>6 DEF Kept, ending
    <3> QED
      BY <2>2, <2>3, <2>6, <3>1, Calm
  <2>7. CASE \E x \in {"keys", "leaving"} : CallExit(At(x), "kernel")
    BY <1>1, <2>2, <2>3, <2>4, <2>7, ExitCallStep
  <2>8. CASE CallExit(flow, "operator")
    BY <1>1, <2>2, <2>3, <2>8, StackNow, ExitCallStep
  <2> QED
    BY <2>5, <2>6, <2>7, <2>8
<1> QED
  BY <1>2, <1>3

LEMMA FinalizesLemma ==
    ASSUME SessionInv, OuterExitFinalizes
    PROVE  SessionInv'
<1> DEFINE f == Exit("closing", TRUE, pending)
           s == At("left")
<1>1. /\ flow # << >> /\ Top.at = "leaving" /\ lifecycle = "ExitPending" /\ level = 1
      /\ lifecycle' = "Finalizing" /\ exiting' = TRUE /\ level' = 2 /\ flow' = Append(s, f)
      /\ UNCHANGED <<fifo, frame, asked, applied, early, pending, first, result>>
  BY DEF OuterExitFinalizes, requests
<1>2. pending = first /\ pending # NoCode /\ pending \in Code /\ ~exiting /\ ~early
  BY <1>1, LeavingFrame DEF SessionInv, Ending, Started
<1>3. /\ Stack(s, 1, exiting, first) /\ NoInit(s) /\ s \in Seq(Frames)
      /\ Carried(s) = Carried(flow)
  BY <1>1, LeavingFrame, Continue
<1>4. f \in Frames /\ Weight(f) = 1 /\ ~IsWaiting(f) /\ f.op = "od_exit" /\ f.code = pending
  BY <1>2, FramesMade DEF Weight, IsPublicCall, IsWaiting, Exit
<1> HIDE DEF f, s
<1>5. Light(f) /\ Holds(f) = {} /\ Fits(s, f)
  BY <1>4, LightFits DEF Light
<1>6. Stack(s, 1, TRUE, first) /\ NoExit(s)
  BY <1>2, <1>3, NotExiting, AnyExit
<1>7. /\ Stack(Append(s, f), 1 + Weight(f), TRUE, first)
      /\ f.op # "od_init" => NoInit(Append(s, f))
      /\ Carried(Append(s, f)) = Carried(s) \union Holds(f)
  BY <1>2, <1>3, <1>4, <1>5, <1>6, Push
<1>8. /\ Stack(flow', level', exiting', first') /\ NoInit(flow') /\ Carried(flow') = Carried(flow)
  <2>1. 1 + Weight(f) = level'
    BY <1>1, <1>4
  <2>2. Stack(Append(s, f), level', TRUE, first)
    BY <1>7, <2>1
  <2>3. Stack(flow', level', exiting', first')
    BY <1>1, <2>2
  <2> QED
    BY <1>1, <1>3, <1>4, <1>5, <1>7, <2>3
<1>9. Ending'
  BY <1>1, <1>2, <1>8 DEF SessionInv, Ending, NoInit
<1>10. Numbering'
  BY <1>1, <1>8 DEF SessionInv, Numbering, Done
<1> QED
  BY <1>8, <1>9, <1>10 DEF SessionInv

LEMMA DecidesLemma ==
    ASSUME SessionInv, ExitDecides
    PROVE  SessionInv'
<1>1. /\ flow # << >> /\ Top.op = "od_exit" /\ Legal(Top.op, Top.at) /\ Legal(Top.op, "closing")
      /\ Light(Top) /\ ~IsWaiting(Top) /\ Weight(Top) = 1
      /\ pending' = Top.code /\ UNCHANGED <<fifo, frame, asked, applied, early, first, result>>
  BY DEF ExitDecides, On, Legal, Light, IsWaiting, Weight, IsPublicCall, requests
<1>2. Started
  BY <1>1, TopStarted
<1>3. Top.code = first /\ exiting /\ NoExit(Below) /\ Top.code \in Code /\ Below \in Seq(Frames)
  <2> DEFINE s == Below
             g == Top
  <2>1. Stack(Append(s, g), level, exiting, first) /\ s \in Seq(Frames) /\ g \in Frames
        /\ ~IsWaiting(g) /\ g.op = "od_exit"
    BY <1>1, StackNow, TopFrame
  <2> HIDE DEF s, g
  <2>2. NoExit(s) /\ exiting /\ g.code = first
    BY <2>1, Pop
  <2>3. g.code \in Code
    BY <2>1 DEF Frames, FrameType
  <2> QED
    BY <2>1, <2>2, <2>3 DEF s, g
<1>4. first # NoCode /\ first \in Code
  BY <1>3 DEF Code, NoCode
<1>5. CASE lifecycle' = "ExitPending" /\ exiting' = FALSE /\ level' = level - 1 /\ flow' = Below
  <2>1. /\ Stack(Below, level - 1, exiting, first) /\ NoInit(Below)
        /\ Carried(Below) = Carried(flow)
    BY <1>1, StackNow, Return
  <2>2. Stack(Below, level - 1, exiting', first)
    BY <1>3, <2>1, AnyExit
  <2>3. /\ Stack(flow', level', exiting', first') /\ NoInit(flow') /\ Carried(flow') = Carried(flow)
    BY <1>1, <1>5, <2>1, <2>2
  <2>4. Ending'
    BY <1>1, <1>2, <1>3, <1>4, <1>5, <2>3 DEF SessionInv, Ending, NoInit, Started
  <2>5. Numbering'
    BY <1>1, <1>5, <2>3 DEF SessionInv, Numbering, Done
  <2> QED
    BY <2>3, <2>4, <2>5 DEF SessionInv
<1>6. CASE lifecycle' = "Finalizing" /\ flow' = At("closing") /\ UNCHANGED <<level, exiting>>
  <2>1. /\ Stack(flow', level', exiting', first') /\ NoInit(flow') /\ Carried(flow') = Carried(flow)
    BY <1>1, <1>6, Continue
  <2>2. Ending'
    BY <1>1, <1>2, <1>3, <1>4, <1>6, <2>1 DEF SessionInv, Ending, NoInit, Started
  <2>3. Numbering'
    BY <1>1, <1>6, <2>1 DEF SessionInv, Numbering, Done
  <2> QED
    BY <2>1, <2>2, <2>3 DEF SessionInv
<1> QED
  BY <1>5, <1>6 DEF ExitDecides

\* Nothing is on an empty stack.
LEMMA EmptyStack ==
    /\ Counted(<< >>, 0) /\ NoInit(<< >>) /\ NoExit(<< >>) /\ Carried(<< >>) = {}
    /\ \A e, c : Stack(<< >>, 0, e, c)
<1>1. Len(<< >>) = 0 /\ << >> \in Seq(Frames) /\ 1..0 = {}
  OBVIOUS
<1>2. Waits(<< >>) = {} /\ \A k : WaitsBefore(<< >>, k) = {}
  BY <1>1 DEF Waits, WaitsBefore
<1>3. Max0({}) = 0
  BY DEF Max0
<1>4. Calls(<< >>, 0, 0) = {}
  BY DEF Calls
<1>5. Counted(<< >>, 0)
  <2>1. \A k : \E m \in WaitsBefore(<< >>, k) \union {0} :
                  \A w \in WaitsBefore(<< >>, k) \union {0} : w <= m
    BY <1>2
  <2>2. Cardinality(Calls(<< >>, Max0(WaitsBefore(<< >>, Len(<< >>) + 1)), Len(<< >>))) = 0
    <3>1. Max0(WaitsBefore(<< >>, Len(<< >>) + 1)) = 0
      BY <1>2, <1>3
    <3> QED
      BY <1>1, <1>4, <3>1, FS_EmptySet
  <2>3. \A i \in Waits(<< >>) : FALSE
    BY <1>2
  <2> QED
    BY <2>1, <2>2, <2>3 DEF Counted
<1>6. NoInit(<< >>) /\ NoExit(<< >>) /\ Carried(<< >>) = {}
  BY <1>1 DEF NoInit, NoExit, Carried
<1>7. \A e, c : Orderly(<< >>, e, c)
  BY <1>1 DEF Orderly
<1> QED
  BY <1>5, <1>6, <1>7 DEF Stack

LEMMA FinishesLemma ==
    ASSUME SessionInv, ExitFinishes
    PROVE  SessionInv'
<1>1. /\ flow # << >> /\ Top.op = "od_exit" /\ Legal(Top.op, Top.at)
      /\ Light(Top) /\ ~IsWaiting(Top) /\ Weight(Top) = 1
      /\ frame' = "stopped" /\ fifo' = << >> /\ lifecycle' = "Terminal" /\ exiting' = FALSE
      /\ result' = Top.code /\ UNCHANGED <<asked, applied, early, pending, first>>
  BY DEF ExitFinishes, JoinFrame, DetachFifo, On, Legal, Light, IsWaiting, Weight, IsPublicCall
<1>2. Started
  BY <1>1, TopStarted
<1>3. Top.code = first /\ NoExit(Below)
  <2> DEFINE s == Below
             g == Top
  <2>1. Stack(Append(s, g), level, exiting, first) /\ s \in Seq(Frames) /\ g \in Frames
        /\ ~IsWaiting(g) /\ g.op = "od_exit"
    BY <1>1, StackNow, TopFrame
  <2> HIDE DEF s, g
  <2>2. NoExit(s) /\ g.code = first
    BY <2>1, Pop
  <2> QED
    BY <2>2 DEF s, g
<1>4. /\ Stack(flow', level', exiting', first') /\ NoInit(flow')
      /\ Carried(flow') \subseteq Carried(flow)
  <2>1. CASE level' = level - 1 /\ flow' = Below
    <3>1. /\ Stack(Below, level - 1, exiting, first) /\ NoInit(Below)
          /\ Carried(Below) = Carried(flow)
      BY <1>1, StackNow, Return
    <3>2. Stack(Below, level - 1, exiting', first)
      BY <1>3, <3>1, AnyExit
    <3> QED
      BY <1>1, <2>1, <3>1, <3>2
  <2>2. CASE level' = 0 /\ flow' = << >>
    BY <2>2, EmptyStack
  <2> QED
    BY <2>1, <2>2 DEF ExitFinishes
<1>5. Ending'
  BY <1>1, <1>2, <1>3, <1>4 DEF SessionInv, Ending, NoInit, Started
<1>6. InBatch(<< >>) = {} /\ Distinct(<< >>) /\ << >> \in Seq(Request)
  BY DEF InBatch, Distinct
<1>7. Numbering'
  BY <1>1, <1>4, <1>6 DEF SessionInv, Numbering, Done
<1> QED
  BY <1>4, <1>5, <1>7 DEF SessionInv

---------------------------------------------------------------------------
(* Requests.                                                               *)

LEMMA TakesLemma ==
    ASSUME SessionInv, DispatchTakes
    PROVE  SessionInv'
<1> DEFINE f == Dispatch(fifo)
<1>1. /\ flow # << >> /\ Top.op = "dispatch" /\ Light(Top) /\ ~IsWaiting(Top) /\ Weight(Top) = 0
      /\ flow' = Append(Below, f) /\ fifo' = << >> /\ level' = level
      /\ UNCHANGED <<frame, asked, applied, lifecycle, ending>>
  BY DEF DispatchTakes, DetachFifo, On, Light, IsWaiting, Weight, IsPublicCall
<1>2. Started
  BY <1>1, TopStarted
<1>3. Below \in Seq(Frames)
  BY <1>1, StackNow, TopFrame
<1>4. Stack(Below, level, exiting, first) /\ NoInit(Below) /\ Carried(Below) = Carried(flow)
  <2>1. level - Weight(Top) = level
    BY <1>1, StackNow
  <2> QED
    BY <1>1, <2>1, StackNow, Return
<1>5. fifo \in Seq(Request) /\ Distinct(fifo) /\ InBatch(fifo) \intersect Carried(flow) = {}
  BY DEF SessionInv, Numbering
<1>6. /\ f \in Frames /\ f.op = "dispatch" /\ f.at = "loop" /\ f.batch = fifo
      /\ ~IsWaiting(f) /\ Weight(f) = 0 /\ Holds(f) = InBatch(fifo)
  BY <1>5, FramesMade DEF Dispatch, IsWaiting, Weight, IsPublicCall, Holds
<1> HIDE DEF f
<1>7. Fits(Below, f)
  <2>1. \A i \in 1..Len(Below) : Holds(f) \intersect Holds(Below[i]) \subseteq Carried(Below)
    BY <1>3, <1>6, HoldsRequests DEF Carried
  <2> QED
    BY <1>4, <1>5, <1>6, <2>1 DEF Fits
<1>8. /\ Stack(Append(Below, f), level + Weight(f), exiting, first)
      /\ f.op # "od_init" => NoInit(Append(Below, f))
      /\ Carried(Append(Below, f)) = Carried(Below) \union Holds(f)
  BY <1>3, <1>4, <1>6, <1>7, Push
<1>9. level + Weight(f) = level'
  BY <1>1, <1>6, StackNow
<1>10. /\ Stack(flow', level', exiting', first') /\ NoInit(flow')
       /\ Carried(flow') = Carried(flow) \union InBatch(fifo)
  BY <1>1, <1>4, <1>6, <1>8, <1>9 DEF ending
<1>11. InBatch(<< >>) = {} /\ Distinct(<< >>) /\ << >> \in Seq(Request)
  BY DEF InBatch, Distinct
<1>12. Ending'
  BY <1>1, <1>2, <1>10 DEF SessionInv, Ending, NoInit, Started, ending
<1>13. Numbering'
  BY <1>1, <1>10, <1>11 DEF SessionInv, Numbering, Done
<1> QED
  BY <1>10, <1>12, <1>13 DEF SessionInv

LEMMA StopsLemma ==
    ASSUME SessionInv, DispatchStops
    PROVE  SessionInv'
<1> DEFINE s == Below
           g == Top
<1>1. /\ flow # << >> /\ Top.op = "dispatch" /\ ~IsWaiting(Top) /\ Weight(Top) = 0
      /\ flow' = s /\ level' = level /\ lifecycle # "Active"
      /\ UNCHANGED <<fifo, frame, asked, applied, lifecycle, ending>>
  BY DEF DispatchStops, On, IsWaiting, Weight, IsPublicCall, requests
<1>2. Started
  BY <1>1, TopStarted
<1>3. Stack(Append(s, g), level, exiting, first) /\ s \in Seq(Frames) /\ g \in Frames
      /\ ~IsWaiting(g) /\ Weight(g) = 0 /\ flow = Append(s, g) /\ level - Weight(g) = level
  <2>1. s \in Seq(Frames) /\ g \in Frames /\ flow = Append(s, g)
    BY <1>1, StackNow, TopFrame
  <2>2. Stack(Append(s, g), level, exiting, first)
    BY <2>1, StackNow, Zenon
  <2>3. level - Weight(g) = level
    BY <1>1, StackNow
  <2> QED
    BY <1>1, <2>1, <2>2, <2>3
<1> HIDE DEF s, g
<1>4. /\ Stack(s, level, exiting, first) /\ NoInit(s)
      /\ Carried(flow) = Carried(s) \union Holds(g)
  BY <1>3, Pop
<1>5. /\ Stack(flow', level', exiting', first') /\ NoInit(flow')
      /\ Carried(flow') \subseteq Carried(flow)
  BY <1>1, <1>4 DEF ending
<1>6. Ending'
  BY <1>1, <1>2, <1>5 DEF SessionInv, Ending, NoInit, Started, ending
<1>7. Numbering'
  BY <1>1, <1>5 DEF SessionInv, Numbering, Done
<1> QED
  BY <1>5, <1>6, <1>7 DEF SessionInv

LEMMA HeadOfBatch ==
    ASSUME NEW b \in Seq(Request), b # << >>, Distinct(b)
    PROVE  /\ Head(b) \in Request /\ Tail(b) \in Seq(Request) /\ Distinct(Tail(b))
           /\ InBatch(b) = InBatch(Tail(b)) \union {Head(b).n}
           /\ Head(b).n \notin InBatch(Tail(b))
<1>1. /\ Len(b) \in Nat /\ Len(b) > 0 /\ Len(Tail(b)) = Len(b) - 1
      /\ \A i \in 1..Len(Tail(b)) : Tail(b)[i] = b[i + 1]
      /\ Head(b) = b[1]
  OBVIOUS
<1>2. Head(b) \in Request /\ Tail(b) \in Seq(Request)
  OBVIOUS
<1>3. \A i \in 1..Len(b) : i = 1 \/ (i - 1 \in 1..Len(Tail(b)) /\ Tail(b)[i - 1] = b[i])
  BY <1>1
<1>4. \A i \in 1..Len(Tail(b)) : i + 1 \in 1..Len(b) /\ i + 1 # 1
  BY <1>1
<1>5. 1 \in 1..Len(b)
  BY <1>1
<1>6. Distinct(Tail(b))
  BY <1>1, <1>4 DEF Distinct
<1>7. InBatch(b) = InBatch(Tail(b)) \union {Head(b).n}
  BY <1>1, <1>3, <1>4, <1>5 DEF InBatch
<1>8. Head(b).n \notin InBatch(Tail(b))
  BY <1>1, <1>4, <1>5 DEF InBatch, Distinct
<1> QED
  BY <1>2, <1>6, <1>7, <1>8

LEMMA AppliesLemma ==
    ASSUME SessionInv, DispatchApplies
    PROVE  SessionInv'
<1> DEFINE b == Top.batch
           r == Head(b)
           f == Dispatch(Tail(b))
           rest == Append(Below, f)
<1>1. /\ flow # << >> /\ Top.op = "dispatch" /\ ~IsWaiting(Top) /\ Weight(Top) = 0 /\ b # << >>
      /\ applied' = Append(applied, r.n)
      /\ UNCHANGED <<fifo, frame, asked, lifecycle>>
  BY DEF DispatchApplies, On, IsWaiting, Weight, IsPublicCall
<1>2. \/ CallExit(rest, "operator")
      \/ /\ flow' = rest \/ flow' = Append(rest, Frame("chat", "kernel"))
         /\ UNCHANGED <<level, ending>>
  BY DEF DispatchApplies
<1>3. Started
  BY <1>1, TopStarted
<1>4. /\ Stack(Below, level, exiting, first) /\ NoInit(Below) /\ Below \in Seq(Frames)
      /\ Carried(flow) = Carried(Below) \union InBatch(b)
      /\ Carried(Below) \intersect InBatch(b) = {} /\ Distinct(b) /\ b \in Seq(Request)
  <2> DEFINE s == Below
             g == Top
  <2>1. s \in Seq(Frames) /\ g \in Frames /\ flow = Append(s, g)
    BY <1>1, StackNow, TopFrame
  <2>2. Stack(Append(s, g), level, exiting, first)
    BY <2>1, StackNow, Zenon
  <2>3. level - Weight(g) = level /\ ~IsWaiting(g) /\ g.op = "dispatch" /\ g.batch = b
    BY <1>1, StackNow
  <2> HIDE DEF s, g, b
  <2>4. /\ Stack(s, level, exiting, first) /\ NoInit(s) /\ Fits(s, g)
        /\ Carried(Append(s, g)) = Carried(s) \union Holds(g)
        /\ Carried(s) \intersect Holds(g) = {}
    BY <2>1, <2>2, <2>3, Pop
  <2>5. Holds(g) = InBatch(b) /\ Distinct(b)
    BY <2>3, <2>4 DEF Holds, Fits
  <2>6. b \in Seq(Request)
    BY <2>1, <2>3 DEF Frames, FrameType
  <2> QED
    BY <2>1, <2>4, <2>5, <2>6 DEF s
<1> HIDE DEF b
<1>5. /\ r \in Request /\ Tail(b) \in Seq(Request) /\ Distinct(Tail(b))
      /\ InBatch(b) = InBatch(Tail(b)) \union {r.n} /\ r.n \notin InBatch(Tail(b))
  BY <1>1, <1>4, HeadOfBatch
<1>6. /\ f \in Frames /\ f.op = "dispatch" /\ f.at = "loop" /\ f.batch = Tail(b)
      /\ ~IsWaiting(f) /\ Weight(f) = 0 /\ Holds(f) = InBatch(Tail(b))
  BY <1>5, FramesMade DEF Dispatch, IsWaiting, Weight, IsPublicCall, Holds
<1>7. r.n \in 1..MaxRequests
  BY <1>5 DEF Request
<1> HIDE DEF f, r
<1>8. Fits(Below, f)
  <2>1. \A i \in 1..Len(Below) : Holds(f) \intersect Holds(Below[i]) \subseteq Carried(Below)
    BY <1>4, <1>6, HoldsRequests DEF Carried
  <2> QED
    BY <1>4, <1>5, <1>6, <2>1 DEF Fits
<1>9. /\ Stack(rest, level + Weight(f), exiting, first)
      /\ f.op # "od_init" => NoInit(rest)
      /\ Carried(rest) = Carried(Below) \union Holds(f)
  BY <1>4, <1>6, <1>8, Push
<1>10. rest \in Seq(Frames)
  BY <1>4, <1>6
<1>11. level + Weight(f) = level
  BY <1>6, StackNow
<1> HIDE DEF rest
<1>12. /\ Stack(rest, level, exiting, first) /\ NoInit(rest)
       /\ Carried(flow) = Carried(rest) \union {r.n} /\ r.n \notin Carried(rest)
  BY <1>4, <1>5, <1>6, <1>9, <1>11
<1>13. /\ Stack(flow', level', exiting', first') /\ NoInit(flow') /\ Carried(flow') = Carried(rest)
       /\ Ending'
  <2>1. CASE CallExit(rest, "operator")
    <3>1. "operator" \in Code
      BY DEF Code
    <3> QED
      BY <1>1, <1>3, <1>10, <1>12, <2>1, <3>1, CallingExit
  <2>2. CASE /\ flow' = rest \/ flow' = Append(rest, Frame("chat", "kernel"))
             /\ UNCHANGED <<level, ending>>
    <3>1. /\ Stack(flow', level, exiting, first) /\ NoInit(flow')
          /\ Carried(flow') = Carried(rest)
      <4>1. CASE flow' = rest
        BY <1>12, <4>1
      <4>2. CASE flow' = Append(rest, Frame("chat", "kernel"))
        <5>1. Inner(Frame("chat", "kernel"))
          BY InnerFrames
        <5> DEFINE g == Frame("chat", "kernel")
        <5> HIDE DEF g
        <5>2. /\ Stack(Append(rest, g), level, exiting, first) /\ NoInit(Append(rest, g))
              /\ Carried(Append(rest, g)) = Carried(rest)
          BY <1>10, <1>12, <5>1, PushInner DEF g
        <5> QED
          BY <4>2, <5>2 DEF g
      <4> QED
        BY <2>2, <4>1, <4>2
    <3>2. Stack(flow', level', exiting', first')
      BY <2>2, <3>1 DEF ending
    <3>3. Ending'
      BY <1>1, <1>3, <2>2, <3>1 DEF SessionInv, Ending, NoInit, Started, ending
    <3> QED
      BY <3>1, <3>2, <3>3
  <2> QED
    BY <1>2, <2>1, <2>2
<1>14. Numbering'
  <2>1. applied \in Seq(1..MaxRequests) /\ r.n \notin Done
    BY <1>12 DEF SessionInv, Numbering
  <2>2. /\ applied' \in Seq(1..MaxRequests) /\ Len(applied') = Len(applied) + 1
        /\ \A i \in 1..Len(applied) : applied'[i] = applied[i]
        /\ applied'[Len(applied) + 1] = r.n /\ Len(applied) \in Nat
    BY <1>1, <1>7, <2>1
  <2>3. Done' = Done \union {r.n}
    BY <2>2 DEF Done
  <2>4. \A i, j \in 1..Len(applied') : i # j => applied'[i] # applied'[j]
    <3>1. \A i, j \in 1..Len(applied) : i # j => applied[i] # applied[j]
      BY DEF SessionInv, Numbering
    <3>2. \A i \in 1..Len(applied) : applied[i] # r.n
      BY <2>1 DEF Done
    <3>3. \A i \in 1..Len(applied') : i \in 1..Len(applied) \/ i = Len(applied) + 1
      BY <2>2
    <3> QED
      BY <2>2, <3>1, <3>2, <3>3
  <2> QED
    BY <1>1, <1>12, <1>13, <2>1, <2>2, <2>3, <2>4 DEF SessionInv, Numbering
<1> QED
  BY <1>13, <1>14 DEF SessionInv

LEMMA FlippedType ==
    ASSUME NEW kind
    PROVE  Flipped(kind) \in BOOLEAN
BY DEF Flipped

LEMMA FrameThreadLemma ==
    ASSUME SessionInv, FrameThread
    PROVE  SessionInv'
<1>1. UNCHANGED <<subsystem, lifecycle, level, flow, kernel, keys, ending, applied>>
  BY DEF FrameThread
<1>2. Stack(flow', level', exiting', first')
  BY <1>1 DEF SessionInv, ending
<1>3. CASE TestActive(lifecycle = "Active")
  <2>1. Ending' /\ Numbering'
    BY <1>1, <1>3 DEF TestActive, SessionInv, Ending, Numbering, Done, ending, Top, Last
  <2> QED
    BY <1>2, <2>1 DEF SessionInv
<1>4. ASSUME NEW kind \in Kind, NEW by \in {-1, 0, 1}, Enqueue(kind, by)
      PROVE  SessionInv'
  <2> DEFINE r == [n |-> asked + 1, kind |-> kind, on |-> Flipped(kind), by |-> by]
  <2>1. frame = "queueing" /\ frame' = "idle" /\ asked' = asked + 1 /\ fifo' = Append(fifo, r)
    BY <1>4 DEF Enqueue
  <2>2. asked + 1 \in 1..MaxRequests
    BY <2>1, RequestAssumption DEF SessionInv, Numbering
  <2>3. r \in Request /\ r.n = asked + 1
    BY <2>2, FlippedType DEF Request
  <2> HIDE DEF r
  <2>4. /\ fifo' \in Seq(Request) /\ Len(fifo') = Len(fifo) + 1 /\ Len(fifo) \in Nat
        /\ \A i \in 1..Len(fifo) : fifo'[i] = fifo[i]
        /\ fifo'[Len(fifo) + 1] = r
    BY <2>1, <2>3 DEF SessionInv, Numbering
  <2>5. \A i \in 1..Len(fifo') : i \in 1..Len(fifo) \/ i = Len(fifo) + 1
    BY <2>4
  <2>6. InBatch(fifo') = InBatch(fifo) \union {asked + 1}
    BY <2>3, <2>4, <2>5 DEF InBatch
  <2>7. asked + 1 \notin 1..asked /\ 1..(asked + 1) = 1..asked \union {asked + 1}
    <3>1. asked \in Nat
      BY RequestAssumption DEF SessionInv, Numbering
    <3> QED
      BY <3>1
  <2>8. Distinct(fifo')
    <3>1. asked + 1 \notin InBatch(fifo)
      BY <2>7 DEF SessionInv, Numbering
    <3>2. \A i \in 1..Len(fifo) : fifo[i].n # asked + 1
      BY <3>1 DEF InBatch
    <3> QED
      BY <2>3, <2>4, <2>5, <3>2 DEF SessionInv, Numbering, Distinct
  <2>9. Carried(flow') = Carried(flow) /\ Done' = Done /\ lifecycle' = lifecycle
    BY <1>1 DEF Done
  <2>10. Numbering'
    <3>1. asked' \in 0..MaxRequests /\ (frame' = "queueing" => asked' < MaxRequests)
      BY <2>1, <2>2
    <3> QED
      BY <1>1, <2>1, <2>4, <2>6, <2>7, <2>8, <2>9, <3>1 DEF SessionInv, Numbering
  <2>11. Ending'
    BY <1>1, <2>1 DEF SessionInv, Ending, ending, Top, Last
  <2> QED
    BY <1>2, <2>10, <2>11 DEF SessionInv
<1>5. "time" \in Kind
  BY DEF Kind
<1> QED
  BY <1>3, <1>4, <1>5 DEF FrameThread, FrameStep

---------------------------------------------------------------------------
(* Initialization.                                                         *)

\* The frame of od_init, on a stack that has none.
LEMMA PushInit ==
    ASSUME NEW s \in Seq(Frames), NEW n, NEW e, NEW c, Stack(s, n, e, c), NoInit(s),
           NEW at \in {"starting", "done"}
    PROVE  LET t == Append(s, Frame("od_init", at))
           IN  /\ Stack(t, n, e, c) /\ Carried(t) = Carried(s)
               /\ t \in Seq(Frames) /\ t # << >> /\ Len(t) = Len(s) + 1
               /\ \A i \in 1..Len(t) : t[i].op = "od_init" => i = Len(t)
               /\ t[Len(t)] = Frame("od_init", at)
<1> DEFINE f == Frame("od_init", at)
           t == Append(s, f)
<1>1. f \in Frames /\ f.op = "od_init"
  BY FramesMade DEF Frame
<1>2. ~IsWaiting(f) /\ Weight(f) = 0 /\ Light(f)
  BY <1>1 DEF IsWaiting, Weight, IsPublicCall, Light
<1>3. Fits(s, f) /\ Holds(f) = {}
  BY <1>2, LightFits
<1> HIDE DEF f
<1>4. t \in Seq(Frames) /\ Len(t) = Len(s) + 1 /\ t[Len(s) + 1] = f /\ Len(s) \in Nat
  BY <1>1, Pushed
<1>5. Stack(t, n + Weight(f), e, c) /\ Carried(t) = Carried(s) \union Holds(f)
  BY <1>1, <1>2, <1>3, Push
<1>6. n + Weight(f) = n
  BY <1>2 DEF Stack
<1> HIDE DEF t
<1>7. \A i \in 1..Len(t) : t[i].op = "od_init" => i = Len(t)
  BY <1>5 DEF Stack, Orderly
<1>8. /\ Stack(t, n, e, c) /\ Carried(t) = Carried(s)
      /\ t \in Seq(Frames) /\ t # << >> /\ Len(t) = Len(s) + 1
      /\ t[Len(t)] = f
  BY <1>3, <1>4, <1>5, <1>6
<1> QED
  BY <1>7, <1>8 DEF t, f

LEMMA StartUpLemma ==
    ASSUME SessionInv, StartUp
    PROVE  SessionInv'
<1>1. /\ flow = << >> /\ first = NoCode /\ pending = NoCode /\ ~exiting /\ ~early
      /\ asked = 0 /\ fifo = << >> /\ frame = "idle"
  BY DEF SessionInv, Ending, StartUp
<1>2. flow' = Append(flow, Frame("od_init", "starting"))
  BY <1>1 DEF StartUp
<1>3. flow \in Seq(Frames) /\ NoInit(flow)
  BY <1>1, EmptyStack
<1>4. /\ Stack(flow', level, exiting, first) /\ Carried(flow') = Carried(flow)
      /\ flow' # << >> /\ Len(flow') = Len(flow) + 1
      /\ \A i \in 1..Len(flow') : flow'[i].op = "od_init" => i = Len(flow')
      /\ flow'[Len(flow')] = Frame("od_init", "starting")
  BY <1>2, <1>3, StackNow, PushInit
<1>5. Stack(flow, level, exiting, first)'
  BY <1>4 DEF StartUp, ending
<1>6. Numbering'
  BY <1>1, <1>4 DEF StartUp, SessionInv, Numbering, ending, requests, Done
<1>7. Ending'
  BY <1>1, <1>4 DEF StartUp, SessionInv, Ending, ending, requests, Top, Last, Frame
<1> QED
  BY <1>5, <1>6, <1>7 DEF SessionInv

LEMMA ExitFirstLemma ==
    ASSUME SessionInv, ExitFirst
    PROVE  SessionInv'
<1> DEFINE x == Exit("initializing", FALSE, "app")
           s == Append(flow, x)
<1>1. /\ flow = << >> /\ first = NoCode /\ pending = NoCode /\ ~exiting /\ ~early
      /\ asked = 0 /\ fifo = << >> /\ frame = "idle"
  BY DEF SessionInv, Ending, ExitFirst
<1>2. flow' = Append(s, Frame("od_init", "starting"))
  <2>1. \A f, g : <<f, g>> = Append(Append(<< >>, f), g)
    OBVIOUS
  <2>2. flow' = <<x, Frame("od_init", "starting")>>
    BY DEF ExitFirst
  <2> HIDE DEF x
  <2> QED
    BY <1>1, <2>1, <2>2
<1>3. flow \in Seq(Frames) /\ NoInit(flow) /\ NoExit(flow)
  BY <1>1, EmptyStack
<1>4. x \in Frames /\ x.op = "od_exit" /\ x.at = "initializing" /\ x.code = "app"
  <2>1. "app" \in Code
    BY DEF Code
  <2> QED
    BY <2>1, FramesMade DEF Exit
<1>5. ~IsWaiting(x) /\ Weight(x) = 0 /\ Light(x)
  BY <1>4 DEF IsWaiting, Weight, IsPublicCall, Light
<1>6. Fits(flow, x) /\ Holds(x) = {}
  BY <1>5, LightFits
<1> HIDE DEF x
<1>7. Stack(flow, level, TRUE, "app")
  BY <1>3, StackNow, AnyExit
<1>8. /\ Stack(s, level + Weight(x), TRUE, "app") /\ NoInit(s)
      /\ Carried(s) = Carried(flow) \union Holds(x)
  BY <1>3, <1>4, <1>5, <1>6, <1>7, Push
<1>9. level + Weight(x) = level /\ s \in Seq(Frames)
  BY <1>3, <1>4, <1>5, StackNow
<1> HIDE DEF s
<1>10. /\ Stack(flow', level, TRUE, "app") /\ Carried(flow') = Carried(s)
       /\ flow' # << >>
       /\ \A i \in 1..Len(flow') : flow'[i].op = "od_init" => i = Len(flow')
       /\ flow'[Len(flow')] = Frame("od_init", "starting")
  BY <1>2, <1>8, <1>9, PushInit
<1>11. exiting' /\ first' = "app" /\ early' /\ pending' = "app" /\ result' = result
  BY <1>1 DEF ExitFirst, Remember, NoCode
<1>12. Stack(flow, level, exiting, first)'
  BY <1>10, <1>11 DEF ExitFirst
<1>13. Numbering'
  BY ZenonT(60), <1>1, <1>6, <1>8, <1>10 DEF ExitFirst, SessionInv, Numbering, requests, Done
<1>14. Ending'
  <2>1. /\ lifecycle' = "Initializing" /\ asked' = 0 /\ fifo' = << >> /\ frame' = "idle"
        /\ result' = NoCode
    BY <1>1, <1>11 DEF ExitFirst, SessionInv, Ending, requests, NoCode
  <2>2. Top'.op = "od_init" /\ Top'.at = "starting"
    BY <1>10 DEF Top, Last, Frame
  <2>3. \A i \in 1..Len(flow') : flow'[i].op = "od_init" => flow'[i].at = "starting"
    BY <1>10 DEF Frame
  <2> QED
    BY <1>10, <1>11, <2>1, <2>2, <2>3 DEF Ending, Code, NoCode
<1> QED
  BY <1>12, <1>13, <1>14 DEF SessionInv

LEMMA ExitWhileStartingLemma ==
    ASSUME SessionInv, NEW c \in Code, ExitWhileStarting(c)
    PROVE  SessionInv'
<1>1. /\ flow # << >> /\ Top.op = "od_init" /\ Top.at = "starting"
      /\ UNCHANGED <<requests, lifecycle, level, flow, exiting, noexit, result, applied>>
      /\ early' /\ pending' = (IF early THEN pending ELSE c) /\ Remember(c)
  BY DEF ExitWhileStarting, On
<1>2. lifecycle = "Initializing"
  <2>1. Len(flow) \in 1..Len(flow) /\ Top = flow[Len(flow)]
    BY <1>1, StackNow, TopFrame
  <2> QED
    BY <1>1, <2>1 DEF SessionInv, Ending
<1>3. c # NoCode
  BY DEF Code, NoCode
<1>4. CASE first = NoCode
  <2>1. ~early /\ ~exiting
    BY <1>4 DEF SessionInv, Ending
  <2>2. first' = c /\ pending' = c
    BY <1>1, <1>4, <2>1 DEF Remember
  <2>3. Stack(flow, level, exiting, c)
    BY <2>1, StackNow, NotExiting, AnyExit
  <2>4. Stack(flow, level, exiting, first)'
    BY <1>1, <2>2, <2>3
  <2>5. Ending'
    BY <1>1, <1>2, <1>3, <1>4, <2>1, <2>2 DEF SessionInv, Ending, requests, Top, Last
  <2>6. Numbering'
    BY <1>1 DEF SessionInv, Numbering, requests, Done
  <2> QED
    BY <2>4, <2>5, <2>6 DEF SessionInv
<1>5. CASE first # NoCode
  <2>1. early
    BY <1>2, <1>5 DEF SessionInv, Ending
  <2>2. first' = first /\ pending' = pending
    BY <1>1, <1>5, <2>1 DEF Remember
  <2>3. Stack(flow, level, exiting, first)'
    BY <1>1, <2>2, StackNow
  <2>4. Ending'
    BY <1>1, <1>2, <2>1, <2>2 DEF SessionInv, Ending, requests, Top, Last
  <2>5. Numbering'
    BY <1>1 DEF SessionInv, Numbering, requests, Done
  <2> QED
    BY <2>3, <2>4, <2>5 DEF SessionInv
<1> QED
  BY <1>4, <1>5

\* What od_init leaves on the stack.
LEMMA InitFrame ==
    ASSUME SessionInv, flow # << >>, Top.op = "od_init"
    PROVE  /\ Stack(Below, level, exiting, first) /\ NoInit(Below) /\ Below \in Seq(Frames)
           /\ Carried(Below) = Carried(flow)
           /\ lifecycle = (IF Top.at = "starting" THEN "Initializing" ELSE "Active")
<1>1. /\ Below \in Seq(Frames) /\ Top \in Frames /\ Len(flow) \in 1..Len(flow)
      /\ Top = flow[Len(flow)]
  BY StackNow, TopFrame
<1>2. ~IsWaiting(Top) /\ Weight(Top) = 0 /\ Light(Top)
  BY DEF IsWaiting, Weight, IsPublicCall, Light
<1>3. /\ Stack(Below, level - Weight(Top), exiting, first) /\ NoInit(Below)
      /\ Carried(Below) = Carried(flow)
  BY <1>2, StackNow, Return
<1>4. level - Weight(Top) = level
  BY <1>2, StackNow
<1>5. lifecycle = (IF Top.at = "starting" THEN "Initializing" ELSE "Active")
  BY <1>1 DEF SessionInv, Ending
<1> QED
  BY <1>1, <1>3, <1>4, <1>5

LEMMA InitCompletesLemma ==
    ASSUME SessionInv, InitCompletes
    PROVE  SessionInv'
<1>1. /\ flow # << >> /\ Top.op = "od_init" /\ Top.at = "starting" /\ lifecycle' = "Active"
      /\ flow' = At("done")
      /\ UNCHANGED <<requests, level, ending, applied>>
  BY DEF InitCompletes, On
<1>2. /\ Stack(Below, level, exiting, first) /\ NoInit(Below) /\ Below \in Seq(Frames)
      /\ Carried(Below) = Carried(flow) /\ lifecycle = "Initializing"
  BY <1>1, InitFrame
<1>3. flow' = Append(Below, Frame("od_init", "done"))
  <2>1. Top \in Frames
    BY <1>1, StackNow, TopFrame
  <2>2. [Top EXCEPT !.at = "done"] = Frame("od_init", "done")
    BY <1>1, <2>1 DEF Frames, FrameType, Frame
  <2> QED
    BY <1>1, <2>2 DEF At
<1>4. /\ Stack(flow', level, exiting, first) /\ Carried(flow') = Carried(flow)
      /\ flow' # << >>
      /\ \A i \in 1..Len(flow') : flow'[i].op = "od_init" => i = Len(flow')
      /\ flow'[Len(flow')] = Frame("od_init", "done")
  BY <1>2, <1>3, PushInit
<1>5. asked = 0
  BY <1>2 DEF SessionInv, Ending
<1>6. Stack(flow, level, exiting, first)'
  BY <1>1, <1>4 DEF ending
<1>7. Numbering'
  <2>1. 1..asked = {}
    BY <1>5
  <2>2. /\ Carried(flow') = Carried(flow) /\ Done' = Done
        /\ UNCHANGED <<fifo, frame, asked, applied>>
    BY <1>1, <1>4 DEF requests, Done
  <2>3. 1..asked' \subseteq (InBatch(fifo) \union Carried(flow) \union Done)'
    BY <2>1, <2>2
  <2> QED
    BY <2>2, <2>3 DEF SessionInv, Numbering
<1>8. Ending'
  BY <1>1, <1>2, <1>4 DEF SessionInv, Ending, ending, requests, Top, Last, Frame
<1> QED
  BY <1>6, <1>7, <1>8 DEF SessionInv

LEMMA InitReturnsLemma ==
    ASSUME SessionInv, InitReturns
    PROVE  SessionInv'
<1>1. /\ flow # << >> /\ Top.op = "od_init" /\ Top.at = "done" /\ ~early'
      /\ UNCHANGED <<requests, lifecycle, pending, first, result, applied>>
  BY DEF InitReturns, On
<1>2. /\ Stack(Below, level, exiting, first) /\ NoInit(Below) /\ Below \in Seq(Frames)
      /\ Carried(Below) = Carried(flow) /\ lifecycle = "Active"
  BY <1>1, InitFrame
<1>3. /\ Stack(flow', level', exiting', first') /\ NoInit(flow')
      /\ Carried(flow') = Carried(flow)
      /\ exiting' <=> (exiting \/ early)
  <2>1. CASE early /\ ~exiting
    <3> DEFINE x == Exit("hook", FALSE, pending)
    <3>1. exiting' /\ Enter(Below, x)
      BY <2>1 DEF InitReturns
    <3>2. pending \in Code /\ pending = first
      BY <2>1 DEF SessionInv, Ending
    <3>3. x \in Frames /\ x.op = "od_exit" /\ x.at = "hook" /\ x.code = first
      BY <3>2, FramesMade DEF Exit
    <3>4. IsPublicCall(x) /\ ~IsWaiting(x)
      BY <3>3 DEF IsPublicCall, IsWaiting
    <3>5. NoExit(Below) /\ Stack(Below, level, TRUE, first)
      BY <1>2, <2>1, NotExiting, AnyExit
    <3> HIDE DEF x
    <3>6. Stack(flow', level', TRUE, first) /\ NoInit(flow') /\ Carried(flow') = Carried(Below)
      BY <1>2, <3>1, <3>3, <3>4, <3>5, Entering
    <3>7. Stack(flow', level', exiting', first')
      BY <1>1, <3>1, <3>5, <3>6 DEF Stack, Orderly
    <3> QED
      BY <1>2, <2>1, <3>1, <3>6, <3>7
  <2>2. CASE ~(early /\ ~exiting)
    <3>1. flow' = Below /\ level' = level /\ exiting' = exiting
      BY <2>2 DEF InitReturns
    <3> QED
      BY <1>1, <1>2, <2>2, <3>1
  <2> QED
    BY <2>1, <2>2
<1>4. Numbering'
  BY <1>1, <1>3 DEF SessionInv, Numbering, requests, Done
<1>5. Ending'
  BY <1>1, <1>2, <1>3 DEF SessionInv, Ending, requests, NoInit
<1> QED
  BY <1>3, <1>4, <1>5 DEF SessionInv

---------------------------------------------------------------------------
(* Every step keeps the invariant.                                         *)

LEMMA SessionInvInit ==
    ASSUME Init
    PROVE  SessionInv
<1>1. Stack(flow, level, exiting, first)
  BY EmptyStack DEF Init
<1>2. Ending
  BY DEF Init, RequestsInit, Ending, Code, NoCode
<1>3. Numbering
  <2>1. InBatch(fifo) = {} /\ Done = {} /\ Carried(flow) = {}
    BY EmptyStack DEF Init, RequestsInit, InBatch, Done
  <2>2. /\ fifo = << >> /\ asked = 0 /\ applied = << >> /\ frame = "idle"
        /\ lifecycle = "NeverStarted"
    BY DEF Init, RequestsInit
  <2>3. 0 \in 0..MaxRequests
    BY RequestAssumption
  <2> QED
    BY <2>1, <2>2, <2>3 DEF Numbering, Distinct
<1> QED
  BY <1>1, <1>2, <1>3 DEF SessionInv

LEMMA Stuttering ==
    ASSUME SessionInv, UNCHANGED vars
    PROVE  SessionInv'
<1>1. UNCHANGED <<fifo, frame, asked, lifecycle, level, flow, exiting, early, pending, first,
                  result, applied>>
  BY DEF vars, requests, ending
<1>2. Stack(flow, level, exiting, first)'
  BY <1>1 DEF SessionInv
<1>3. Ending' /\ Numbering'
  BY <1>1 DEF SessionInv, Ending, Numbering, Top, Last, Done
<1> QED
  BY <1>2, <1>3 DEF SessionInv

LEMMA SessionInvStep ==
    ASSUME SessionInv, [Next]_vars
    PROVE  SessionInv'
<1>1. CASE InitStep
  <2>1. {"app", "kernel"} \subseteq Code
    BY DEF Code
  <2> QED
    BY <1>1, <2>1, StartUpLemma, ExitFirstLemma, ExitWhileStartingLemma, InitCompletesLemma,
       InitReturnsLemma DEF InitStep
<1>2. CASE AppStep
  BY <1>2, CallsStep, ExitCallsLemma DEF AppStep
<1>3. CASE CallbackReturns
  BY <1>3, CallbackReturnsStep
<1>4. CASE GetKeyStep
  BY <1>4, GetKeyLemma
<1>5. CASE APIExit
  BY <1>5, LeaveLemma, FinalizesLemma DEF APIExit
<1>6. CASE KernelStep
  BY <1>6, KernelLemma, ExitCallsLemma DEF KernelStep
<1>7. CASE ChatStep
  BY <1>7, ChatLemma
<1>8. CASE DispatchStep
  BY <1>8, TakesLemma, DispatchIdleLemma, AppliesLemma, StopsLemma DEF DispatchStep
<1>9. CASE ExitStep
  BY <1>9, ExitBeginsLemma, DecidesLemma, FinishesLemma DEF ExitStep
<1>10. CASE FrameThread
  BY <1>10, FrameThreadLemma
<1>11. CASE UNCHANGED vars
  BY <1>11, Stuttering
<1> QED
  BY <1>1, <1>2, <1>3, <1>4, <1>5, <1>6, <1>7, <1>8, <1>9, <1>10, <1>11 DEF Next, LibraryStep

---------------------------------------------------------------------------
(* What follows.                                                           *)

LEMMA CountedCalls == SessionInv => LevelCountsCalls
<1> SUFFICES ASSUME SessionInv
             PROVE  LevelCountsCalls
  OBVIOUS
<1> DEFINE W == {i \in 1..Len(flow) : IsWaiting(flow[i])}
           Since(w, i) == Cardinality({j \in (w + 1)..i : IsPublicCall(flow[j])})
           Last0(i) == Max0({w \in W : w < i})
<1>1. flow \in Seq(Frames) /\ Counted(flow, level)
  BY DEF SessionInv, Stack, Orderly
<1>2. W = Waits(flow) /\ WaitsBefore(flow, Len(flow) + 1) = W
  BY <1>1 DEF Waits, WaitsBefore
<1>3. \A w, i : Since(w, i) = Cardinality(Calls(flow, w, i))
  BY DEF Calls
<1>4. \A i : Last0(i) = Max0(WaitsBefore(flow, i))
  BY <1>2 DEF WaitsBefore
<1>5. level = Since(Max0(W), Len(flow))
  BY <1>1, <1>2, <1>3 DEF Counted
<1>6. \A i \in W : flow[i].saved = Since(Last0(i), i)
  BY <1>1, <1>2, <1>3, <1>4 DEF Counted
<1> QED
  BY <1>5, <1>6 DEF LevelCountsCalls

\* A set in which all members are equal has at most one.
LEMMA AtMostOne ==
    ASSUME NEW S, \A i, j \in S : i = j
    PROVE  Cardinality(S) = IF S = {} THEN 0 ELSE 1
<1>1. CASE S = {}
  BY <1>1, FS_EmptySet
<1>2. CASE S # {}
  <2>1. PICK x \in S : TRUE
    BY <1>2
  <2>2. S = {x}
    BY <2>1
  <2> QED
    BY <1>2, <2>2, FS_Singleton
<1> QED
  BY <1>1, <1>2

LEMMA PlacesOfRequest == SessionInv => EachRequestOnce
<1> SUFFICES ASSUME SessionInv, lifecycle = "Active", NEW n \in 1..asked
             PROVE  LET Batches == {i \in 1..Len(flow) : flow[i].op = "dispatch"}
                        Numbers(q) == {q[i].n : i \in 1..Len(q)}
                    IN  Cardinality({i \in 1..Len(applied) : applied[i] = n})
                        + Cardinality({i \in 1..Len(fifo) : fifo[i].n = n})
                        + Cardinality({i \in Batches : n \in Numbers(flow[i].batch)}) = 1
  BY DEF EachRequestOnce
<1> DEFINE A == {i \in 1..Len(applied) : applied[i] = n}
           F == {i \in 1..Len(fifo) : fifo[i].n = n}
           B == {i \in {k \in 1..Len(flow) : flow[k].op = "dispatch"} :
                    n \in {flow[i].batch[k].n : k \in 1..Len(flow[i].batch)}}
<1>1. (\A i, j \in A : i = j) /\ (A # {} <=> n \in Done)
  BY DEF SessionInv, Numbering, Done
<1>2. (\A i, j \in F : i = j) /\ (F # {} <=> n \in InBatch(fifo))
  BY DEF SessionInv, Numbering, Distinct, InBatch
<1>3. n \in 1..MaxRequests
  BY RequestAssumption DEF SessionInv, Numbering
<1>4. B = {i \in 1..Len(flow) : n \in Holds(flow[i])}
  BY DEF Holds, InBatch
<1>5. (\A i, j \in B : i = j) /\ (B # {} <=> n \in Carried(flow))
  BY <1>3, <1>4 DEF SessionInv, Stack, Orderly, Carried
<1>6. /\ n \in InBatch(fifo) \union Carried(flow) \union Done
      /\ ~(n \in InBatch(fifo) /\ n \in Carried(flow))
      /\ ~(n \in InBatch(fifo) /\ n \in Done)
      /\ ~(n \in Carried(flow) /\ n \in Done)
  BY DEF SessionInv, Numbering
<1> HIDE DEF A, F, B
<1>7. /\ Cardinality(A) = IF A = {} THEN 0 ELSE 1
      /\ Cardinality(F) = IF F = {} THEN 0 ELSE 1
      /\ Cardinality(B) = IF B = {} THEN 0 ELSE 1
  BY <1>1, <1>2, <1>5, AtMostOne
<1>8. Cardinality(A) + Cardinality(F) + Cardinality(B) = 1
  <2>1. CASE A # {} /\ F = {} /\ B = {}
    BY <1>7, <2>1
  <2>2. CASE A = {} /\ F # {} /\ B = {}
    BY <1>7, <2>2
  <2>3. CASE A = {} /\ F = {} /\ B # {}
    BY <1>7, <2>3
  <2> QED
    BY <1>1, <1>2, <1>5, <1>6, <2>1, <2>2, <2>3
<1> QED
  BY <1>8 DEF A, F, B

\* nAPILevel counts the calls in progress since the last wait that released it,
\* and every wait has kept the level it will give back, however calls, callbacks,
\* chat mode and exits are nested (ODSync.c: OD_API_ENTRY, OD_API_EXIT,
\* ODSyncAPIRelease, ODSyncAPIReacquire).
THEOREM LevelIsRight == Spec => []LevelCountsCalls
BY SessionInvInit, SessionInvStep, CountedCalls, PTL DEF Spec

\* The session ends with the exit that was asked for first: od_exit refuses a
\* second one, and an exit noted during od_init or put off by od_noexit is not
\* replaced (ODInEx2.c: od_exit).
THEOREM FirstExitCounts == Spec => []FirstRequestWins
<1>1. SessionInv => FirstRequestWins
  BY DEF SessionInv, Ending, FirstRequestWins
<1> QED
  BY SessionInvInit, SessionInvStep, <1>1, PTL DEF Spec

\* While the session is active each command of the operator is in the FIFO, in
\* one batch that is being dispatched, or has been carried out: none is lost and
\* none is carried out twice, though dispatches are nested inside chat mode and
\* exits (ODKrnl.c: ODKrnlQueueUIChange, ODKrnlDispatchPending).
THEOREM RequestsCountOnce == Spec => []EachRequestOnce
BY SessionInvInit, SessionInvStep, PlacesOfRequest, PTL DEF Spec

\* The FIFO and its lock are destroyed when the frame thread has ended, so that
\* no command is queued after them (ODInEx2.c: od_exit; ODFrame.c: ODFrameShutdown).
THEOREM QueueIsEmptied == Spec => []QueueOutlivesFrame
<1>1. SessionInv => QueueOutlivesFrame
  BY DEF SessionInv, Ending, QueueOutlivesFrame
<1> QED
  BY SessionInvInit, SessionInvStep, <1>1, PTL DEF Spec

---------------------------------------------------------------------------
(* What the settings will be.                                              *)

LEMMA EffectType ==
    ASSUME NEW s \in Settings, NEW r \in Request
    PROVE  Effect(s, r) \in Settings
<1>1. ClampTime(s.time + r.by) \in 0..TimeMax
  BY RequestAssumption DEF ClampTime, Settings, Request
<1>2. [s EXCEPT !.time = ClampTime(@ + r.by)] \in Settings
  BY <1>1 DEF Settings
<1>3. [s EXCEPT !.chat = r.on] \in Settings
  BY DEF Settings, Request
<1>4. ASSUME r.kind \in Switch PROVE [s EXCEPT !.on[r.kind] = r.on] \in Settings
  BY <1>4 DEF Settings, Request
<1> QED
  BY <1>2, <1>3, <1>4 DEF Effect

\* The settings f[n] when n requests of q have been carried out on s.
Carrying(f, s, q) == f = [n \in 0..Len(q) |-> IF n = 0 THEN s ELSE Effect(f[n - 1], q[n])]

LEMMA AfterCarrying ==
    ASSUME NEW s \in Settings, NEW q \in Seq(Request)
    PROVE  \E f \in [0..Len(q) -> Settings] : Carrying(f, s, q) /\ After(s, q) = f[Len(q)]
<1> DEFINE next == [n \in 1..Len(q) |-> [t \in Settings |-> Effect(t, q[n])]]
<1>1. Len(q) \in Nat /\ \A n \in 1..Len(q) : q[n] \in Request
  OBVIOUS
<1>2. next \in [1..Len(q) -> [Settings -> Settings]]
  BY <1>1, EffectType
<1>3. ASSUME NEW n \in 1..Len(q), NEW t \in Settings PROVE next[n][t] = Effect(t, q[n])
  OBVIOUS
<1> HIDE DEF next
<1>4. PICK f \in [0..Len(q) -> Settings] : Steps(f, Len(q), s, next)
  BY <1>1, <1>2, OneAtLeast
<1>5. ASSUME NEW n \in 1..Len(q) PROVE f[n] = Effect(f[n - 1], q[n])
  <2>1. n - 1 \in 0..Len(q)
    BY <1>1
  <2> QED
    BY <1>3, <1>4, <2>1 DEF Steps
<1>6. Carrying(f, s, q)
  <2>1. f = [n \in 0..Len(q) |-> f[n]]
    BY <1>4
  <2>2. \A n \in 0..Len(q) : f[n] = IF n = 0 THEN s ELSE Effect(f[n - 1], q[n])
    BY <1>1, <1>4, <1>5 DEF Steps
  <2> QED
    BY <2>1, <2>2 DEF Carrying
<1> DEFINE g == CHOOSE h : Carrying(h, s, q)
<1>7. Carrying(g, s, q)
  BY <1>6, Zenon
<1>8. After(s, q) = g[Len(q)]
  BY DEF After, Carrying
<1> HIDE DEF g
<1>9. g = f
  <2>1. g[0] = f[0]
    BY <1>1, <1>6, <1>7 DEF Carrying
  <2>2. ASSUME NEW n \in 1..Len(q), g[n - 1] = f[n - 1] PROVE g[n] = f[n]
    BY <1>1, <1>6, <1>7, <2>2 DEF Carrying
  <2>3. Alike(g, f, Len(q))
    BY <2>1, <2>2 DEF Alike
  <2>4. \A n \in 0..Len(q) : g[n] = f[n]
    BY <1>1, <2>3, OnlyOne
  <2>5. g = [n \in 0..Len(q) |-> g[n]] /\ f = [n \in 0..Len(q) |-> f[n]]
    BY <1>6, <1>7 DEF Carrying
  <2> QED
    BY <2>4, <2>5
<1> QED
  BY <1>6, <1>8, <1>9

LEMMA AfterNothing ==
    ASSUME NEW s \in Settings
    PROVE  After(s, << >>) = s
<1>1. << >> \in Seq(Request) /\ Len(<< >>) = 0
  OBVIOUS
<1>2. PICK f \in [0..Len(<< >>) -> Settings] :
         Carrying(f, s, << >>) /\ After(s, << >>) = f[Len(<< >>)]
  BY <1>1, AfterCarrying
<1> QED
  BY <1>1, <1>2 DEF Carrying

LEMMA AfterOneMore ==
    ASSUME NEW s \in Settings, NEW q \in Seq(Request), NEW r \in Request
    PROVE  After(s, Append(q, r)) = Effect(After(s, q), r) /\ After(s, q) \in Settings
<1> DEFINE t == Append(q, r)
<1>1. /\ t \in Seq(Request) /\ Len(t) = Len(q) + 1 /\ Len(q) \in Nat
      /\ \A i \in 1..Len(q) : t[i] = q[i]
      /\ t[Len(q) + 1] = r
  OBVIOUS
<1> HIDE DEF t
<1>2. PICK f \in [0..Len(q) -> Settings] : Carrying(f, s, q) /\ After(s, q) = f[Len(q)]
  BY AfterCarrying
<1>3. PICK g \in [0..Len(t) -> Settings] : Carrying(g, s, t) /\ After(s, t) = g[Len(t)]
  BY <1>1, AfterCarrying
<1>4. f[0] = g[0]
  BY <1>1, <1>2, <1>3 DEF Carrying
<1>5. ASSUME NEW n \in 1..Len(q), f[n - 1] = g[n - 1] PROVE f[n] = g[n]
  <2>1. f[n] = Effect(f[n - 1], q[n])
    BY <1>1, <1>2 DEF Carrying
  <2>2. n \in 0..Len(t) /\ n # 0
    BY <1>1
  <2>3. g[n] = Effect(g[n - 1], t[n])
    BY <1>3, <2>2 DEF Carrying
  <2> QED
    BY <1>1, <1>5, <2>1, <2>3
<1>6. \A n \in 0..Len(q) : f[n] = g[n]
  <2>1. Alike(f, g, Len(q))
    BY <1>4, <1>5 DEF Alike
  <2> QED
    BY <1>1, <2>1, OnlyOne
<1>7. g[Len(q) + 1] = Effect(g[Len(q)], r)
  BY <1>1, <1>3 DEF Carrying
<1>8. f[Len(q)] = g[Len(q)] /\ f[Len(q)] \in Settings
  BY <1>1, <1>2, <1>6
<1> QED
  BY <1>1, <1>2, <1>3, <1>7, <1>8 DEF t

---------------------------------------------------------------------------
(* The outermost activation.                                               *)

\* The outermost activation is a public call or od_init; once the call has
\* left, there is nothing on it but its last dispatch or od_exit.
Rooted(s) ==
    s # << >> =>
        /\ s[1].op \notin {"callback", "chat", "dispatch"}
        /\ s[1].at = "left" /\ Len(s) > 1 => s[2].op \in {"dispatch", "od_exit"}

\* All calls have dispatched for the last time.
Settled(s) == s = << >> \/ (Len(s) = 1 /\ s[1].at \in {"left", "done"})

Busy(s) == Rooted(s) /\ ~Settled(s)

\* An activation that goes on, and is not about to return.
Working(s) == s \in Seq(Frames) /\ s # << >> /\ Busy(s) /\ s[Len(s)].at \notin {"left", "done"}

LEMMA PushedTop ==
    ASSUME NEW s \in Seq(Frames), NEW f \in Frames
    PROVE  /\ Append(s, f) \in Seq(Frames) /\ Append(s, f) # << >>
           /\ Append(s, f)[Len(Append(s, f))] = f
<1> DEFINE t == Append(s, f)
<1>1. t \in Seq(Frames) /\ Len(t) = Len(s) + 1 /\ Len(s) \in Nat /\ t[Len(s) + 1] = f
  BY Pushed
<1> HIDE DEF t
<1>2. t # << >>
  BY <1>1
<1> QED
  BY <1>1, <1>2 DEF t

LEMMA RootedPush ==
    ASSUME NEW s \in Seq(Frames), NEW f \in Frames, Rooted(s),
           s = << >> => f.op \notin {"callback", "chat", "dispatch"},
           s # << >> => s[Len(s)].at # "left" \/ f.op \in {"dispatch", "od_exit"}
    PROVE  /\ Rooted(Append(s, f))
           /\ s # << >> \/ f.at \notin {"left", "done"} => Busy(Append(s, f))
           /\ f.at \notin {"left", "done"} => Working(Append(s, f))
<1> DEFINE t == Append(s, f)
<1>1. /\ t \in Seq(Frames) /\ Len(t) = Len(s) + 1 /\ Len(s) \in Nat
      /\ \A i \in 1..Len(s) : t[i] = s[i]
      /\ t[Len(s) + 1] = f /\ t # << >>
  BY Pushed
<1> HIDE DEF t
<1>2. CASE s = << >>
  <2>1. Len(t) = 1 /\ t[1] = f
    BY <1>1, <1>2
  <2> QED
    BY <1>1, <1>2, <2>1 DEF Rooted, Settled, Busy, Working, t
<1>3. CASE s # << >>
  <2>1. Len(s) > 0 /\ t[1] = s[1] /\ Len(t) > 1
    BY <1>1, <1>3
  <2>2. Rooted(t)
    <3>1. CASE Len(s) = 1
      <4>1. t[2] = f /\ s[Len(s)] = s[1]
        BY <1>1, <3>1
      <4> QED
        BY <1>3, <2>1, <3>1, <4>1 DEF Rooted
    <3>2. CASE Len(s) > 1
      <4>1. t[2] = s[2]
        BY <1>1, <3>2
      <4> QED
        BY <1>3, <2>1, <3>2, <4>1 DEF Rooted
    <3>3. \A n \in Nat : n > 0 => n = 1 \/ n > 1
      OBVIOUS
    <3> QED
      BY <1>1, <2>1, <3>1, <3>2, <3>3
  <2>3. ~Settled(t)
    BY <1>1, <2>1 DEF Settled
  <2>4. t[Len(t)] = f
    BY <1>1
  <2> QED
    BY <1>1, <2>2, <2>3, <2>4 DEF Busy, Working, t
<1> QED
  BY <1>2, <1>3

LEMMA RootedPop ==
    ASSUME NEW s \in Seq(Frames), NEW f \in Frames, Rooted(Append(s, f)), NoInit(s)
    PROVE  /\ Rooted(s)
           /\ Settled(s) => s = << >> \/ f.op \in {"dispatch", "od_exit"}
           /\ s = << >> => f.op \notin {"callback", "chat", "dispatch"}
<1> DEFINE t == Append(s, f)
<1>1. /\ t \in Seq(Frames) /\ Len(t) = Len(s) + 1 /\ Len(s) \in Nat
      /\ \A i \in 1..Len(s) : t[i] = s[i]
      /\ t[Len(s) + 1] = f /\ t # << >>
  BY Pushed
<1>2. Rooted(t)
  OBVIOUS
<1> HIDE DEF t
<1>3. CASE s = << >>
  BY <1>1, <1>2, <1>3 DEF Rooted
<1>4. CASE s # << >>
  <2>1. Len(s) > 0 /\ t[1] = s[1] /\ Len(t) > 1 /\ (Len(s) > 1 => t[2] = s[2])
        /\ (Len(s) = 1 => t[2] = f)
    BY <1>1, <1>4
  <2>2. Rooted(s)
    BY <1>2, <2>1, <1>1 DEF Rooted
  <2>3. ASSUME Len(s) = 1, s[1].at \in {"left", "done"} PROVE f.op \in {"dispatch", "od_exit"}
    <3>1. 1 \in 1..Len(s)
      BY <2>3
    <3>2. s[1] \in Frames /\ s[1].op # "od_init"
      BY <3>1 DEF NoInit
    <3>3. s[1].at = "left"
      BY <2>3, <3>2 DEF Frames, FrameType
    <3> QED
      BY <1>1, <1>2, <2>1, <2>3, <3>3 DEF Rooted
  <2>4. Settled(s) => f.op \in {"dispatch", "od_exit"}
    BY <1>4, <2>3 DEF Settled
  <2> QED
    BY <1>4, <2>2, <2>4
<1> QED
  BY <1>3, <1>4

LEMMA FrameTurned ==
    ASSUME NEW f \in Frames, NEW x, Legal(f.op, x)
    PROVE  LET g == [f EXCEPT !.at = x]
           IN  g \in Frames /\ g.op = f.op /\ g.at = x /\ x # "done"
<1>1. CASE f.op = "od_get_key"
  BY <1>1 DEF Frames, FrameType, Legal
<1>2. CASE f.op = "od_chat"
  BY <1>2 DEF Frames, FrameType, Legal
<1>3. CASE f.op = "od_kernel"
  BY <1>3 DEF Frames, FrameType, Legal
<1>4. CASE f.op = "od_exit"
  BY <1>4 DEF Frames, FrameType, Legal
<1>5. CASE f.op = "chat"
  BY <1>5 DEF Frames, FrameType, Legal
<1>6. CASE f.op = "dispatch"
  BY <1>6 DEF Frames, FrameType, Legal
<1>7. CASE f.op = "callback"
  BY <1>7 DEF Frames, FrameType, Legal
<1> QED
  BY <1>1, <1>2, <1>3, <1>4, <1>5, <1>6, <1>7 DEF Legal

LEMMA RootedTurn ==
    ASSUME NEW s \in Seq(Frames), NEW f \in Frames, NEW g \in Frames, g.op = f.op,
           Rooted(Append(s, f))
    PROVE  /\ Rooted(Append(s, g))
           /\ g.at \notin {"left", "done"} => Working(Append(s, g))
<1> DEFINE t == Append(s, f)
           u == Append(s, g)
<1>1. /\ t \in Seq(Frames) /\ Len(t) = Len(s) + 1 /\ Len(s) \in Nat
      /\ \A i \in 1..Len(s) : t[i] = s[i]
      /\ t[Len(s) + 1] = f /\ t # << >>
  BY Pushed
<1>2. /\ u \in Seq(Frames) /\ Len(u) = Len(s) + 1
      /\ \A i \in 1..Len(s) : u[i] = s[i]
      /\ u[Len(s) + 1] = g /\ u # << >>
  BY Pushed
<1>3. Rooted(t)
  OBVIOUS
<1> HIDE DEF t, u
<1>4. \A n \in Nat : n = 0 \/ n = 1 \/ n > 1
  OBVIOUS
<1>5. CASE Len(s) = 0
  <2>1. t[1] = f /\ u[1] = g /\ Len(u) = 1
    BY <1>1, <1>2, <1>5
  <2> QED
    BY <1>1, <1>2, <1>3, <2>1 DEF Rooted, Working, Busy, Settled, u
<1>6. CASE Len(s) = 1
  <2>1. t[1] = s[1] /\ u[1] = s[1] /\ t[2] = f /\ u[2] = g /\ Len(u) = 2 /\ Len(t) = 2
    BY <1>1, <1>2, <1>6
  <2> QED
    BY <1>1, <1>2, <1>3, <2>1 DEF Rooted, Working, Busy, Settled, u
<1>7. CASE Len(s) > 1
  <2>1. t[1] = s[1] /\ u[1] = s[1] /\ t[2] = s[2] /\ u[2] = s[2] /\ Len(u) > 1 /\ Len(t) > 1
        /\ u[Len(u)] = g /\ Len(u) # 1
    BY <1>1, <1>2, <1>7
  <2> QED
    BY <1>1, <1>2, <1>3, <2>1 DEF Rooted, Working, Busy, Settled, u
<1> QED
  BY <1>1, <1>4, <1>5, <1>6, <1>7

LEMMA GoesOn ==
    ASSUME SessionInv, Rooted(flow), flow # << >>, NEW x, Legal(Top.op, x)
    PROVE  /\ At(x) \in Seq(Frames) /\ At(x) # << >> /\ Rooted(At(x))
           /\ x # "left" => Working(At(x))
           /\ \A g \in Frames : x # "left" \/ g.op \in {"dispatch", "od_exit"} =>
                 /\ Busy(Append(At(x), g))
                 /\ g.at \notin {"left", "done"} => Working(Append(At(x), g))
<1> DEFINE f == Top
           h == [Top EXCEPT !.at = x]
           s == Below
           t == Append(s, h)
<1>1. s \in Seq(Frames) /\ f \in Frames /\ flow = Append(s, f)
  BY StackNow, TopFrame
<1>2. h \in Frames /\ h.op = f.op /\ h.at = x /\ x # "done"
  BY <1>1, FrameTurned
<1>3. At(x) = t
  BY DEF At
<1> HIDE DEF f, h, s
<1>4. Rooted(t) /\ (x \notin {"left", "done"} => Working(t))
  BY <1>1, <1>2, RootedTurn
<1>5. t \in Seq(Frames) /\ t # << >> /\ t[Len(t)] = h
  BY <1>1, <1>2
<1> HIDE DEF t
<1>6. ASSUME NEW g \in Frames, x # "left" \/ g.op \in {"dispatch", "od_exit"}
      PROVE  /\ Busy(Append(t, g))
             /\ g.at \notin {"left", "done"} => Working(Append(t, g))
  BY <1>2, <1>4, <1>5, <1>6, RootedPush
<1> QED
  BY <1>2, <1>3, <1>4, <1>5, <1>6

\* OD_API_ENTRY by f.
LEMMA Enters ==
    ASSUME NEW s \in Seq(Frames), Rooted(s), NEW f \in Frames,
           f.op \notin {"callback", "chat", "dispatch"}, f.at \notin {"left", "done"},
           s # << >> => s[Len(s)].at # "left" \/ f.op = "od_exit", Enter(s, f)
    PROVE  Working(flow')
<1> DEFINE t == Append(s, f)
<1>1. Working(t)
  BY RootedPush
<1>2. t \in Seq(Frames) /\ t # << >> /\ t[Len(t)] = f
  BY PushedTop
<1>3. Dispatch(<< >>) \in Frames /\ Dispatch(<< >>).at = "loop" /\ Dispatch(<< >>).op = "dispatch"
  BY InnerFrames DEF Inner, Dispatch
<1>4. flow' = t \/ flow' = Append(t, Dispatch(<< >>))
  BY DEF Enter
<1> HIDE DEF t
<1>5. Working(Append(t, Dispatch(<< >>)))
  BY <1>1, <1>2, <1>3, RootedPush DEF Working, Busy
<1> QED
  BY <1>1, <1>4, <1>5

LEMMA EntersKernel ==
    ASSUME NEW s, Working(s), RunKernel(s)
    PROVE  Working(flow')
<1>1. /\ Frame("od_kernel", "entered") \in Frames
      /\ Frame("od_kernel", "entered").op = "od_kernel"
      /\ Frame("od_kernel", "entered").at = "entered"
  BY FramesMade DEF Frame
<1>2. s \in Seq(Frames) /\ Rooted(s) /\ s[Len(s)].at # "left"
  BY DEF Working, Busy
<1>3. CASE Enter(s, Frame("od_kernel", "entered"))
  BY <1>1, <1>2, <1>3, Enters
<1> QED
  BY <1>3 DEF RunKernel

LEMMA CallsExit ==
    ASSUME NEW s \in Seq(Frames), Rooted(s), s # << >> => Working(s), NEW c \in Code, CallExit(s, c)
    PROVE  flow' = s \/ Working(flow')
<1> DEFINE f == Exit("hook", level # 0, c)
<1>1. f \in Frames /\ f.op = "od_exit" /\ f.at = "hook"
  BY FramesMade DEF Exit
<1>2. flow' = s \/ Enter(s, f)
  BY DEF CallExit
<1> HIDE DEF f
<1> QED
  BY <1>1, <1>2, Enters

\* The innermost activation, where it works.
LEMMA TopWorks ==
    ASSUME SessionInv, Rooted(flow), flow # << >>, Top.at \notin {"left", "done"}
    PROVE  Working(flow)
<1>1. flow \in Seq(Frames) /\ Top \in Frames /\ Below \in Seq(Frames) /\ flow = Append(Below, Top)
  BY StackNow, TopFrame
<1> QED
  BY <1>1, RootedTurn

---------------------------------------------------------------------------
(* Steps that leave the settings alone, or that are taken inside a call.   *)

Undisturbed ==
    /\ Rooted(flow') /\ subsystem' = subsystem
    /\ lifecycle' \in {"NeverStarted", "Initializing"} =>
          lifecycle \in {"NeverStarted", "Initializing"} /\ UNCHANGED <<control, cache>>
    /\ subsystem = "GUI" /\ lifecycle' = "Active" /\ Settled(flow') =>
          lifecycle = "Active" /\ Settled(flow) /\ UNCHANGED <<control, cache, fifo>>

LEMMA InsideCall ==
    ASSUME Busy(flow'), subsystem' = subsystem, Started, lifecycle' = lifecycle
    PROVE  Undisturbed
BY DEF Undisturbed, Busy, Started

LEMMA Returns ==
    ASSUME SessionInv, Rooted(flow), flow # << >>
    PROVE  /\ Below \in Seq(Frames) /\ Top \in Frames /\ flow = Append(Below, Top)
           /\ Rooted(Below)
           /\ Settled(Below) => Below = << >> \/ Top.op \in {"dispatch", "od_exit"}
           /\ Below = << >> => Top.op \notin {"callback", "chat", "dispatch"}
           /\ Below = << >> /\ Top.at \in {"left", "done"} => Settled(flow)
<1> DEFINE f == Top
           s == Below
<1>1. s \in Seq(Frames) /\ f \in Frames /\ flow = Append(s, f)
  BY StackNow, TopFrame
<1> HIDE DEF f, s
<1>2. NoInit(s)
  BY <1>1, StackNow, OrderlyPop DEF Stack
<1>3. /\ Rooted(s)
      /\ Settled(s) => s = << >> \/ f.op \in {"dispatch", "od_exit"}
      /\ s = << >> => f.op \notin {"callback", "chat", "dispatch"}
  BY <1>1, <1>2, RootedPop
<1>4. ASSUME s = << >>, f.at \in {"left", "done"} PROVE Settled(flow)
  <2>1. Len(flow) = 1 /\ flow[1] = f
    BY <1>1, <1>4
  <2> QED
    BY <1>4, <2>1 DEF Settled
<1> QED
  BY <1>1, <1>3, <1>4 DEF f, s

\* A call that is alone on the stack has taken the level to 1.
LEMMA AloneCounts ==
    ASSUME SessionInv, flow # << >>, Below = << >>, ~IsWaiting(Top)
    PROVE  level = Weight(Top)
<1> DEFINE f == Top
<1>1. f \in Frames /\ flow = Append(<< >>, f) /\ Stack(flow, level, exiting, first)
  BY StackNow, TopFrame
<1>2. ~IsWaiting(f)
  OBVIOUS
<1> HIDE DEF f
<1>3. << >> \in Seq(Frames) /\ Counted(Append(<< >>, f), level) /\ level \in Int
  BY <1>1 DEF Stack
<1>4. Counted(<< >>, level - Weight(f))
  BY <1>1, <1>2, <1>3, CountFrame
<1>5. level - Weight(f) = 0
  BY <1>4, EmptyStack DEF Counted
<1>6. Weight(f) \in Int
  BY DEF Weight
<1> QED
  BY <1>3, <1>5, <1>6 DEF f

LEMMA CallsUndisturbed ==
    ASSUME SessionInv, Rooted(flow), CallGetKey \/ CallChat \/ CallKernel
    PROVE  Undisturbed
<1>1. /\ ApplicationRuns /\ Open /\ UNCHANGED <<subsystem, lifecycle>>
      /\ \E f \in {GetKey("kernel", 0), Frame("od_chat", "chat"), Frame("od_kernel", "entered")} :
            Enter(flow, f)
  BY DEF CallGetKey, CallChat, CallKernel, PublicCall
<1>2. Started
  BY <1>1, AppStarted
<1>3. flow # << >> => Working(flow)
  <2> SUFFICES ASSUME flow # << >> PROVE Working(flow)
    OBVIOUS
  <2>1. Top \in Frames /\ Top.op = "callback"
    BY <1>1, StackNow, TopFrame DEF ApplicationRuns
  <2>2. Top.at \notin {"left", "done"}
    BY <2>1 DEF Frames, FrameType
  <2> QED
    BY <2>2, TopWorks
<1>4. PICK f \in {GetKey("kernel", 0), Frame("od_chat", "chat"), Frame("od_kernel", "entered")} :
         Enter(flow, f)
  BY <1>1
<1>5. /\ f \in Frames /\ f.op \notin {"callback", "chat", "dispatch"}
      /\ f.at \notin {"left", "done"}
  BY FramesMade DEF GetKey, Frame
<1>6. Working(flow')
  BY <1>3, <1>4, <1>5, StackNow, Enters DEF Working
<1> QED
  BY <1>1, <1>2, <1>6, InsideCall DEF Working

LEMMA GetKeyUndisturbed ==
    ASSUME SessionInv, Rooted(flow), GetKeyStep
    PROVE  Undisturbed
<1>1. /\ flow # << >> /\ Top.op = "od_get_key" /\ UNCHANGED <<subsystem, lifecycle>>
      /\ Top.at \in {"kernel", "waits", "waiting", "checkpoint", "checked"}
  BY DEF GetKeyStep, GetKeyRunsKernel, GetKeyWaits, GetKeyPolls, GetKeyWaited,
     CheckpointRunsKernel, CheckpointReturns, On
<1>2. Started
  BY <1>1, TopStarted
<1>3. /\ Working(flow)
      /\ \A x \in {"waits", "checkpoint", "checked", "leaving"} : Working(At(x))
      /\ Working(Append(At("checkpoint"), Dispatch(<< >>)))
  <2>1. Dispatch(<< >>) \in Frames /\ Dispatch(<< >>).at = "loop"
    BY InnerFrames DEF Inner, Dispatch
  <2> QED
    BY <1>1, <2>1, TopWorks, GoesOn DEF Legal
<1>4. Working(flow')
  <2>1. CASE GetKeyRunsKernel
    BY <1>3, <2>1, EntersKernel DEF GetKeyRunsKernel
  <2>2. CASE GetKeyWaits
    <3> DEFINE g == GetKey("waiting", level)
    <3>1. g \in Frames /\ g.op = "od_get_key" /\ g.at = "waiting"
      BY StackNow, FramesMade DEF GetKey
    <3>2. flow' = Append(Below, g)
      BY <2>2 DEF GetKeyWaits
    <3> HIDE DEF g
    <3> QED
      BY <1>1, <3>1, <3>2, Returns, RootedTurn
  <2>3. CASE GetKeyPolls
    BY <1>3, <2>3, EntersKernel DEF GetKeyPolls
  <2>4. CASE GetKeyWaited
    BY <1>3, <2>4 DEF GetKeyWaited
  <2>5. CASE CheckpointRunsKernel
    BY <1>3, <2>5, EntersKernel DEF CheckpointRunsKernel
  <2>6. CASE CheckpointReturns
    BY <1>3, <2>6 DEF CheckpointReturns
  <2> QED
    BY <2>1, <2>2, <2>3, <2>4, <2>5, <2>6 DEF GetKeyStep
<1> QED
  BY <1>1, <1>2, <1>4, InsideCall DEF Working

LEMMA LeavingUndisturbed ==
    ASSUME SessionInv, Rooted(flow), APIExit
    PROVE  Undisturbed
<1>1. flow # << >> /\ Top.at \in {"leaving", "left"} /\ subsystem' = subsystem
      /\ UNCHANGED <<control, cache, fifo>>
  BY DEF APIExit, InnerExit, OuterExitDispatches, OuterExitFinalizes, OuterExitReturns, requests
<1>2. /\ Top.op \in {"od_get_key", "od_chat", "od_kernel"} /\ Legal(Top.op, "left")
      /\ ~IsWaiting(Top) /\ Weight(Top) = 1 /\ Started
  BY <1>1, LeavingFrame
<1>3. /\ Rooted(Below) /\ (Settled(Below) => Below = << >>)
      /\ Below = << >> => level = 1
      /\ Below = << >> /\ Top.at = "left" => Settled(flow)
  BY <1>1, <1>2, Returns, AloneCounts
<1>4. CASE InnerExit
  <2>1. flow' = Below /\ lifecycle' = lifecycle /\ (level # 1 \/ lifecycle # "Active")
    BY <1>4 DEF InnerExit, Leave
  <2> QED
    BY <1>1, <1>2, <1>3, <2>1 DEF Undisturbed, Started
<1>5. CASE OuterExitReturns
  <2>1. flow' = Below /\ lifecycle' = lifecycle /\ Top.at = "left"
    BY <1>5 DEF OuterExitReturns, Leave
  <2> QED
    BY <1>1, <1>2, <1>3, <2>1 DEF Undisturbed, Started
<1>6. CASE OuterExitDispatches
  <2>1. lifecycle' = lifecycle
        /\ flow' = IF subsystem = "GUI" THEN Append(At("left"), Dispatch(<< >>)) ELSE At("left")
    BY <1>6 DEF OuterExitDispatches
  <2>2. Rooted(At("left")) /\ Busy(Append(At("left"), Dispatch(<< >>)))
    BY <1>1, <1>2, GoesOn, InnerFrames DEF Inner, Dispatch
  <2> QED
    BY <1>1, <1>2, <2>1, <2>2 DEF Undisturbed, Started, Busy
<1>7. CASE OuterExitFinalizes
  <2> DEFINE x == Exit("closing", TRUE, pending)
  <2>1. lifecycle' = "Finalizing" /\ flow' = Append(At("left"), x) /\ pending # NoCode
    BY <1>7 DEF OuterExitFinalizes, SessionInv, Ending
  <2>2. x \in Frames /\ x.op = "od_exit"
    BY <2>1, FramesMade DEF SessionInv, Ending, Exit
  <2> HIDE DEF x
  <2>3. Busy(flow')
    BY <1>1, <1>2, <2>1, <2>2, GoesOn
  <2> QED
    BY <1>1, <2>1, <2>3 DEF Undisturbed, Busy
<1> QED
  BY <1>4, <1>5, <1>6, <1>7 DEF APIExit

LEMMA CallbackUndisturbed ==
    ASSUME SessionInv, Rooted(flow), CallbackReturns
    PROVE  Undisturbed
<1>1. flow # << >> /\ Top.op = "callback" /\ flow' = Below /\ UNCHANGED <<subsystem, lifecycle>>
  BY DEF CallbackReturns
<1>2. Started /\ Busy(Below)
  BY <1>1, TopStarted, Returns DEF Busy
<1> QED
  BY <1>1, <1>2, InsideCall

LEMMA AppExitsUndisturbed ==
    ASSUME SessionInv, Rooted(flow), AppExits
    PROVE  Undisturbed
<1>1. /\ ApplicationRuns /\ Open /\ UNCHANGED <<control, cache, fifo, subsystem, lifecycle>>
      /\ CallExit(flow, "app") /\ "app" \in Code
  BY DEF AppExits, requests, Code
<1>2. Started
  BY <1>1, AppStarted
<1>3. flow # << >> => Working(flow)
  <2> SUFFICES ASSUME flow # << >> PROVE Working(flow)
    OBVIOUS
  <2>1. Top \in Frames /\ Top.op = "callback"
    BY <1>1, StackNow, TopFrame DEF ApplicationRuns
  <2>2. Top.at \notin {"left", "done"}
    BY <2>1 DEF Frames, FrameType
  <2> QED
    BY <2>2, TopWorks
<1>4. flow' = flow \/ Working(flow')
  BY <1>1, <1>3, StackNow, CallsExit
<1> QED
  BY <1>1, <1>2, <1>4, InsideCall DEF Undisturbed, Started, Open, Working

LEMMA KernelUndisturbed ==
    ASSUME SessionInv, Rooted(flow), KernelStep
    PROVE  Undisturbed
<1>1. /\ flow # << >> /\ Top.op = "od_kernel" /\ UNCHANGED <<subsystem, lifecycle>>
      /\ Top.at \in {"entered", "hooked", "poll", "keys", "resumes", "time"}
  BY DEF KernelStep, KernelStarts, KernelHooked, KernelPolls, ChatKey, PressChatKey,
     KernelResumes, PressEscape, PressSettingKey, PressExitKey, KernelFindsInactive, KernelTime,
     KernelReadsKeys, On
<1>2. Started
  BY <1>1, TopStarted
<1>3. /\ Working(flow)
      /\ \A x \in {"poll", "keys", "hooked", "resumes", "time", "leaving"} : Working(At(x))
      /\ Working(Append(At("hooked"), Frame("callback", "ker_exec")))
      /\ Working(Append(At("resumes"), Frame("chat", "kernel")))
  <2>1. /\ Frame("callback", "ker_exec") \in Frames /\ Frame("callback", "ker_exec").at = "ker_exec"
        /\ Frame("chat", "kernel") \in Frames /\ Frame("chat", "kernel").at = "kernel"
    BY FramesMade DEF Frame
  <2> QED
    BY <1>1, <2>1, TopWorks, GoesOn DEF Legal
<1>4. ASSUME NEW s, Working(s), NEW c \in Code, CallExit(s, c) PROVE Working(flow')
  BY <1>4, CallsExit DEF Working, Busy
<1>5. {"kernel", "operator"} \subseteq Code
  BY DEF Code
<1>6. ToggleChat => flow' = flow \/ flow' = Append(At("resumes"), Frame("chat", "kernel"))
  BY DEF ToggleChat
<1>7. Working(flow')
  <2>1. CASE KernelStarts
    BY <1>3, <2>1 DEF KernelStarts
  <2>2. CASE KernelHooked
    BY <1>3, <2>2 DEF KernelHooked
  <2>3. CASE KernelPolls
    BY <1>3, <1>4, <1>5, <2>3 DEF KernelPolls
  <2>4. CASE ChatKey \/ PressChatKey
    BY <1>3, <1>6, <2>4 DEF ChatKey, PressChatKey
  <2>5. CASE KernelResumes
    BY <1>3, <2>5 DEF KernelResumes
  <2>6. CASE PressEscape
    BY <1>3, <2>6 DEF PressEscape
  <2>7. CASE PressSettingKey
    BY <1>3, <2>7 DEF PressSettingKey
  <2>8. CASE PressExitKey
    BY <1>3, <1>4, <1>5, <2>8 DEF PressExitKey
  <2>9. CASE KernelFindsInactive
    BY <1>3, <1>4, <1>5, <2>9 DEF KernelFindsInactive
  <2>10. CASE KernelTime
    BY <1>3, <1>4, <1>5, <2>10 DEF KernelTime
  <2> QED
    BY <2>1, <2>2, <2>3, <2>4, <2>5, <2>6, <2>7, <2>8, <2>9, <2>10 DEF KernelStep
<1> QED
  BY <1>1, <1>2, <1>7, InsideCall DEF Working

LEMMA ChatUndisturbed ==
    ASSUME SessionInv, Rooted(flow), ChatStep
    PROVE  Undisturbed
<1>1. /\ flow # << >> /\ UNCHANGED <<subsystem, lifecycle>>
      /\ \/ Top.op = "od_chat" /\ Top.at = "chat"
         \/ Top.op = "chat" /\ Top.at \in {"kernel", "opening", "talking", "ended", "closing"}
  BY DEF ChatStep, BeginChat, ChatRunsKernel, ChatOpens, ChatTalks, ChatCleansUp, ChatEnds, On
<1>2. Started
  BY <1>1, TopStarted
<1>3. /\ Frame("callback", "chat") \in Frames /\ Frame("callback", "chat").at = "chat"
      /\ Frame("chat", "kernel") \in Frames /\ Frame("chat", "kernel").at = "kernel"
  BY FramesMade DEF Frame
<1>4. Working(flow)
  BY <1>1, TopWorks
<1>5. CASE BeginChat
  <2>1. flow' = Append(At("leaving"), Frame("chat", "kernel")) /\ Top.op = "od_chat"
    BY <1>5 DEF BeginChat, On
  <2>2. Working(flow')
    BY <1>1, <1>3, <2>1, GoesOn DEF Legal
  <2> QED
    BY <1>1, <1>2, <2>2, InsideCall DEF Working
<1>6. ASSUME Top.op = "chat"
      PROVE  \A x \in {"opening", "talking", "ended", "closing"} :
                Working(At(x)) /\ Working(Append(At(x), Frame("callback", "chat")))
  BY <1>1, <1>3, <1>6, GoesOn DEF Legal
<1>7. CASE ChatRunsKernel \/ ChatOpens \/ ChatTalks \/ ChatCleansUp
  <2>1. Top.op = "chat"
    BY <1>7 DEF ChatRunsKernel, ChatOpens, ChatTalks, ChatCleansUp, On
  <2>2. Working(flow')
    <3>1. CASE ChatRunsKernel
      BY <1>6, <2>1, <3>1, EntersKernel DEF ChatRunsKernel
    <3>2. CASE ChatOpens
      BY <1>6, <2>1, <3>2 DEF ChatOpens, WithCallback
    <3>3. CASE ChatTalks
      BY <1>4, <1>6, <2>1, <3>3, EntersKernel DEF ChatTalks
    <3>4. CASE ChatCleansUp
      BY <1>6, <2>1, <3>4 DEF ChatCleansUp, WithCallback
    <3> QED
      BY <1>7, <3>1, <3>2, <3>3, <3>4
  <2> QED
    BY <1>1, <1>2, <2>2, InsideCall DEF Working
<1>8. CASE ChatEnds
  <2>1. flow' = Below /\ Top.op = "chat"
    BY <1>8 DEF ChatEnds, On
  <2>2. Busy(Below)
    BY <1>1, <2>1, Returns DEF Busy
  <2> QED
    BY <1>1, <1>2, <2>1, <2>2, InsideCall
<1> QED
  BY <1>5, <1>7, <1>8 DEF ChatStep

LEMMA ExitUndisturbed ==
    ASSUME SessionInv, Rooted(flow), ExitStep
    PROVE  Undisturbed
<1>1. flow # << >> /\ Top.op = "od_exit" /\ subsystem' = subsystem
  BY DEF ExitStep, ExitInitialized, ExitRunsHook, ExitDecides, ExitFinishes, On
<1>2. Started
  BY <1>1, TopStarted
<1>3. /\ Below \in Seq(Frames) /\ Top \in Frames /\ flow = Append(Below, Top) /\ Rooted(Below)
  BY <1>1, Returns
<1>4. CASE ExitInitialized
  <2> DEFINE x == Exit("hook", level # 0, Top.code)
  <2>1. Enter(Below, x) /\ lifecycle' = lifecycle
    BY <1>4 DEF ExitInitialized
  <2>2. Top.code \in Code
    BY <1>1, <1>3 DEF Frames, FrameType
  <2>3. x \in Frames /\ x.op = "od_exit" /\ x.at = "hook"
    BY <2>2, FramesMade DEF Exit
  <2> HIDE DEF x
  <2>4. Working(flow')
    BY <1>3, <2>1, <2>3, Enters
  <2> QED
    BY <1>1, <1>2, <2>1, <2>4, InsideCall DEF Working
<1>5. CASE ExitRunsHook
  <2>1. /\ Frame("callback", "before_exit") \in Frames
        /\ Frame("callback", "before_exit").at = "before_exit"
    BY FramesMade DEF Frame
  <2>2. Working(At("deciding")) /\ Working(Append(At("deciding"), Frame("callback", "before_exit")))
    BY <1>1, <2>1, GoesOn DEF Legal
  <2>3. Working(flow') /\ lifecycle' = lifecycle
    BY <1>5, <2>2 DEF ExitRunsHook, WithCallback
  <2> QED
    BY <1>1, <1>2, <2>3, InsideCall DEF Working
<1>6. CASE ExitDecides
  <2>1. Rooted(At("closing"))
    BY <1>1, GoesOn DEF Legal
  <2>2. (flow' = Below \/ flow' = At("closing")) /\ lifecycle' \in {"ExitPending", "Finalizing"}
    BY <1>6 DEF ExitDecides
  <2> QED
    BY <1>1, <1>3, <2>1, <2>2 DEF Undisturbed
<1>7. CASE ExitFinishes
  <2>1. (flow' = Below \/ flow' = << >>) /\ lifecycle' = "Terminal"
    BY <1>7 DEF ExitFinishes
  <2> QED
    BY <1>1, <1>3, <2>1 DEF Undisturbed, Rooted
<1> QED
  BY <1>4, <1>5, <1>6, <1>7 DEF ExitStep

LEMMA DispatchUndisturbed ==
    ASSUME SessionInv, Rooted(flow),
           DispatchTakes \/ DispatchFindsNone \/ DispatchApplies \/ DispatchStops
    PROVE  Undisturbed
<1>1. /\ flow # << >> /\ Top.op = "dispatch" /\ Top.at = "loop"
      /\ UNCHANGED <<subsystem, lifecycle>>
  BY DEF DispatchTakes, DispatchFindsNone, DispatchApplies, DispatchStops, On
<1>2. Started
  BY <1>1, TopStarted
<1>3. /\ Below \in Seq(Frames) /\ Top \in Frames /\ flow = Append(Below, Top) /\ Rooted(Below)
  BY <1>1, Returns
<1>4. ASSUME NEW b \in Seq(Request) PROVE Working(Append(Below, Dispatch(b)))
  <2>1. Dispatch(b) \in Frames /\ Dispatch(b).op = "dispatch" /\ Dispatch(b).at = "loop"
    BY FramesMade DEF Dispatch
  <2> QED
    BY <1>1, <1>3, <2>1, RootedTurn
<1>5. CASE DispatchTakes
  <2>1. fifo \in Seq(Request) /\ flow' = Append(Below, Dispatch(fifo))
    BY <1>5 DEF DispatchTakes, SessionInv, Numbering
  <2>2. Working(flow')
    BY <1>4, <2>1
  <2> QED
    BY <1>1, <1>2, <2>2, InsideCall DEF Working
<1>6. CASE DispatchFindsNone
  <2>1. Working(flow')
    BY <1>1, <1>6, GoesOn DEF DispatchFindsNone, Legal
  <2> QED
    BY <1>1, <1>2, <2>1, InsideCall DEF Working
<1>7. CASE DispatchApplies
  <2> DEFINE rest == Append(Below, Dispatch(Tail(Top.batch)))
  <2>1. Top.batch \in Seq(Request) /\ Top.batch # << >>
    BY <1>1, <1>3, <1>7 DEF DispatchApplies, Frames, FrameType
  <2>2. Tail(Top.batch) \in Seq(Request)
    BY <2>1
  <2>3. Working(rest)
    BY <1>4, <2>2
  <2>4. /\ Frame("chat", "kernel") \in Frames /\ Frame("chat", "kernel").at = "kernel"
        /\ "operator" \in Code
    BY FramesMade DEF Frame, Code
  <2>5. \/ CallExit(rest, "operator")
        \/ flow' = rest
        \/ flow' = Append(rest, Frame("chat", "kernel"))
    BY <1>7 DEF DispatchApplies
  <2> HIDE DEF rest
  <2>6. Working(Append(rest, Frame("chat", "kernel")))
    BY <2>3, <2>4, RootedPush DEF Working, Busy
  <2>7. Working(flow')
    BY <2>3, <2>4, <2>5, <2>6, CallsExit DEF Working, Busy
  <2> QED
    BY <1>1, <1>2, <2>7, InsideCall DEF Working
<1>8. CASE DispatchStops
  <2>1. flow' = Below /\ lifecycle' # "Active"
    BY <1>1, <1>8 DEF DispatchStops
  <2> QED
    BY <1>1, <1>2, <1>3, <2>1 DEF Undisturbed, Started
<1> QED
  BY <1>5, <1>6, <1>7, <1>8

LEMMA InitUndisturbed ==
    ASSUME SessionInv, Rooted(flow),
           \/ StartUp \/ ExitFirst \/ InitReturns
           \/ \E c \in Code : ExitWhileStarting(c)
    PROVE  Undisturbed
<1>1. subsystem' = subsystem /\ UNCHANGED <<control, cache, fifo>>
  BY DEF StartUp, ExitFirst, InitReturns, ExitWhileStarting, requests
<1>2. Frame("od_init", "starting") \in Frames /\ Frame("od_init", "starting").op = "od_init"
      /\ Frame("od_init", "starting").at = "starting"
  BY FramesMade DEF Frame
<1>3. CASE StartUp
  <2>1. flow' = <<Frame("od_init", "starting")>> /\ lifecycle' = "Initializing"
        /\ lifecycle = "NeverStarted"
    BY <1>3 DEF StartUp
  <2>2. Rooted(flow')
    BY <1>2, <2>1 DEF Rooted
  <2> QED
    BY <1>1, <2>1, <2>2 DEF Undisturbed
<1>4. CASE ExitFirst
  <2> DEFINE x == Exit("initializing", FALSE, "app")
  <2>1. flow' = <<x, Frame("od_init", "starting")>> /\ lifecycle' = "Initializing"
        /\ lifecycle = "NeverStarted"
    BY <1>4 DEF ExitFirst
  <2>2. x.op = "od_exit" /\ x.at = "initializing"
    BY DEF Exit
  <2> HIDE DEF x
  <2>3. flow'[1] = x
    BY <2>1
  <2>4. Rooted(flow')
    BY <2>2, <2>3 DEF Rooted
  <2> QED
    BY <1>1, <2>1, <2>4 DEF Undisturbed
<1>5. CASE InitReturns
  <2>1. /\ flow # << >> /\ Top.op = "od_init" /\ Top.at = "done" /\ lifecycle' = lifecycle
        /\ \/ Enter(Below, Exit("hook", FALSE, pending)) /\ pending # NoCode
           \/ flow' = Below
    BY <1>5 DEF InitReturns, On, SessionInv, Ending
  <2>2. /\ Below \in Seq(Frames) /\ Rooted(Below) /\ (Settled(Below) => Below = << >>)
        /\ Below = << >> => Settled(flow)
        /\ lifecycle = "Active"
    BY <2>1, Returns, InitFrame
  <2>3. CASE flow' = Below
    BY <1>1, <2>1, <2>2, <2>3 DEF Undisturbed
  <2>4. CASE Enter(Below, Exit("hook", FALSE, pending)) /\ pending # NoCode
    <3> DEFINE x == Exit("hook", FALSE, pending)
    <3>1. pending \in Code
      BY <2>4 DEF SessionInv, Ending
    <3>2. x \in Frames /\ x.op = "od_exit" /\ x.at = "hook" /\ Enter(Below, x)
      BY <2>4, <3>1, FramesMade DEF Exit
    <3> HIDE DEF x
    <3>3. Working(flow')
      BY <2>2, <3>2, Enters
    <3> QED
      BY <1>1, <2>1, <2>2, <3>3 DEF Undisturbed, Working, Busy
  <2> QED
    BY <2>1, <2>3, <2>4
<1>6. CASE \E c \in Code : ExitWhileStarting(c)
  <2>1. UNCHANGED <<flow, lifecycle>>
    BY <1>6 DEF ExitWhileStarting
  <2> QED
    BY <1>1, <2>1 DEF Undisturbed
<1> QED
  BY <1>3, <1>4, <1>5, <1>6

---------------------------------------------------------------------------
(* Types.                                                                  *)

LEMMA QueuedRequest ==
    ASSUME SessionInv, frame = "queueing", NEW kind \in Kind, NEW by \in {-1, 0, 1}
    PROVE  [n |-> asked + 1, kind |-> kind, on |-> Flipped(kind), by |-> by] \in Request
<1>1. asked + 1 \in 1..MaxRequests
  BY RequestAssumption DEF SessionInv, Numbering
<1> QED
  BY <1>1, FlippedType DEF Request

SettingsTyped == control \in Settings /\ cache \in Settings

LEMMA SettingsStep ==
    ASSUME SessionInv, SettingsTyped, [Next]_vars
    PROVE  SettingsTyped'
<1>1. /\ \A b \in BOOLEAN : [control EXCEPT !.chat = b] \in Settings
      /\ \A s \in Switch : [control EXCEPT !.on[s] = ~@] \in Settings
  BY DEF SettingsTyped, Settings
<1>2. ASSUME NEW t \in Int PROVE [control EXCEPT !.time = ClampTime(t)] \in Settings
  <2>1. ClampTime(t) \in 0..TimeMax
    BY RequestAssumption DEF ClampTime
  <2> QED
    BY <2>1 DEF SettingsTyped, Settings
<1>3. control.time \in Int
  BY DEF SettingsTyped, Settings
<1>4. CASE InitStep \/ AppStep \/ GetKeyStep \/ APIExit \/ ExitStep \/ UNCHANGED vars
  BY <1>4 DEF InitStep, StartUp, ExitFirst, ExitWhileStarting, InitCompletes, InitReturns, AppStep,
     CallGetKey, CallChat, CallKernel, PublicCall, AppExits, GetKeyStep, GetKeyRunsKernel,
     GetKeyWaits, GetKeyPolls, GetKeyWaited, CheckpointRunsKernel, CheckpointReturns, APIExit,
     InnerExit, OuterExitDispatches, OuterExitFinalizes, OuterExitReturns, ExitStep,
     ExitInitialized, ExitRunsHook, ExitDecides, ExitFinishes, requests, vars, SettingsTyped
<1>5. CASE CallbackReturns
  BY <1>1, <1>5 DEF CallbackReturns, SettingsTyped
<1>6. CASE KernelStep
  <2>1. CASE KernelTime
    <3>1. PICK d \in {0, 1} :
             control' = [control EXCEPT !.time =
                            ClampTime(control.time - (IF control.chat THEN 0 ELSE d))]
      BY <2>1 DEF KernelTime
    <3>2. control.time - (IF control.chat THEN 0 ELSE d) \in Int
      BY <1>3
    <3>3. cache' = cache
      BY <2>1 DEF KernelTime
    <3> QED
      BY <1>2, <3>1, <3>2, <3>3 DEF SettingsTyped
  <2>2. CASE PressSettingKey
    <3>1. \/ \E s \in Switch : control' = [control EXCEPT !.on[s] = ~@]
          \/ \E d \in {-1, 1} : control' = [control EXCEPT !.time = ClampTime(control.time + d)]
      BY <2>2 DEF PressSettingKey
    <3>2. \A d \in {-1, 1} : control.time + d \in Int
      BY <1>3
    <3>3. cache' = cache
      BY <2>2 DEF PressSettingKey
    <3> QED
      BY <1>1, <1>2, <3>1, <3>2, <3>3 DEF SettingsTyped
  <2>3. CASE ChatKey \/ PressChatKey
    BY <1>1, <2>3 DEF ChatKey, PressChatKey, ToggleChat, requests, SettingsTyped
  <2>4. CASE \/ KernelStarts \/ KernelHooked \/ KernelPolls \/ KernelResumes \/ PressEscape
             \/ PressExitKey \/ KernelFindsInactive
    BY <1>1, <2>4 DEF KernelStarts, KernelHooked, KernelPolls, KernelResumes, PressEscape,
       PressExitKey, KernelFindsInactive, requests, SettingsTyped
  <2> QED
    BY <1>6, <2>1, <2>2, <2>3, <2>4 DEF KernelStep
<1>7. CASE ChatStep
  BY <1>1, <1>7 DEF ChatStep, BeginChat, ChatRunsKernel, ChatOpens, ChatTalks, ChatCleansUp,
     ChatEnds, requests, SettingsTyped
<1>8. CASE DispatchStep
  <2>1. CASE DispatchApplies
    <3>1. flow # << >> /\ Top.op = "dispatch" /\ Top.batch # << >>
      BY <2>1 DEF DispatchApplies, On
    <3>2. Top \in Frames
      BY <3>1, StackNow, TopFrame
    <3>3. Top.batch \in Seq(Request)
      BY <3>1, <3>2 DEF Frames, FrameType
    <3>4. Head(Top.batch) \in Request
      BY <3>1, <3>3
    <3>5. Effect(control, Head(Top.batch)) \in Settings
      BY <3>4, EffectType DEF SettingsTyped
    <3> QED
      BY <2>1, <3>5 DEF DispatchApplies, SettingsTyped
  <2>2. CASE DispatchTakes \/ DispatchFindsNone \/ DispatchRefreshes \/ DispatchStops
    BY <2>2 DEF DispatchTakes, DispatchFindsNone, DispatchRefreshes, RefreshUIState,
       DispatchStops, requests, SettingsTyped
  <2> QED
    BY <1>8, <2>1, <2>2 DEF DispatchStep
<1>9. CASE FrameThread
  <2>1. CASE TestActive(lifecycle = "Active")
    BY <2>1 DEF TestActive, SettingsTyped
  <2>2. ASSUME NEW kind \in Kind, NEW by \in {-1, 0, 1}, Enqueue(kind, by)
        PROVE  SettingsTyped'
    <3> DEFINE r == [n |-> asked + 1, kind |-> kind, on |-> Flipped(kind), by |-> by]
    <3>1. r \in Request
      BY <2>2, QueuedRequest DEF Enqueue
    <3>2. cache' = Effect(cache, r) /\ control' = control
      BY <2>2 DEF Enqueue
    <3> HIDE DEF r
    <3> QED
      BY <3>1, <3>2, EffectType DEF SettingsTyped
  <2>3. "time" \in Kind
    BY DEF Kind
  <2> QED
    BY <1>9, <2>1, <2>2, <2>3 DEF FrameThread, FrameStep
<1> QED
  BY <1>4, <1>5, <1>6, <1>7, <1>8, <1>9 DEF Next, LibraryStep

---------------------------------------------------------------------------
(* The cache.                                                              *)

\* Until the session is active the cache is a copy; and while no call is in
\* progress it is what the settings will be.
CacheInv ==
    subsystem = "GUI" =>
        /\ lifecycle \in {"NeverStarted", "Initializing"} => cache = control
        /\ lifecycle = "Active" /\ Settled(flow) => cache = After(control, fifo)

ShownInv == SettingsTyped /\ Rooted(flow) /\ CacheInv

LEMMA UndisturbedCache ==
    ASSUME ShownInv, Undisturbed
    PROVE  Rooted(flow)' /\ CacheInv'
BY DEF ShownInv, Undisturbed, CacheInv

LEMMA ShownInvStep ==
    ASSUME SessionInv, ShownInv, [Next]_vars
    PROVE  ShownInv'
<1>1. SettingsTyped'
  BY SettingsStep DEF ShownInv
<1>2. Rooted(flow) /\ SettingsTyped /\ fifo \in Seq(Request)
  BY DEF ShownInv, SessionInv, Numbering
<1>3. CASE Undisturbed
  BY <1>1, <1>3, UndisturbedCache DEF ShownInv
<1>4. CASE InitCompletes
  <2>1. /\ flow # << >> /\ Top.op = "od_init" /\ Top.at = "starting" /\ flow' = At("done")
        /\ UNCHANGED <<control, cache, fifo, subsystem>> /\ lifecycle' = "Active"
    BY <1>4 DEF InitCompletes, On, requests
  <2>2. lifecycle = "Initializing" /\ fifo = << >>
    BY <2>1, InitFrame DEF SessionInv, Ending
  <2>3. subsystem = "GUI" => cache = After(control, fifo)
    BY <1>2, <2>2, AfterNothing DEF ShownInv, CacheInv, SettingsTyped
  <2>4. /\ Below \in Seq(Frames) /\ Top \in Frames /\ flow = Append(Below, Top)
    BY <2>1, Returns, <1>2
  <2> DEFINE g == [Top EXCEPT !.at = "done"]
  <2>5. g \in Frames /\ g.op = Top.op
    BY <2>1, <2>4 DEF Frames, FrameType
  <2>6. flow' = Append(Below, g)
    BY <2>1 DEF At
  <2> HIDE DEF g
  <2>7. Rooted(flow')
    BY <1>2, <2>4, <2>5, <2>6, RootedTurn
  <2> QED
    BY <1>1, <2>1, <2>3, <2>7 DEF ShownInv, CacheInv
<1>5. CASE DispatchRefreshes
  <2>1. /\ flow # << >> /\ Top.op = "dispatch" /\ UNCHANGED <<control, fifo, subsystem, lifecycle>>
        /\ cache' = (IF fifo = << >> THEN control ELSE cache)
        /\ flow' = (IF fifo = << >> THEN Below ELSE At("loop"))
    BY <1>5 DEF DispatchRefreshes, RefreshUIState, On
  <2>2. Started
    BY <2>1, TopStarted
  <2>3. CASE fifo = << >>
    <3>1. cache' = After(control', fifo')
      BY <1>2, <2>1, <2>3, AfterNothing DEF SettingsTyped
    <3>2. Rooted(flow')
      BY <1>2, <2>1, <2>3, Returns
    <3> QED
      BY <1>1, <2>1, <2>2, <3>1, <3>2 DEF ShownInv, CacheInv, Started
  <2>4. CASE fifo # << >>
    <3>1. Working(flow')
      BY <1>2, <2>1, <2>4, GoesOn DEF Legal
    <3> QED
      BY <1>1, <2>1, <2>2, <3>1 DEF ShownInv, CacheInv, Started, Working, Busy
  <2> QED
    BY <2>3, <2>4
<1>6. CASE FrameThread
  <2>1. UNCHANGED <<subsystem, lifecycle, flow>>
    BY <1>6 DEF FrameThread
  <2>2. CASE TestActive(lifecycle = "Active")
    BY <1>1, <2>1, <2>2 DEF TestActive, ShownInv, CacheInv
  <2>3. ASSUME NEW kind \in Kind, NEW by \in {-1, 0, 1}, Enqueue(kind, by)
        PROVE  ShownInv'
    <3> DEFINE r == [n |-> asked + 1, kind |-> kind, on |-> Flipped(kind), by |-> by]
    <3>1. r \in Request /\ frame = "queueing"
      BY <2>3, QueuedRequest DEF Enqueue
    <3>2. cache' = Effect(cache, r) /\ control' = control /\ fifo' = Append(fifo, r)
      BY <2>3 DEF Enqueue
    <3> HIDE DEF r
    <3>3. After(control, Append(fifo, r)) = Effect(After(control, fifo), r)
      BY <1>2, <3>1, AfterOneMore DEF SettingsTyped
    <3>4. cache = After(control, fifo) => cache' = After(control', fifo')
      BY <3>2, <3>3
    <3>5. lifecycle \notin {"NeverStarted", "Initializing"}
      BY <3>1 DEF SessionInv, Ending
    <3> QED
      BY <1>1, <2>1, <3>4, <3>5 DEF ShownInv, CacheInv
  <2>4. "time" \in Kind
    BY DEF Kind
  <2> QED
    BY <1>6, <2>2, <2>3, <2>4 DEF FrameThread, FrameStep
<1>7. CASE UNCHANGED vars
  BY <1>1, <1>7 DEF vars, requests, ShownInv, CacheInv
<1>8. CASE InitStep
  <2>1. {"app", "kernel"} \subseteq Code
    BY DEF Code
  <2> QED
    BY <1>2, <1>3, <1>4, <1>8, <2>1, InitUndisturbed DEF InitStep
<1>9. CASE AppStep
  BY <1>2, <1>3, <1>9, CallsUndisturbed, AppExitsUndisturbed DEF AppStep
<1>10. CASE CallbackReturns
  BY <1>2, <1>3, <1>10, CallbackUndisturbed
<1>11. CASE LibraryStep
  BY <1>2, <1>3, <1>5, <1>11, GetKeyUndisturbed, LeavingUndisturbed, KernelUndisturbed,
     ChatUndisturbed, DispatchUndisturbed, ExitUndisturbed DEF LibraryStep, DispatchStep
<1> QED
  BY <1>6, <1>7, <1>8, <1>9, <1>10, <1>11 DEF Next

\* What the frame shows between two calls is what the settings will be once the
\* waiting commands have been carried out, also when commands came in during a
\* dispatch, during chat or between the last dispatch and the refresh (ODKrnl.c:
\* ODKrnlQueueUIChange, ODKrnlDispatchPending, ODKrnlRefreshUIState).
THEOREM CacheIsRight == Spec => []CacheForetells
<1>1. Init => SessionInv /\ ShownInv
  <2> SUFFICES ASSUME Init PROVE SettingsTyped /\ Rooted(flow) /\ CacheInv
    BY SessionInvInit DEF ShownInv
  <2>1. TimeMax \in 0..TimeMax
    BY RequestAssumption
  <2> QED
    BY <2>1 DEF Init, RequestsInit, SettingsTyped, Settings, Rooted, CacheInv
<1>2. SessionInv /\ ShownInv /\ [Next]_vars => SessionInv' /\ ShownInv'
  BY SessionInvStep, ShownInvStep
<1>3. ShownInv => CacheForetells
  BY DEF ShownInv, CacheInv, CacheForetells, Settled
<1> QED
  BY <1>1, <1>2, <1>3, PTL DEF Spec

---------------------------------------------------------------------------
(* What the variables hold.                                                *)

\* The level is at most the number of calls on the stack.
LEMMA LevelBound ==
    ASSUME NEW s \in Seq(Frames), NEW n, Counted(s, n)
    PROVE  n \in 0..Len(s)
<1> DEFINE w == Max0(WaitsBefore(s, Len(s) + 1))
           C == Calls(s, w, Len(s))
<1>1. Len(s) \in Nat /\ Len(s) + 1 \in 1..(Len(s) + 1)
  OBVIOUS
<1>2. w \in WaitsBefore(s, Len(s) + 1) \union {0}
  BY <1>1, LastWait
<1>3. w \in Nat
  BY <1>1, <1>2 DEF WaitsBefore, Waits
<1>4. n = Cardinality(C)
  BY DEF Counted
<1> HIDE DEF w
<1>5. C \subseteq 1..Len(s)
  BY <1>1, <1>3 DEF Calls
<1> HIDE DEF C
<1>6. IsFiniteSet(1..Len(s)) /\ Cardinality(1..Len(s)) = Len(s)
  <2>1. 1 \in Int /\ Len(s) \in Int
    BY <1>1
  <2>2. /\ IsFiniteSet(1..Len(s))
        /\ Cardinality(1..Len(s)) = IF 1 > Len(s) THEN 0 ELSE Len(s) - 1 + 1
    BY <2>1, FS_Interval
  <2> QED
    BY <1>1, <2>2
<1>7. IsFiniteSet(C) /\ Cardinality(C) <= Len(s)
  BY <1>5, <1>6, FS_Subset
<1>8. Cardinality(C) \in Nat
  BY <1>7, FS_CardinalityType
<1> QED
  BY <1>1, <1>4, <1>7, <1>8

\* What a call of od_get_key has kept is no more than the calls below it.
Within(f, i) == f.op = "od_get_key" => f.saved \in 0..i
KeptBelow(s) == s \in Seq(Frames) /\ \A i \in 1..Len(s) : Within(s[i], i)

\* A frame that has kept nothing.
Fresh(f) == f \in Frames /\ (f.op = "od_get_key" => f.saved = 0)

LEMMA WithinPush ==
    ASSUME NEW s, KeptBelow(s), NEW f \in Frames, Within(f, Len(s) + 1)
    PROVE  KeptBelow(Append(s, f))
<1> DEFINE t == Append(s, f)
<1>1. s \in Seq(Frames)
  BY DEF KeptBelow
<1>2. /\ t \in Seq(Frames) /\ Len(t) = Len(s) + 1 /\ Len(s) \in Nat
      /\ \A i \in 1..Len(s) : t[i] = s[i]
      /\ t[Len(s) + 1] = f
  BY <1>1, Pushed
<1> HIDE DEF t
<1>3. ASSUME NEW i \in 1..Len(t) PROVE Within(t[i], i)
  <2>1. CASE i \in 1..Len(s)
    BY <1>2, <2>1 DEF KeptBelow
  <2>2. CASE i = Len(s) + 1
    BY <1>2, <2>2
  <2> QED
    BY <1>2, <2>1, <2>2
<1> QED
  BY <1>2, <1>3 DEF KeptBelow, t

LEMMA FreshPush ==
    ASSUME NEW s, KeptBelow(s), NEW f, Fresh(f)
    PROVE  KeptBelow(Append(s, f))
<1>1. s \in Seq(Frames)
  BY DEF KeptBelow
<1>2. 0 \in 0..(Len(s) + 1)
  BY <1>1
<1>3. f \in Frames /\ Within(f, Len(s) + 1)
  BY <1>2 DEF Fresh, Within
<1> QED
  BY <1>3, WithinPush

LEMMA KeptNow ==
    ASSUME SessionInv, KeptBelow(flow), flow # << >>
    PROVE  /\ KeptBelow(Below)
           /\ \A x : Legal(Top.op, x) => KeptBelow(At(x))
<1> DEFINE s == Below
           f == Top
<1>1. s \in Seq(Frames) /\ f \in Frames /\ flow = Append(s, f)
  BY StackNow, TopFrame
<1> HIDE DEF s, f
<1>2. /\ Len(flow) = Len(s) + 1 /\ Len(s) \in Nat
      /\ \A i \in 1..Len(s) : flow[i] = s[i]
      /\ flow[Len(s) + 1] = f
  BY <1>1, Pushed
<1>3. KeptBelow(s)
  BY <1>1, <1>2 DEF KeptBelow
<1>4. Within(f, Len(s) + 1)
  BY <1>2 DEF KeptBelow
<1>5. ASSUME NEW x, Legal(f.op, x) PROVE KeptBelow(Append(s, [f EXCEPT !.at = x]))
  <2> DEFINE g == [f EXCEPT !.at = x]
  <2>1. g \in Frames /\ g.op = f.op
    BY <1>1, <1>5, FrameTurned
  <2>2. f.op = "od_get_key" => g.saved = f.saved
    BY <1>1 DEF Frames, FrameType
  <2> HIDE DEF g
  <2>3. Within(g, Len(s) + 1)
    BY <1>4, <2>1, <2>2 DEF Within
  <2> QED
    BY <1>3, <2>1, <2>3, WithinPush DEF g
<1> QED
  BY <1>3, <1>5 DEF s, f, At

LEMMA FreshFrames ==
    /\ Fresh(Dispatch(<< >>)) /\ Fresh(Frame("chat", "kernel"))
    /\ Fresh(Frame("od_kernel", "entered")) /\ Fresh(Frame("od_chat", "chat"))
    /\ Fresh(Frame("od_init", "starting")) /\ Fresh(GetKey("kernel", 0))
    /\ \A at \in {"ker_exec", "chat", "before_exit"} : Fresh(Frame("callback", at))
    /\ \A at \in {"initializing", "hook", "deciding", "closing"}, nested \in BOOLEAN, c \in Code :
          Fresh(Exit(at, nested, c))
    /\ \A b \in Seq(Request) : Fresh(Dispatch(b))
<1>1. << >> \in Seq(Request)
  OBVIOUS
<1>2. \A b \in Seq(Request) : Fresh(Dispatch(b))
  BY FramesMade DEF Fresh, Dispatch
<1>3. \A at \in {"initializing", "hook", "deciding", "closing"}, nested \in BOOLEAN, c \in Code :
         Fresh(Exit(at, nested, c))
  BY FramesMade DEF Fresh, Exit
<1>4. Fresh(GetKey("kernel", 0))
  BY FramesMade DEF Fresh, GetKey
<1>5. /\ Fresh(Frame("chat", "kernel"))
      /\ Fresh(Frame("od_kernel", "entered")) /\ Fresh(Frame("od_chat", "chat"))
      /\ Fresh(Frame("od_init", "starting"))
      /\ \A at \in {"ker_exec", "chat", "before_exit"} : Fresh(Frame("callback", at))
  BY FramesMade DEF Fresh, Frame
<1> QED
  BY <1>1, <1>2, <1>3, <1>4, <1>5

LEMMA KeptEntering ==
    ASSUME NEW s, KeptBelow(s), NEW f, Fresh(f), Enter(s, f)
    PROVE  KeptBelow(flow')
<1>1. KeptBelow(Append(s, f))
  BY FreshPush
<1>2. KeptBelow(Append(Append(s, f), Dispatch(<< >>)))
  BY <1>1, FreshFrames, FreshPush
<1>3. flow' = Append(s, f) \/ flow' = Append(Append(s, f), Dispatch(<< >>))
  BY DEF Enter
<1> QED
  BY <1>1, <1>2, <1>3

LEMMA KeptRunning ==
    ASSUME NEW s, KeptBelow(s), RunKernel(s)
    PROVE  KeptBelow(flow')
<1>1. Enter(s, Frame("od_kernel", "entered")) \/ flow' = s
  BY DEF RunKernel
<1> QED
  BY <1>1, FreshFrames, KeptEntering

LEMMA KeptExit ==
    ASSUME NEW s, KeptBelow(s), NEW c \in Code, CallExit(s, c)
    PROVE  KeptBelow(flow')
<1>1. Enter(s, Exit("hook", level # 0, c)) \/ flow' = s
  BY DEF CallExit
<1>2. Fresh(Exit("hook", level # 0, c))
  BY FreshFrames
<1> QED
  BY <1>1, <1>2, KeptEntering

LEMMA KeptCallback ==
    ASSUME NEW s, KeptBelow(s), NEW owner \in {"ker_exec", "chat", "before_exit"},
           NEW t \in WithCallback(s, owner)
    PROVE  KeptBelow(t)
<1>1. t = s \/ t = Append(s, Frame("callback", owner))
  BY DEF WithCallback
<1> QED
  BY <1>1, FreshFrames, FreshPush

LEMMA KeptByCalls ==
    ASSUME KeptBelow(flow), CallGetKey \/ CallChat \/ CallKernel \/ AppExits
    PROVE  KeptBelow(flow')
<1>1. "app" \in Code
  BY DEF Code
<1>2. CASE AppExits
  BY <1>1, <1>2, KeptExit DEF AppExits
<1>3. CASE CallGetKey
  BY <1>3, FreshFrames, KeptEntering DEF CallGetKey, PublicCall
<1>4. CASE CallChat
  BY <1>4, FreshFrames, KeptEntering DEF CallChat, PublicCall
<1>5. CASE CallKernel
  BY <1>5, FreshFrames, KeptEntering DEF CallKernel, PublicCall
<1> QED
  BY <1>2, <1>3, <1>4, <1>5

LEMMA KeptByGetKey ==
    ASSUME SessionInv, KeptBelow(flow), GetKeyStep
    PROVE  KeptBelow(flow')
<1>1. flow # << >> /\ Top.op = "od_get_key"
  BY DEF GetKeyStep, GetKeyRunsKernel, GetKeyWaits, GetKeyPolls, GetKeyWaited,
     CheckpointRunsKernel, CheckpointReturns, On
<1>2. \A x \in {"waits", "checkpoint", "checked", "leaving"} : KeptBelow(At(x))
  BY <1>1, KeptNow DEF Legal
<1>3. KeptBelow(Append(At("checkpoint"), Dispatch(<< >>)))
  BY <1>2, FreshFrames, FreshPush
<1>4. CASE GetKeyRunsKernel
  BY <1>2, <1>4, KeptRunning DEF GetKeyRunsKernel
<1>5. CASE GetKeyWaits
  <2> DEFINE g == GetKey("waiting", level)
  <2>1. Below \in Seq(Frames) /\ Top \in Frames /\ flow = Append(Below, Top)
    BY <1>1, StackNow, TopFrame
  <2>2. Len(flow) = Len(Below) + 1
    BY <2>1, Pushed
  <2>3. level \in 0..Len(flow)
    BY StackNow, LevelBound DEF Stack
  <2>4. g \in Frames /\ Within(g, Len(Below) + 1)
    BY <2>2, <2>3, FramesMade DEF GetKey, Within
  <2>5. flow' = Append(Below, g)
    BY <1>5 DEF GetKeyWaits
  <2> HIDE DEF g
  <2> QED
    BY <1>1, <2>4, <2>5, KeptNow, WithinPush
<1>6. CASE GetKeyPolls
  BY <1>6, KeptRunning DEF GetKeyPolls
<1>7. CASE GetKeyWaited
  BY <1>2, <1>3, <1>7 DEF GetKeyWaited
<1>8. CASE CheckpointRunsKernel
  BY <1>2, <1>8, KeptRunning DEF CheckpointRunsKernel
<1>9. CASE CheckpointReturns
  BY <1>2, <1>9 DEF CheckpointReturns
<1> QED
  BY <1>4, <1>5, <1>6, <1>7, <1>8, <1>9 DEF GetKeyStep

LEMMA KeptByLeaving ==
    ASSUME SessionInv, KeptBelow(flow), APIExit \/ CallbackReturns
    PROVE  KeptBelow(flow')
<1>1. CASE CallbackReturns
  BY <1>1, KeptNow DEF CallbackReturns
<1>2. CASE APIExit
  <2>1. flow # << >> /\ Top.at \in {"leaving", "left"}
    BY <1>2 DEF APIExit, InnerExit, OuterExitDispatches, OuterExitFinalizes, OuterExitReturns
  <2>2. Legal(Top.op, "left")
    BY <2>1, LeavingFrame
  <2>3. KeptBelow(Below) /\ KeptBelow(At("left"))
    BY <2>1, <2>2, KeptNow
  <2>4. KeptBelow(Append(At("left"), Dispatch(<< >>)))
    BY <2>3, FreshFrames, FreshPush
  <2>5. CASE InnerExit \/ OuterExitReturns
    BY <2>3, <2>5 DEF InnerExit, OuterExitReturns, Leave
  <2>6. CASE OuterExitDispatches
    BY <2>3, <2>4, <2>6 DEF OuterExitDispatches
  <2>7. CASE OuterExitFinalizes
    <3>1. flow' = Append(At("left"), Exit("closing", TRUE, pending)) /\ pending \in Code
      BY <2>7 DEF OuterExitFinalizes, SessionInv, Ending
    <3>2. Fresh(Exit("closing", TRUE, pending))
      BY <3>1, FreshFrames
    <3> QED
      BY <2>3, <3>1, <3>2, FreshPush
  <2> QED
    BY <1>2, <2>5, <2>6, <2>7 DEF APIExit
<1> QED
  BY <1>1, <1>2

LEMMA KeptByKernel ==
    ASSUME SessionInv, KeptBelow(flow), KernelStep
    PROVE  KeptBelow(flow')
<1>1. flow # << >> /\ Top.op = "od_kernel"
  BY DEF KernelStep, KernelStarts, KernelHooked, KernelPolls, ChatKey, PressChatKey,
     KernelResumes, PressEscape, PressSettingKey, PressExitKey, KernelFindsInactive, KernelTime,
     KernelReadsKeys, On
<1>2. \A x \in {"poll", "keys", "hooked", "resumes", "time", "leaving"} : KeptBelow(At(x))
  BY <1>1, KeptNow DEF Legal
<1>3. /\ KeptBelow(Append(At("hooked"), Frame("callback", "ker_exec")))
      /\ KeptBelow(Append(At("resumes"), Frame("chat", "kernel")))
  BY <1>2, FreshFrames, FreshPush
<1>4. {"kernel", "operator"} \subseteq Code
  BY DEF Code
<1>5. ToggleChat => flow' = flow \/ flow' = Append(At("resumes"), Frame("chat", "kernel"))
  BY DEF ToggleChat
<1>6. CASE KernelStarts
  BY <1>2, <1>3, <1>6 DEF KernelStarts
<1>7. CASE KernelHooked
  BY <1>2, <1>7 DEF KernelHooked
<1>8. CASE KernelPolls
  BY <1>2, <1>4, <1>8, KeptExit DEF KernelPolls
<1>9. CASE ChatKey \/ PressChatKey
  BY <1>3, <1>5, <1>9 DEF ChatKey, PressChatKey
<1>10. CASE KernelResumes
  BY <1>2, <1>10 DEF KernelResumes
<1>11. CASE PressEscape
  BY <1>11 DEF PressEscape
<1>12. CASE PressSettingKey
  BY <1>2, <1>12 DEF PressSettingKey
<1>13. CASE PressExitKey
  BY <1>4, <1>13, KeptExit DEF PressExitKey
<1>14. CASE KernelFindsInactive
  BY <1>2, <1>4, <1>14, KeptExit DEF KernelFindsInactive
<1>15. CASE KernelTime
  BY <1>2, <1>4, <1>15, KeptExit DEF KernelTime
<1> QED
  BY <1>6, <1>7, <1>8, <1>9, <1>10, <1>11, <1>12, <1>13, <1>14, <1>15 DEF KernelStep

LEMMA KeptByChat ==
    ASSUME SessionInv, KeptBelow(flow), ChatStep
    PROVE  KeptBelow(flow')
<1>1. CASE BeginChat
  <2>1. /\ flow # << >> /\ Top.op = "od_chat"
        /\ flow' = Append(At("leaving"), Frame("chat", "kernel"))
    BY <1>1 DEF BeginChat, On
  <2>2. KeptBelow(At("leaving"))
    BY <2>1, KeptNow DEF Legal
  <2> QED
    BY <2>1, <2>2, FreshFrames, FreshPush
<1>2. ASSUME flow # << >>, Top.op = "chat"
      PROVE  \A x \in {"opening", "talking", "ended", "closing"} : KeptBelow(At(x))
  BY <1>2, KeptNow DEF Legal
<1>3. CASE ChatRunsKernel
  BY <1>2, <1>3, KeptRunning DEF ChatRunsKernel, On
<1>4. CASE ChatOpens
  BY <1>2, <1>4, KeptCallback DEF ChatOpens, On
<1>5. CASE ChatTalks
  BY <1>2, <1>5, KeptRunning DEF ChatTalks, On
<1>6. CASE ChatCleansUp
  BY <1>2, <1>6, KeptCallback DEF ChatCleansUp, On
<1>7. CASE ChatEnds
  BY <1>7, KeptNow DEF ChatEnds, On
<1> QED
  BY <1>1, <1>3, <1>4, <1>5, <1>6, <1>7 DEF ChatStep

LEMMA KeptByExit ==
    ASSUME SessionInv, KeptBelow(flow), ExitStep
    PROVE  KeptBelow(flow')
<1>1. flow # << >> /\ Top.op = "od_exit"
  BY DEF ExitStep, ExitInitialized, ExitRunsHook, ExitDecides, ExitFinishes, On
<1>2. KeptBelow(Below) /\ KeptBelow(At("deciding")) /\ KeptBelow(At("closing"))
  BY <1>1, KeptNow DEF Legal
<1>3. Top.code \in Code
  <2>1. Top \in Frames
    BY <1>1, StackNow, TopFrame
  <2> QED
    BY <1>1, <2>1 DEF Frames, FrameType
<1>4. CASE ExitInitialized
  <2>1. Fresh(Exit("hook", level # 0, Top.code))
    BY <1>3, FreshFrames
  <2> QED
    BY <1>2, <1>4, <2>1, KeptEntering DEF ExitInitialized
<1>5. CASE ExitRunsHook
  BY <1>2, <1>5, KeptCallback DEF ExitRunsHook
<1>6. CASE ExitDecides
  BY <1>2, <1>6 DEF ExitDecides
<1>7. CASE ExitFinishes
  <2>1. KeptBelow(<< >>)
    BY DEF KeptBelow
  <2> QED
    BY <1>2, <1>7, <2>1 DEF ExitFinishes
<1> QED
  BY <1>4, <1>5, <1>6, <1>7 DEF ExitStep

LEMMA KeptByDispatch ==
    ASSUME SessionInv, KeptBelow(flow), DispatchStep
    PROVE  KeptBelow(flow')
<1>1. flow # << >> /\ Top.op = "dispatch"
  BY DEF DispatchStep, DispatchTakes, DispatchFindsNone, DispatchRefreshes, DispatchApplies,
     DispatchStops, On
<1>2. KeptBelow(Below) /\ KeptBelow(At("loop")) /\ KeptBelow(At("refresh"))
  BY <1>1, KeptNow DEF Legal
<1>3. ASSUME NEW b \in Seq(Request) PROVE KeptBelow(Append(Below, Dispatch(b)))
  BY <1>2, FreshFrames, FreshPush
<1>4. CASE DispatchTakes
  BY <1>3, <1>4 DEF DispatchTakes, SessionInv, Numbering
<1>5. CASE DispatchFindsNone
  BY <1>2, <1>5 DEF DispatchFindsNone
<1>6. CASE DispatchRefreshes
  BY <1>2, <1>6 DEF DispatchRefreshes
<1>7. CASE DispatchApplies
  <2> DEFINE rest == Append(Below, Dispatch(Tail(Top.batch)))
  <2>1. Top \in Frames
    BY <1>1, StackNow, TopFrame
  <2>2. Top.batch \in Seq(Request) /\ Top.batch # << >>
    BY <1>1, <1>7, <2>1 DEF DispatchApplies, Frames, FrameType
  <2>3. KeptBelow(rest) /\ "operator" \in Code
    <3>1. Tail(Top.batch) \in Seq(Request)
      BY <2>2
    <3> QED
      BY <1>3, <3>1 DEF Code
  <2>4. \/ CallExit(rest, "operator")
        \/ flow' = rest
        \/ flow' = Append(rest, Frame("chat", "kernel"))
    BY <1>7 DEF DispatchApplies
  <2> HIDE DEF rest
  <2> QED
    BY <2>3, <2>4, FreshFrames, FreshPush, KeptExit
<1>8. CASE DispatchStops
  BY <1>2, <1>8 DEF DispatchStops
<1> QED
  BY <1>4, <1>5, <1>6, <1>7, <1>8 DEF DispatchStep

LEMMA KeptByInit ==
    ASSUME SessionInv, KeptBelow(flow), InitStep
    PROVE  KeptBelow(flow')
<1>1. KeptBelow(<< >>)
  BY DEF KeptBelow
<1>2. CASE StartUp
  <2>1. flow' = Append(<< >>, Frame("od_init", "starting"))
    BY <1>2 DEF StartUp
  <2> QED
    BY <1>1, <2>1, FreshFrames, FreshPush
<1>3. CASE ExitFirst
  <2> DEFINE x == Exit("initializing", FALSE, "app")
  <2>1. flow' = Append(Append(<< >>, x), Frame("od_init", "starting"))
    <3>1. flow' = <<x, Frame("od_init", "starting")>>
      BY <1>3 DEF ExitFirst
    <3> HIDE DEF x
    <3> QED
      BY <3>1
  <2>2. Fresh(x)
    BY FreshFrames DEF Code
  <2> QED
    BY <1>1, <2>1, <2>2, FreshFrames, FreshPush
<1>4. CASE InitCompletes
  <2> DEFINE s == Below
             g == [Top EXCEPT !.at = "done"]
  <2>1. flow # << >> /\ Top.op = "od_init" /\ flow' = Append(s, g)
    BY <1>4 DEF InitCompletes, On, At
  <2>2. Top \in Frames
    BY <2>1, StackNow, TopFrame
  <2>3. Fresh(g)
    BY <2>1, <2>2 DEF Frames, FrameType, Fresh
  <2>4. KeptBelow(s)
    BY <2>1, KeptNow
  <2> HIDE DEF s, g
  <2> QED
    BY <2>1, <2>3, <2>4, FreshPush
<1>5. CASE InitReturns
  <2>1. /\ flow # << >>
        /\ flow' = Below \/ (Enter(Below, Exit("hook", FALSE, pending)) /\ pending # NoCode)
    BY <1>5 DEF InitReturns, On, SessionInv, Ending
  <2>2. pending # NoCode => Fresh(Exit("hook", FALSE, pending))
    BY FreshFrames DEF SessionInv, Ending
  <2> QED
    BY <2>1, <2>2, KeptNow, KeptEntering
<1>6. CASE \E c \in {"app", "kernel"} : ExitWhileStarting(c)
  BY <1>6 DEF ExitWhileStarting
<1> QED
  BY <1>2, <1>3, <1>4, <1>5, <1>6 DEF InitStep

LEMMA KeptStep ==
    ASSUME SessionInv, KeptBelow(flow), [Next]_vars
    PROVE  KeptBelow(flow')
<1>1. CASE FrameThread
  BY <1>1 DEF FrameThread
<1>2. CASE UNCHANGED vars
  BY <1>2 DEF vars
<1> QED
  BY <1>1, <1>2, KeptByInit, KeptByCalls, KeptByLeaving, KeptByGetKey, KeptByKernel, KeptByChat,
     KeptByDispatch, KeptByExit DEF Next, AppStep, LibraryStep

\* The variables of which SessionInv and ShownInv say nothing.
Booleans ==
    /\ kernel \in BOOLEAN /\ hooked \in BOOLEAN /\ chatKey \in BOOLEAN
    /\ exiting \in BOOLEAN /\ early \in BOOLEAN /\ noexit \in BOOLEAN

Phases ==
    /\ frame \in {"idle", "queueing", "stopped"}
    /\ lifecycle \in {"NeverStarted", "Initializing", "Active", "ExitPending",
                      "Finalizing", "Terminal"}
    /\ first \in Code \union {NoCode} /\ result \in Code \union {NoCode}

LEMMA BooleansInit ==
    ASSUME Init
    PROVE  Booleans /\ Phases
BY DEF Init, RequestsInit, Booleans, Phases

LEMMA BooleansExitCall ==
    ASSUME Booleans, Phases, NEW s, NEW c \in Code, CallExit(s, c)
    PROVE  /\ exiting' \in BOOLEAN /\ first' \in Code \union {NoCode}
           /\ UNCHANGED <<early, pending, noexit, result>>
BY DEF Booleans, Phases, CallExit, Remember

LEMMA BooleansCalls ==
    ASSUME Booleans, Phases, CallGetKey \/ CallChat \/ CallKernel \/ AppExits \/ CallbackReturns
    PROVE  Booleans' /\ Phases'
<1>1. CASE CallGetKey \/ CallChat \/ CallKernel
  <2>1. UNCHANGED <<frame, lifecycle, kernel, keys, ending>>
    BY <1>1 DEF CallGetKey, CallChat, CallKernel, PublicCall, requests
  <2> QED
    BY <2>1 DEF Booleans, Phases, keys, ending
<1>2. CASE AppExits
  <2>1. UNCHANGED <<frame, lifecycle, kernel, keys>> /\ CallExit(flow, "app") /\ "app" \in Code
    BY <1>2 DEF AppExits, requests, Code
  <2> QED
    BY <2>1, BooleansExitCall DEF Booleans, Phases, keys
<1>3. CASE CallbackReturns
  <2>1. UNCHANGED <<frame, lifecycle, kernel, chatKey, ending>> /\ hooked' \in BOOLEAN
    BY <1>3 DEF CallbackReturns
  <2> QED
    BY <2>1 DEF Booleans, Phases, ending
<1> QED
  BY <1>1, <1>2, <1>3

LEMMA BooleansGetKey ==
    ASSUME Booleans, Phases, GetKeyStep
    PROVE  Booleans' /\ Phases'
<1>1. UNCHANGED <<frame, lifecycle, kernel, keys, ending>>
  BY DEF GetKeyStep, GetKeyRunsKernel, GetKeyWaits, GetKeyPolls, GetKeyWaited,
     CheckpointRunsKernel, CheckpointReturns, requests
<1> QED
  BY <1>1 DEF Booleans, Phases, keys, ending

LEMMA BooleansLeaving ==
    ASSUME Booleans, Phases, APIExit
    PROVE  Booleans' /\ Phases'
<1>1. kernel' \in BOOLEAN /\ UNCHANGED <<frame, keys>>
  BY DEF Booleans, APIExit, InnerExit, OuterExitDispatches, OuterExitFinalizes, OuterExitReturns,
     Leave, requests
<1>2. /\ lifecycle' = lifecycle \/ lifecycle' = "Finalizing"
      /\ exiting' = exiting \/ exiting' = TRUE
      /\ UNCHANGED <<early, pending, noexit, first, result>>
  BY DEF APIExit, InnerExit, OuterExitDispatches, OuterExitFinalizes, OuterExitReturns, ending
<1> QED
  BY <1>1, <1>2 DEF Booleans, Phases, keys

LEMMA BooleansKernel ==
    ASSUME Booleans, Phases, KernelStep
    PROVE  Booleans' /\ Phases'
<1>1. {"kernel", "operator"} \subseteq Code
  BY DEF Code
<1>2. UNCHANGED <<frame, lifecycle, hooked>>
  BY DEF KernelStep, KernelStarts, KernelHooked, KernelPolls, ChatKey, PressChatKey,
     KernelResumes, PressEscape, PressSettingKey, PressExitKey, KernelFindsInactive, KernelTime,
     ToggleChat, requests, keys
<1>3. kernel' \in BOOLEAN /\ chatKey' \in BOOLEAN
  BY DEF Booleans, KernelStep, KernelStarts, KernelHooked, KernelPolls, ChatKey, PressChatKey,
     KernelResumes, PressEscape, PressSettingKey, PressExitKey, KernelFindsInactive, KernelTime,
     ToggleChat, requests, keys
<1>4. \/ UNCHANGED ending
      \/ \E s : CallExit(s, "kernel") \/ CallExit(s, "operator")
  <2>1. CASE \/ KernelStarts \/ KernelHooked \/ ChatKey \/ PressChatKey \/ KernelResumes
             \/ PressEscape \/ PressSettingKey
    BY <2>1 DEF KernelStarts, KernelHooked, ChatKey, PressChatKey, KernelResumes, PressEscape,
       PressSettingKey
  <2>2. CASE KernelPolls
    BY <2>2 DEF KernelPolls
  <2>3. CASE PressExitKey
    BY <2>3 DEF PressExitKey
  <2>4. CASE KernelFindsInactive
    BY <2>4 DEF KernelFindsInactive
  <2>5. CASE KernelTime
    BY <2>5 DEF KernelTime
  <2> QED
    BY <2>1, <2>2, <2>3, <2>4, <2>5 DEF KernelStep
<1>5. /\ exiting' \in BOOLEAN /\ first' \in Code \union {NoCode}
      /\ UNCHANGED <<early, noexit, result>>
  <2>1. CASE UNCHANGED ending
    BY <2>1 DEF Booleans, Phases, ending
  <2>2. CASE \E s : CallExit(s, "kernel") \/ CallExit(s, "operator")
    BY <1>1, <2>2, BooleansExitCall
  <2> QED
    BY <1>4, <2>1, <2>2
<1>6. Booleans'
  BY <1>2, <1>3, <1>5, Zenon DEF Booleans
<1>7. Phases'
  BY <1>2, <1>5 DEF Phases
<1> QED
  BY <1>6, <1>7

LEMMA BooleansChat ==
    ASSUME Booleans, Phases, ChatStep
    PROVE  Booleans' /\ Phases'
<1>1. UNCHANGED <<frame, lifecycle, kernel, chatKey, ending>>
  BY DEF ChatStep, BeginChat, ChatRunsKernel, ChatOpens, ChatTalks, ChatCleansUp, ChatEnds,
     requests, keys
<1>2. hooked' \in BOOLEAN
  <2>1. CASE BeginChat \/ ChatRunsKernel \/ ChatTalks \/ ChatEnds
    BY <2>1 DEF Booleans, BeginChat, ChatRunsKernel, ChatTalks, ChatEnds, keys
  <2>2. CASE ChatOpens \/ ChatCleansUp
    BY <2>2 DEF ChatOpens, ChatCleansUp
  <2> QED
    BY <2>1, <2>2 DEF ChatStep
<1> QED
  BY <1>1, <1>2 DEF Booleans, Phases, ending

LEMMA BooleansDispatch ==
    ASSUME Booleans, Phases, DispatchStep
    PROVE  Booleans' /\ Phases'
<1>1. UNCHANGED <<frame, lifecycle, kernel, keys>>
  BY DEF DispatchStep, DispatchTakes, DispatchFindsNone, DispatchRefreshes, DispatchApplies,
     DispatchStops, requests
<1>2. \/ UNCHANGED ending
      \/ \E s : CallExit(s, "operator")
  BY DEF DispatchStep, DispatchTakes, DispatchFindsNone, DispatchRefreshes, DispatchApplies,
     DispatchStops
<1>3. "operator" \in Code
  BY DEF Code
<1> QED
  BY <1>1, <1>2, <1>3, BooleansExitCall DEF Booleans, Phases, ending, keys

LEMMA BooleansExit ==
    ASSUME SessionInv, Booleans, Phases, ExitStep
    PROVE  Booleans' /\ Phases'
<1>1. flow # << >> /\ Top.op = "od_exit"
  BY DEF ExitStep, ExitInitialized, ExitRunsHook, ExitDecides, ExitFinishes, On
<1>2. Top.code \in Code
  <2>1. Top \in Frames
    BY <1>1, StackNow, TopFrame
  <2> QED
    BY <1>1, <2>1 DEF Frames, FrameType
<1>3. NoExits \subseteq BOOLEAN
  BY SessionAssumption
<1>4. CASE ExitInitialized \/ ExitRunsHook
  <2>1. UNCHANGED <<frame, lifecycle, kernel, keys, ending>>
    BY <1>4 DEF ExitInitialized, ExitRunsHook, requests
  <2> QED
    BY <2>1 DEF Booleans, Phases, keys, ending
<1>5. CASE ExitDecides
  <2>1. /\ UNCHANGED <<frame, kernel, keys, early, first, result>>
        /\ lifecycle' \in {"ExitPending", "Finalizing"}
        /\ noexit' \in NoExits
        /\ exiting' = FALSE \/ exiting' = exiting
    BY <1>5 DEF ExitDecides, requests
  <2> QED
    BY <1>3, <2>1 DEF Booleans, Phases, keys
<1>6. CASE ExitFinishes
  <2>1. /\ UNCHANGED <<kernel, keys, early, noexit, first>>
        /\ frame' = "stopped" /\ lifecycle' = "Terminal" /\ exiting' = FALSE
        /\ result' = Top.code
    BY <1>6 DEF ExitFinishes, JoinFrame
  <2> QED
    BY <1>2, <2>1 DEF Booleans, Phases, keys
<1> QED
  BY <1>4, <1>5, <1>6 DEF ExitStep

LEMMA BooleansInitializing ==
    ASSUME Booleans, Phases, InitStep \/ FrameThread \/ UNCHANGED vars
    PROVE  Booleans' /\ Phases'
<1>1. CASE InitStep
  <2>1. UNCHANGED <<frame, kernel, keys, noexit, result>>
    BY <1>1 DEF InitStep, StartUp, ExitFirst, ExitWhileStarting, InitCompletes, InitReturns,
       requests, ending
  <2>2. /\ lifecycle' \in {lifecycle, "Initializing", "Active"}
        /\ exiting' \in {exiting, TRUE} /\ early' \in {early, TRUE, FALSE}
    BY <1>1 DEF InitStep, StartUp, ExitFirst, ExitWhileStarting, InitCompletes, InitReturns, ending
  <2>3. first' \in {first, "app", "kernel"}
    BY <1>1 DEF InitStep, StartUp, ExitFirst, ExitWhileStarting, InitCompletes, InitReturns, ending,
       Remember
  <2>4. Booleans'
    BY <2>1, <2>2 DEF Booleans, keys
  <2>5. first' \in Code \union {NoCode}
    BY <2>3 DEF Phases, Code
  <2>6. lifecycle' \in {"NeverStarted", "Initializing", "Active", "ExitPending", "Finalizing",
                        "Terminal"}
    BY <2>2 DEF Phases
  <2> QED
    BY <2>1, <2>4, <2>5, <2>6 DEF Phases
<1>2. CASE FrameThread
  <2>1. UNCHANGED <<lifecycle, kernel, keys, ending>>
    BY <1>2 DEF FrameThread
  <2>2. frame' \in {"idle", "queueing", "stopped"}
    BY <1>2 DEF Phases, FrameThread, FrameStep, TestActive, Enqueue
  <2> QED
    BY <2>1, <2>2 DEF Booleans, Phases, keys, ending
<1>3. CASE UNCHANGED vars
  BY <1>3 DEF Booleans, Phases, vars, requests, keys, ending
<1> QED
  BY <1>1, <1>2, <1>3

LEMMA BooleansStep ==
    ASSUME SessionInv, Booleans, Phases, [Next]_vars
    PROVE  Booleans' /\ Phases'
BY BooleansCalls, BooleansGetKey, BooleansLeaving, BooleansKernel, BooleansChat,
   BooleansDispatch, BooleansExit, BooleansInitializing DEF Next, AppStep, LibraryStep

LEMMA TypesHold ==
    ASSUME SessionInv, SettingsTyped, KeptBelow(flow), Booleans, Phases
    PROVE  TypeOK
<1>1. level \in 0..Len(flow)
  BY StackNow, LevelBound DEF Stack
<1>2. ASSUME NEW i \in 1..Len(flow) PROVE flow[i] \in FrameType(0..i)
  <2> DEFINE f == flow[i]
  <2>1. f \in Frames /\ Within(f, i)
    BY DEF KeptBelow
  <2> HIDE DEF f
  <2>2. f \in FrameType(0..i)
    <3>1. CASE f.op = "od_get_key"
      BY <2>1, <3>1 DEF Frames, FrameType, Within
    <3>2. CASE f.op # "od_get_key"
      BY <2>1, <3>2 DEF Frames, FrameType
    <3> QED
      BY <3>1, <3>2
  <2> QED
    BY <2>2 DEF f
<1>3. {kernel, hooked, chatKey, exiting, early, noexit} \subseteq BOOLEAN
  BY Zenon DEF Booleans
<1>4. {pending, first, result} \subseteq Code \union {NoCode}
  BY DEF Phases, SessionInv, Ending
<1>5. fifo \in Seq(Request) /\ asked \in 0..MaxRequests /\ applied \in Seq(1..MaxRequests)
  BY DEF SessionInv, Numbering
<1> QED
  BY <1>1, <1>2, <1>3, <1>4, <1>5 DEF TypeOK, SettingsTyped, Phases

\* Every variable of the session stays in its set.  A wait that has released
\* nAPILevel (ODSync.c: ODSyncAPIRelease) has kept no more than the calls below
\* it, so that ODSyncAPIReacquire never makes the level higher than the stack.
THEOREM SessionTyped == Spec => []TypeOK
<1>1. Init => SessionInv /\ ShownInv /\ KeptBelow(flow) /\ Booleans /\ Phases
  <2> SUFFICES ASSUME Init
               PROVE SettingsTyped /\ Rooted(flow) /\ CacheInv /\ KeptBelow(flow) /\ Booleans /\ Phases
    BY SessionInvInit DEF ShownInv
  <2>1. TimeMax \in 0..TimeMax
    BY RequestAssumption
  <2>2. SettingsTyped /\ Rooted(flow) /\ CacheInv
    BY <2>1 DEF Init, RequestsInit, SettingsTyped, Settings, Rooted, CacheInv
  <2>3. KeptBelow(flow)
    BY DEF Init, KeptBelow
  <2> QED
    BY <2>2, <2>3, BooleansInit
<1>2. SessionInv /\ ShownInv /\ KeptBelow(flow) /\ Booleans /\ Phases /\ [Next]_vars =>
         SessionInv' /\ ShownInv' /\ KeptBelow(flow)' /\ Booleans' /\ Phases'
  BY SessionInvStep, ShownInvStep, KeptStep, BooleansStep
<1>3. SessionInv /\ ShownInv /\ KeptBelow(flow) /\ Booleans /\ Phases => TypeOK
  BY TypesHold DEF ShownInv
<1> QED
  BY <1>1, <1>2, <1>3, PTL DEF Spec
=============================================================================
