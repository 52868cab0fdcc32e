------------------------------ MODULE Recursion ------------------------------
(***************************************************************************)
(* What a function that is defined by recursion over 0..N is: it exists,   *)
(* and there is no other.  A set of numbers takes the place of a predicate *)
(* in the induction, and functions that of the operator that makes a value *)
(* from the one before, so that the lemmas can be used in first-order      *)
(* logic.                                                                  *)
(***************************************************************************)
EXTENDS Integers, Sequences, WellFoundedInduction, TLAPS

LEMMA Induction ==
    ASSUME NEW S, NEW N \in Nat, 0 \in S, \A n \in 1..N : n - 1 \in S => n \in S
    PROVE  0..N \subseteq S
<1> DEFINE T == (0..N) \ S
           Less == OpToRel(<, Nat)
<1>1. SUFFICES ASSUME T # {} PROVE FALSE
  OBVIOUS
<1>2. IsWellFoundedOn(Less, Nat)
  BY NatLessThanWellFounded
<1>3. \A x, y \in Nat : <<x, y>> \in Less <=> x < y
  BY DEF OpToRel
<1> HIDE DEF Less
<1>4. T \subseteq Nat
  OBVIOUS
<1> HIDE DEF T
<1>5. PICK x \in T : \A y \in T : <<y, x>> \notin Less
  BY <1>1, <1>2, <1>4, WFMin
<1>6. x \in 1..N /\ x \in Nat /\ x - 1 \in Nat
  BY <1>5 DEF T
<1>7. <<x - 1, x>> \in Less
  <2>1. x - 1 < x
    BY <1>6
  <2> QED
    BY <1>3, <1>6, <2>1
<1>8. x - 1 \notin T
  BY <1>5, <1>7, Zenon
<1> QED
  BY <1>5, <1>6, <1>8 DEF T

\* Values that begin alike and go on alike are alike.
Alike(f, g, N) ==
    f[0] = g[0] /\ \A n \in 1..N : f[n - 1] = g[n - 1] => f[n] = g[n]

LEMMA OnlyOne ==
    ASSUME NEW N \in Nat, NEW f, NEW g, Alike(f, g, N)
    PROVE  \A n \in 0..N : f[n] = g[n]
<1> DEFINE S == {n \in 0..N : f[n] = g[n]}
<1>1. 0 \in S
  BY DEF Alike
<1>2. \A n \in 1..N : n - 1 \in S => n \in S
  BY DEF Alike
<1> HIDE DEF S
<1>3. 0..N \subseteq S
  BY <1>1, <1>2, Induction
<1> QED
  BY <1>3 DEF S

\* next[n] makes the value at n from the one at n - 1.
Steps(f, N, start, next) ==
    f[0] = start /\ \A n \in 1..N : f[n] = next[n][f[n - 1]]

LEMMA OneAtLeast ==
    ASSUME NEW N \in Nat, NEW V, NEW start \in V, NEW next \in [1..N -> [V -> V]]
    PROVE  \E f \in [0..N -> V] : Steps(f, N, start, next)
<1> DEFINE S == {m \in 0..N : \E f \in [0..m -> V] : Steps(f, m, start, next)}
<1>1. 0 \in S
  <2> DEFINE f == [n \in 0..0 |-> start]
  <2>1. f \in [0..0 -> V] /\ Steps(f, 0, start, next)
    BY DEF Steps
  <2> HIDE DEF f
  <2> QED
    BY <2>1
<1>2. ASSUME NEW n \in 1..N, n - 1 \in S PROVE n \in S
  <2>1. PICK f \in [0..(n - 1) -> V] : Steps(f, n - 1, start, next)
    BY <1>2
  <2>2. n - 1 \in 0..(n - 1) /\ next[n] \in [V -> V]
    OBVIOUS
  <2>3. next[n][f[n - 1]] \in V
    BY <2>1, <2>2
  <2> DEFINE last == next[n][f[n - 1]]
             g == [i \in 0..n |-> IF i = n THEN last ELSE f[i]]
  <2> HIDE DEF last
  <2>4. /\ g \in [0..n -> V] /\ g[n] = last
        /\ \A i \in 0..(n - 1) : g[i] = f[i]
    BY <2>1, <2>3 DEF last
  <2> HIDE DEF g
  <2>5. g[0] = start
    BY <2>1, <2>2, <2>4 DEF Steps
  <2>6. ASSUME NEW i \in 1..n PROVE g[i] = next[i][g[i - 1]]
    <3>1. i - 1 \in 0..(n - 1) /\ (i = n \/ i \in 1..(n - 1))
      OBVIOUS
    <3>2. CASE i = n
      BY <2>4, <3>1, <3>2 DEF last
    <3>3. CASE i \in 1..(n - 1)
      <4>1. f[i] = next[i][f[i - 1]]
        BY <2>1, <3>3 DEF Steps
      <4> QED
        BY <2>4, <3>1, <3>3, <4>1
    <3> QED
      BY <3>1, <3>2, <3>3
  <2> QED
    BY <2>4, <2>5, <2>6 DEF Steps
<1> HIDE DEF S
<1>3. 0..N \subseteq S
  BY <1>1, <1>2, Induction
<1>4. N \in S
  BY <1>3
<1> QED
  BY <1>4 DEF S

---------------------------------------------------------------------------
(* A machine with the states V that reads the members of a sequence, one   *)
(* after the other: step[v][b] is the state after v once b has been read.  *)

\* From s, what is in q takes the machine to e.
Run(V, step, q, s, e) ==
    \E f \in [0..Len(q) -> V] :
        /\ f[0] = s /\ f[Len(q)] = e
        /\ \A n \in 1..Len(q) : f[n] = step[f[n - 1]][q[n]]

LEMMA RunExists ==
    ASSUME NEW V, NEW B, NEW step \in [V -> [B -> V]], NEW q \in Seq(B), NEW s \in V
    PROVE  \E e \in V : Run(V, step, q, s, e)
<1> DEFINE next == [n \in 1..Len(q) |-> [v \in V |-> step[v][q[n]]]]
<1>1. Len(q) \in Nat /\ \A n \in 1..Len(q) : q[n] \in B
  OBVIOUS
<1>2. next \in [1..Len(q) -> [V -> V]]
  BY <1>1
<1>3. ASSUME NEW n \in 1..Len(q), NEW v \in V PROVE next[n][v] = step[v][q[n]]
  OBVIOUS
<1> HIDE DEF next
<1>4. PICK f \in [0..Len(q) -> V] : Steps(f, Len(q), s, next)
  BY <1>1, <1>2, OneAtLeast
<1>5. ASSUME NEW n \in 1..Len(q) PROVE f[n] = step[f[n - 1]][q[n]]
  <2>1. n - 1 \in 0..Len(q)
    BY <1>1
  <2> QED
    BY <1>3, <1>4, <2>1 DEF Steps
<1>6. f[Len(q)] \in V
  <2>1. Len(q) \in 0..Len(q)
    BY <1>1
  <2> QED
    BY <2>1
<1> QED
  BY <1>4, <1>5, <1>6 DEF Run, Steps

LEMMA RunOnce ==
    ASSUME NEW V, NEW step, NEW q, Len(q) \in Nat, NEW s, NEW d, NEW e,
           Run(V, step, q, s, d), Run(V, step, q, s, e)
    PROVE  d = e
<1>1. PICK f \in [0..Len(q) -> V] :
         /\ f[0] = s /\ f[Len(q)] = d
         /\ \A n \in 1..Len(q) : f[n] = step[f[n - 1]][q[n]]
  BY DEF Run
<1>2. PICK g \in [0..Len(q) -> V] :
         /\ g[0] = s /\ g[Len(q)] = e
         /\ \A n \in 1..Len(q) : g[n] = step[g[n - 1]][q[n]]
  BY DEF Run
<1>3. Alike(f, g, Len(q))
  BY <1>1, <1>2 DEF Alike
<1>4. \A n \in 0..Len(q) : f[n] = g[n]
  BY <1>3, OnlyOne
<1> QED
  BY <1>1, <1>2, <1>4

LEMMA RunNothing ==
    ASSUME NEW V, NEW step, NEW s \in V
    PROVE  \A e : Run(V, step, << >>, s, e) <=> e = s
<1>1. Len(<< >>) = 0
  OBVIOUS
<1>2. ASSUME NEW e, Run(V, step, << >>, s, e) PROVE e = s
  BY <1>1, <1>2 DEF Run
<1>3. Run(V, step, << >>, s, s)
  <2> DEFINE f == [n \in 0..0 |-> s]
  <2>1. f \in [0..0 -> V] /\ f[0] = s
    OBVIOUS
  <2> HIDE DEF f
  <2>2. 1..0 = {}
    OBVIOUS
  <2> QED
    BY <1>1, <2>1, <2>2 DEF Run
<1> QED
  BY <1>2, <1>3

LEMMA RunOn ==
    ASSUME NEW V, NEW B, NEW step, NEW q \in Seq(B), NEW r \in Seq(B), NEW s, NEW m, NEW e,
           Run(V, step, q, s, m), Run(V, step, r, m, e)
    PROVE  Run(V, step, q \o r, s, e)
<1> DEFINE t == q \o r
<1>1. /\ Len(q) \in Nat /\ Len(r) \in Nat /\ Len(t) = Len(q) + Len(r)
      /\ \A n \in 1..Len(q) : t[n] = q[n]
      /\ \A n \in (Len(q) + 1)..Len(t) : t[n] = r[n - Len(q)]
  OBVIOUS
<1> HIDE DEF t
<1>2. PICK f \in [0..Len(q) -> V] :
         /\ f[0] = s /\ f[Len(q)] = m
         /\ \A n \in 1..Len(q) : f[n] = step[f[n - 1]][q[n]]
  BY DEF Run
<1>3. PICK g \in [0..Len(r) -> V] :
         /\ g[0] = m /\ g[Len(r)] = e
         /\ \A n \in 1..Len(r) : g[n] = step[g[n - 1]][r[n]]
  BY DEF Run
<1> DEFINE h == [n \in 0..Len(t) |-> IF n <= Len(q) THEN f[n] ELSE g[n - Len(q)]]
<1>4. /\ h \in [0..Len(t) -> V]
      /\ \A n \in 0..Len(q) : h[n] = f[n]
      /\ \A n \in (Len(q) + 1)..Len(t) : h[n] = g[n - Len(q)]
  BY <1>1
<1> HIDE DEF h
<1>5. \A n \in Len(q)..Len(t) : h[n] = g[n - Len(q)]
  <2>1. h[Len(q)] = g[Len(q) - Len(q)]
    BY <1>1, <1>2, <1>3, <1>4
  <2>2. \A n \in Len(q)..Len(t) : n = Len(q) \/ n \in (Len(q) + 1)..Len(t)
    BY <1>1
  <2> QED
    BY <1>4, <2>1, <2>2
<1>6. h[0] = s /\ h[Len(t)] = e
  BY <1>1, <1>2, <1>3, <1>4, <1>5
<1>7. ASSUME NEW n \in 1..Len(t) PROVE h[n] = step[h[n - 1]][t[n]]
  <2>1. CASE n \in 1..Len(q)
    <3>1. n - 1 \in 0..Len(q) /\ n \in 0..Len(q)
      BY <1>1, <2>1
    <3> QED
      BY <1>1, <1>2, <1>4, <2>1, <3>1
  <2>2. CASE n \in (Len(q) + 1)..Len(t)
    <3> DEFINE k == n - Len(q)
    <3>1. k \in 1..Len(r) /\ n \in Len(q)..Len(t) /\ n - 1 \in Len(q)..Len(t)
          /\ (n - 1) - Len(q) = k - 1
      BY <1>1, <2>2
    <3>2. h[n] = g[k] /\ t[n] = r[k]
      BY <1>1, <1>5, <2>2, <3>1
    <3>3. h[n - 1] = g[k - 1]
      BY <1>5, <3>1
    <3> HIDE DEF k
    <3> QED
      BY <1>3, <3>1, <3>2, <3>3
  <2> QED
    BY <1>1, <2>1, <2>2
<1> QED
  BY <1>4, <1>6, <1>7 DEF Run, t

LEMMA RunOne ==
    ASSUME NEW V, NEW B, NEW step \in [V -> [B -> V]], NEW s \in V, NEW b \in B
    PROVE  Run(V, step, <<b>>, s, step[s][b])
<1> DEFINE f == [n \in 0..1 |-> IF n = 0 THEN s ELSE step[s][b]]
<1>1. f \in [0..1 -> V] /\ f[0] = s /\ f[1] = step[s][b]
  OBVIOUS
<1> HIDE DEF f
<1>2. Len(<<b>>) = 1 /\ <<b>>[1] = b /\ \A n \in 1..1 : n = 1 /\ n - 1 = 0
  OBVIOUS
<1> QED
  BY <1>1, <1>2 DEF Run

LEMMA RunAppend ==
    ASSUME NEW V, NEW B, NEW step \in [V -> [B -> V]], NEW q \in Seq(B), NEW s, NEW m \in V,
           NEW b \in B, Run(V, step, q, s, m)
    PROVE  Run(V, step, Append(q, b), s, step[m][b])
<1>1. Run(V, step, <<b>>, m, step[m][b]) /\ <<b>> \in Seq(B)
  BY RunOne
<1>2. Run(V, step, q \o <<b>>, s, step[m][b])
  BY <1>1, RunOn
<1>3. q \o <<b>> = Append(q, b)
  OBVIOUS
<1> QED
  BY <1>2, <1>3

LEMMA RunApart ==
    ASSUME NEW V, NEW B, NEW step, NEW q \in Seq(B), NEW k \in 0..Len(q), NEW s, NEW e,
           Run(V, step, q, s, e)
    PROVE  \E m \in V : /\ Run(V, step, SubSeq(q, 1, k), s, m)
                        /\ Run(V, step, SubSeq(q, k + 1, Len(q)), m, e)
<1> DEFINE a == SubSeq(q, 1, k)
           c == SubSeq(q, k + 1, Len(q))
<1>1. /\ Len(q) \in Nat /\ k \in Nat /\ k <= Len(q)
      /\ Len(a) = k /\ \A n \in 1..k : a[n] = q[n]
      /\ Len(c) = Len(q) - k /\ \A n \in 1..(Len(q) - k) : c[n] = q[n + k]
  OBVIOUS
<1> HIDE DEF a, c
<1>2. PICK f \in [0..Len(q) -> V] :
         /\ f[0] = s /\ f[Len(q)] = e
         /\ \A n \in 1..Len(q) : f[n] = step[f[n - 1]][q[n]]
  BY DEF Run
<1>3. Run(V, step, a, s, f[k])
  <2> DEFINE g == [n \in 0..k |-> f[n]]
  <2>1. g \in [0..k -> V] /\ \A n \in 0..k : g[n] = f[n]
    BY <1>1
  <2> HIDE DEF g
  <2>2. ASSUME NEW n \in 1..k PROVE g[n] = step[g[n - 1]][a[n]]
    <3>1. n \in 0..k /\ n - 1 \in 0..k /\ n \in 1..Len(q)
      BY <1>1
    <3> QED
      BY <1>1, <1>2, <2>1, <3>1
  <2>3. g[0] = s /\ g[k] = f[k]
    <3>1. 0 \in 0..k /\ k \in 0..k
      BY <1>1
    <3> QED
      BY <1>2, <2>1, <3>1
  <2> QED
    BY <1>1, <2>1, <2>2, <2>3 DEF Run
<1>4. Run(V, step, c, f[k], e)
  <2> DEFINE g == [n \in 0..(Len(q) - k) |-> f[n + k]]
  <2>1. g \in [0..(Len(q) - k) -> V] /\ \A n \in 0..(Len(q) - k) : g[n] = f[n + k]
    BY <1>1
  <2> HIDE DEF g
  <2>2. ASSUME NEW n \in 1..(Len(q) - k) PROVE g[n] = step[g[n - 1]][c[n]]
    <3>1. /\ n \in 0..(Len(q) - k) /\ n - 1 \in 0..(Len(q) - k) /\ n + k \in 1..Len(q)
          /\ (n - 1) + k = (n + k) - 1
      BY <1>1
    <3>2. f[n + k] = step[f[(n + k) - 1]][q[n + k]]
      BY <1>2, <3>1
    <3>3. g[n] = f[n + k] /\ g[n - 1] = f[(n + k) - 1] /\ c[n] = q[n + k]
      BY <1>1, <2>1, <3>1
    <3> QED
      BY <3>2, <3>3
  <2>3. g[0] = f[k] /\ g[Len(q) - k] = e
    <3>1. /\ 0 \in 0..(Len(q) - k) /\ Len(q) - k \in 0..(Len(q) - k)
          /\ 0 + k = k /\ (Len(q) - k) + k = Len(q)
      BY <1>1
    <3> QED
      BY <1>2, <2>1, <3>1
  <2>4. Len(c) = Len(q) - k
    BY <1>1
  <2> QED
    BY <2>1, <2>2, <2>3, <2>4 DEF Run
<1>5. f[k] \in V
  <2>1. k \in 0..Len(q)
    OBVIOUS
  <2> QED
    BY <2>1
<1> QED
  BY <1>3, <1>4, <1>5 DEF a, c

\* A machine does not leave a set of states that no step leads out of.
LEMMA RunWithin ==
    ASSUME NEW V, NEW B, NEW step, NEW q \in Seq(B), NEW s, NEW e, Run(V, step, q, s, e),
           NEW W, s \in W, \A v \in W \intersect V, b \in B : step[v][b] \in W
    PROVE  e \in W
<1>1. PICK f \in [0..Len(q) -> V] :
         /\ f[0] = s /\ f[Len(q)] = e
         /\ \A n \in 1..Len(q) : f[n] = step[f[n - 1]][q[n]]
  BY DEF Run
<1>2. Len(q) \in Nat /\ \A n \in 1..Len(q) : q[n] \in B
  OBVIOUS
<1> DEFINE S == {n \in 0..Len(q) : f[n] \in W}
<1>3. 0 \in S
  BY <1>1, <1>2
<1>4. ASSUME NEW n \in 1..Len(q), n - 1 \in S PROVE n \in S
  <2>1. f[n - 1] \in W \intersect V /\ q[n] \in B /\ n \in 0..Len(q)
    BY <1>2, <1>4
  <2> QED
    BY <1>1, <2>1
<1> HIDE DEF S
<1>5. 0..Len(q) \subseteq S
  BY <1>2, <1>3, <1>4, Induction
<1> QED
  BY <1>1, <1>2, <1>5 DEF S

LEMMA RunTwo ==
    ASSUME NEW V, NEW B, NEW step \in [V -> [B -> V]], NEW s \in V, NEW a \in B, NEW b \in B
    PROVE  Run(V, step, <<a, b>>, s, step[step[s][a]][b])
<1> DEFINE m == step[s][a]
           e == step[m][b]
           f == [n \in 0..2 |-> IF n = 0 THEN s ELSE IF n = 1 THEN m ELSE e]
           t == <<a, b>>
<1>1. m \in V
  OBVIOUS
<1>2. e = step[m][b]
  OBVIOUS
<1> HIDE DEF m
<1>3. e \in V
  BY <1>1
<1> HIDE DEF e
<1>4. f \in [0..2 -> V] /\ f[0] = s /\ f[1] = m /\ f[2] = e
  BY <1>1, <1>3
<1> HIDE DEF f
<1>5. Len(t) = 2 /\ t[1] = a /\ t[2] = b /\ \A n \in 1..2 : (n = 1 /\ n - 1 = 0) \/ (n = 2 /\ n - 1 = 1)
  OBVIOUS
<1> HIDE DEF t
<1>6. m = step[s][a]
  BY DEF m
<1>7. \A n \in 1..2 : f[n] = step[f[n - 1]][t[n]]
  BY <1>2, <1>4, <1>5, <1>6
<1>8. Run(V, step, t, s, e)
  BY <1>4, <1>5, <1>7 DEF Run
<1> QED
  BY <1>8 DEF t, e, m

LEMMA RunThree ==
    ASSUME NEW V, NEW B, NEW step \in [V -> [B -> V]], NEW s \in V, NEW a \in B, NEW b \in B,
           NEW c \in B
    PROVE  Run(V, step, <<a, b, c>>, s, step[step[step[s][a]][b]][c])
<1> DEFINE k == step[s][a]
           m == step[k][b]
           e == step[m][c]
           f == [n \in 0..3 |-> IF n = 0 THEN s ELSE IF n = 1 THEN k ELSE IF n = 2 THEN m ELSE e]
           t == <<a, b, c>>
<1>1. k \in V
  OBVIOUS
<1>2. m = step[k][b] /\ e = step[m][c]
  OBVIOUS
<1> HIDE DEF k
<1>3. m \in V
  BY <1>1
<1> HIDE DEF m
<1>4. e \in V
  BY <1>3
<1> HIDE DEF e
<1>5. f \in [0..3 -> V] /\ f[0] = s /\ f[1] = k /\ f[2] = m /\ f[3] = e
  BY <1>1, <1>3, <1>4
<1> HIDE DEF f
<1>6. /\ Len(t) = 3 /\ t[1] = a /\ t[2] = b /\ t[3] = c
      /\ \A n \in 1..3 : (n = 1 /\ n - 1 = 0) \/ (n = 2 /\ n - 1 = 1) \/ (n = 3 /\ n - 1 = 2)
  OBVIOUS
<1> HIDE DEF t
<1>7. k = step[s][a]
  BY DEF k
<1>8. \A n \in 1..3 : f[n] = step[f[n - 1]][t[n]]
  BY <1>2, <1>5, <1>6, <1>7
<1>9. Run(V, step, t, s, e)
  BY <1>5, <1>6, <1>8 DEF Run
<1> QED
  BY <1>9 DEF t, e, m, k

\* The machine goes on from the state after the first.
LEMMA RunHead ==
    ASSUME NEW V, NEW B, NEW step, NEW q \in Seq(B), q # << >>, NEW s, NEW e, Run(V, step, q, s, e)
    PROVE  Run(V, step, Tail(q), step[s][Head(q)], e)
<1> DEFINE r == Tail(q)
<1>1. /\ Len(q) \in Nat /\ Len(q) >= 1 /\ Len(r) = Len(q) - 1 /\ q[1] = Head(q)
      /\ \A n \in 1..(Len(q) - 1) : r[n] = q[n + 1]
  OBVIOUS
<1> HIDE DEF r
<1>2. PICK f \in [0..Len(q) -> V] :
         /\ f[0] = s /\ f[Len(q)] = e
         /\ \A n \in 1..Len(q) : f[n] = step[f[n - 1]][q[n]]
  BY DEF Run
<1> DEFINE g == [n \in 0..(Len(q) - 1) |-> f[n + 1]]
<1>3. g \in [0..(Len(q) - 1) -> V] /\ \A n \in 0..(Len(q) - 1) : g[n] = f[n + 1]
  BY <1>1
<1> HIDE DEF g
<1>4. g[0] = step[s][Head(q)]
  <2>1. 0 \in 0..(Len(q) - 1) /\ 1 \in 1..Len(q) /\ 0 + 1 = 1 /\ 1 - 1 = 0
    BY <1>1
  <2> QED
    BY <1>1, <1>2, <1>3, <2>1
<1>5. g[Len(q) - 1] = e
  <2>1. Len(q) - 1 \in 0..(Len(q) - 1) /\ (Len(q) - 1) + 1 = Len(q)
    BY <1>1
  <2> QED
    BY <1>2, <1>3, <2>1
<1>6. ASSUME NEW n \in 1..(Len(q) - 1) PROVE g[n] = step[g[n - 1]][r[n]]
  <2>1. /\ n \in 0..(Len(q) - 1) /\ n - 1 \in 0..(Len(q) - 1) /\ n + 1 \in 1..Len(q)
        /\ (n - 1) + 1 = n /\ (n + 1) - 1 = n
    BY <1>1
  <2>2. g[n] = f[n + 1] /\ g[n - 1] = f[n] /\ r[n] = q[n + 1]
    BY <1>1, <1>3, <2>1
  <2>3. f[n + 1] = step[f[n]][q[n + 1]]
    BY <1>2, <2>1
  <2> QED
    BY <2>2, <2>3
<1>7. Run(V, step, r, step[s][Head(q)], e)
  <2>1. Len(r) = Len(q) - 1
    BY <1>1
  <2> QED
    BY <1>3, <1>4, <1>5, <1>6, <2>1 DEF Run
<1> QED
  BY <1>7 DEF r

\* Two states that the first takes to the same one lead to the same end.
LEMMA RunFirst ==
    ASSUME NEW V, NEW B, NEW step \in [V -> [B -> V]], NEW q \in Seq(B), q # << >>, NEW s \in V,
           NEW t \in V, step[s][Head(q)] = step[t][Head(q)], NEW e, Run(V, step, q, s, e)
    PROVE  Run(V, step, q, t, e)
<1> DEFINE b == Head(q)
           r == Tail(q)
<1>1. b \in B /\ r \in Seq(B) /\ <<b>> \in Seq(B) /\ <<b>> \o r = q
  OBVIOUS
<1>2. Run(V, step, r, step[t][b], e)
  BY RunHead
<1> HIDE DEF b, r
<1>3. Run(V, step, <<b>>, t, step[t][b])
  BY <1>1, RunOne
<1>4. Run(V, step, <<b>> \o r, t, e)
  BY <1>1, <1>2, <1>3, RunOn
<1> QED
  BY <1>1, <1>4
=============================================================================
