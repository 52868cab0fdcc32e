---------------------------- MODULE InQueueProofs ----------------------------
(***************************************************************************)
(* Proofs about InQueue, for a ring of any size and any number of bytes    *)
(* and keys: the semaphore counts the events, the room is never exceeded,  *)
(* the ring implements the bounded FIFO, the two events of a key stay      *)
(* together, and no byte is lost.                                          *)
(***************************************************************************)
EXTENDS InQueue, SequenceTheorems, TLAPS

Index == 0..(Entries - 1)

---------------------------------------------------------------------------
(* Arithmetic of the ring.                                                 *)

\* The only remainders the code takes: sums below twice the size of the ring.
LEMMA Wrap ==
    ASSUME NEW x \in Nat, x < 2 * Entries
    PROVE  x % Entries = IF x < Entries THEN x ELSE x - Entries
<1>1. Entries \in Nat /\ Entries > 0
  BY EntriesAssumption
<1>2. CASE x < Entries
  BY <1>1, <1>2
<1>3. CASE x >= Entries
  BY <1>1, <1>3
<1>4. QED
  BY <1>1, <1>2, <1>3

\* OD_IN_QUEUE_USED is the distance from the out index to the in index.
LEMMA Distance ==
    ASSUME NEW i \in Index, NEW o \in Index
    PROVE  /\ (i - o + Entries) % Entries \in Index
           /\ (i - o + Entries) % Entries
                = IF i >= o THEN i - o ELSE i - o + Entries
<1>1. i - o + Entries \in Nat /\ i - o + Entries < 2 * Entries
  BY EntriesAssumption DEF Index
<1>2. (i - o + Entries) % Entries
        = IF i - o + Entries < Entries THEN i - o + Entries ELSE i - o
  BY <1>1, Wrap, EntriesAssumption DEF Index
<1>3. QED
  BY <1>2, EntriesAssumption DEF Index

LEMMA Forward ==
    ASSUME NEW o \in Index, NEW n \in 0..Entries
    PROVE  /\ (o + n) % Entries \in Index
           /\ (o + n) % Entries = IF o + n < Entries THEN o + n
                                  ELSE o + n - Entries
BY Wrap, EntriesAssumption DEF Index

---------------------------------------------------------------------------
(* What the two changes of the ring do to the queue that is in it.         *)

Indices == in \in Index /\ out \in Index

LEMMA UsedValue ==
    ASSUME Indices
    PROVE  Used \in Index /\ Used = IF in >= out THEN in - out
                                    ELSE in - out + Entries
BY Distance DEF Indices, Used

\* Adding a group that fits appends it.
LEMMA AddAppends ==
    ASSUME Indices, NEW group \in Seq(Event), Used + Len(group) < Entries,
           Add(group)
    PROVE  /\ Indices'
           /\ Used' = Used + Len(group)
           /\ Queue' = [i \in 1..(Used + Len(group)) |->
                           IF i <= Used THEN Queue[i] ELSE group[i - Used]]
<1> DEFINE k == Len(group)
<1>1. k \in Nat /\ in' = (in + k) % Entries /\ out' = out
  BY DEF Add
<1>2. Used \in Index /\ Used = IF in >= out THEN in - out
                               ELSE in - out + Entries
  BY UsedValue
<1>3. k \in 0..Entries /\ Used + k < Entries
  BY <1>1, <1>2, EntriesAssumption DEF Index
<1>4. in' \in Index /\ in' = IF in + k < Entries THEN in + k
                             ELSE in + k - Entries
  <2> HIDE DEF k
  <2>1. QED
    BY <1>1, <1>3, Forward DEF Indices
<1>5. Indices'
  BY <1>1, <1>4 DEF Indices
<1>6. Used' = Used + k
  <2>1. Used' = IF in' >= out THEN in' - out ELSE in' - out + Entries
    BY <1>1, <1>5, Distance DEF Used, Indices
  <2> HIDE DEF k
  <2>2. QED
    BY <1>1, <1>2, <1>3, <1>4, <2>1, EntriesAssumption DEF Indices, Index
<1>7. ASSUME NEW i \in 1..(Used + k)
      PROVE  ring'[(out + i - 1) % Entries]
               = IF i <= Used THEN ring[(out + i - 1) % Entries]
                 ELSE group[i - Used]
  <2> DEFINE s == (out + (i - 1)) % Entries
  <2> DEFINE j == ((s - in + Entries) % Entries) + 1
  <2>1. i - 1 \in 0..Entries /\ out + i - 1 = out + (i - 1)
    BY <1>2, <1>3, EntriesAssumption DEF Indices, Index
  <2>2. s \in Index /\ s = IF out + (i - 1) < Entries THEN out + (i - 1)
                           ELSE out + (i - 1) - Entries
    BY <2>1, Forward DEF Indices
  <2>3. ring'[s] = IF j <= k THEN group[j] ELSE ring[s]
    BY <2>2 DEF Add, Stored, Index
  <2>4. j = (IF s >= in THEN s - in ELSE s - in + Entries) + 1
    <3> HIDE DEF s
    <3>1. QED
      BY <2>2, Distance DEF Indices
  <2> HIDE DEF s, j, k
  <2>5. CASE i <= Used
    <3>1. j > k
      BY <1>1, <1>2, <1>3, <2>2, <2>4, <2>5, EntriesAssumption
      DEF Indices, Index
    <3>2. QED
      BY <1>1, <2>1, <2>2, <2>3, <2>4, <2>5, <3>1 DEF s, Indices, Index
  <2>6. CASE i > Used
    <3>1. j = i - Used /\ j <= k
      BY <1>1, <1>2, <1>3, <2>2, <2>4, <2>6, EntriesAssumption
      DEF Indices, Index
    <3>2. QED
      BY <1>2, <2>1, <2>3, <2>6, <3>1 DEF s, Index
  <2>7. QED
    BY <1>2, <2>5, <2>6 DEF Index
<1>8. Queue' = [i \in 1..(Used + k) |->
                   IF i <= Used THEN Queue[i] ELSE group[i - Used]]
  <2>1. Queue' = [i \in 1..(Used + k) |-> ring'[(out + i - 1) % Entries]]
    BY <1>1, <1>6 DEF Queue
  <2>2. \A i \in 1..(Used + k) : i <= Used =>
            Queue[i] = ring[(out + i - 1) % Entries]
    BY <1>2 DEF Queue, Index
  <2> HIDE DEF k
  <2>3. QED
    BY <1>7, <2>1, <2>2
<1>9. QED
  BY <1>5, <1>6, <1>8

\* Moving the out index removes the first event.
LEMMA AdvanceRemoves ==
    ASSUME Indices, Used > 0, Advance, UNCHANGED <<ring, in>>
    PROVE  /\ Indices'
           /\ Used' = Used - 1
           /\ Queue' = [i \in 1..(Used - 1) |-> Queue[i + 1]]
<1>1. Used \in Index /\ Used = IF in >= out THEN in - out
                               ELSE in - out + Entries
  BY UsedValue
<1>2. /\ out' \in Index
      /\ out' = IF out + 1 < Entries THEN out + 1 ELSE out + 1 - Entries
  BY Forward, EntriesAssumption DEF Indices, Advance
<1>3. Indices'
  BY <1>2 DEF Indices
<1>4. Used' = Used - 1
  <2>1. Used' = IF in >= out' THEN in - out' ELSE in - out' + Entries
    BY <1>3, Distance DEF Used, Indices
  <2>2. QED
    BY <1>1, <1>2, <2>1, EntriesAssumption DEF Indices, Index
<1>5. ASSUME NEW i \in 1..(Used - 1)
      PROVE  (out' + i - 1) % Entries = (out + (i + 1) - 1) % Entries
  <2>1. i \in 0..Entries /\ i - 1 \in 0..Entries
    BY <1>1, EntriesAssumption DEF Index
  <2>2. (out + i) % Entries = IF out + i < Entries THEN out + i
                              ELSE out + i - Entries
    BY <2>1, Forward DEF Indices
  <2>3. (out' + (i - 1)) % Entries
          = IF out' + (i - 1) < Entries THEN out' + (i - 1)
            ELSE out' + (i - 1) - Entries
    BY <1>2, <2>1, Forward
  <2>4. out' + i - 1 = out' + (i - 1) /\ out + (i + 1) - 1 = out + i
    BY <1>2, <2>1 DEF Indices, Index
  <2>5. (out' + (i - 1)) % Entries = (out + i) % Entries
    BY <1>1, <1>2, <2>1, <2>2, <2>3, EntriesAssumption DEF Indices, Index
  <2>6. QED
    BY <2>4, <2>5
<1>6. Queue' = [i \in 1..(Used - 1) |-> Queue[i + 1]]
  <2>1. Queue' = [i \in 1..(Used - 1) |-> ring[(out' + i - 1) % Entries]]
    BY <1>4 DEF Queue
  <2>2. \A i \in 1..(Used - 1) :
            Queue[i + 1] = ring[(out + (i + 1) - 1) % Entries]
    BY <1>1 DEF Queue, Index
  <2>3. QED
    BY <1>5, <2>1, <2>2
<1>7. QED
  BY <1>3, <1>4, <1>6

LEMMA QueueLength ==
    ASSUME Indices
    PROVE  Len(Queue) = Used /\ DOMAIN Queue = 1..Used /\ Used \in Nat
<1>1. Used \in Nat
  BY UsedValue, EntriesAssumption DEF Index
<1>2. QED
  BY <1>1 DEF Queue

---------------------------------------------------------------------------
(* The invariant.                                                          *)

LEMMA RingInit == Init => RingInv
<1> SUFFICES ASSUME Init PROVE RingInv
  OBVIOUS
<1>1. Used = 0
  <2>1. Indices /\ in = out
    BY EntriesAssumption DEF Init, Indices, Index
  <2>2. QED
    BY <2>1, UsedValue DEF Indices, Index
<1>2. TypeOK
  BY EntriesAssumption, InputAssumption DEF Init, TypeOK
<1>3. SemaphoreCounts
  BY <1>1 DEF Init, SemaphoreCounts
<1>4. QED
  BY <1>1, <1>2, <1>3, EntriesAssumption DEF Init, RingInv

LEMMA Grounds ==
    ASSUME TypeOK
    PROVE  /\ Indices
           /\ Used \in Index /\ Used \in Nat
           /\ reserved \in Nat /\ items \in Nat
           /\ Entries \in Nat /\ Entries > 1
<1>1. Indices /\ reserved \in Nat /\ items \in Nat
  BY EntriesAssumption DEF TypeOK, Indices, Index
<1>2. Used \in Index
  BY <1>1, UsedValue
<1>3. QED
  BY <1>1, <1>2, EntriesAssumption DEF Index

\* What a step that leaves the ring alone leaves alone.
LEMMA SameQueue ==
    ASSUME UNCHANGED <<ring, indices>>
    PROVE  Queue' = Queue /\ Used' = Used
BY DEF indices, Queue, Used

\* A group of events that fits keeps the invariant's clauses about the ring.
LEMMA AddKeepsRing ==
    ASSUME RingInv, NEW group \in Seq(Event), Used + Len(group) < Entries,
           Add(group)
    PROVE  /\ ring' \in [Index -> Event \union {Empty}]
           /\ Indices'
           /\ Used' = Used + Len(group)
           /\ \A i \in 1..Used' : Queue'[i] \in Event
<1>1. TypeOK /\ Indices /\ Used \in Nat
  BY Grounds DEF RingInv
<1>2. /\ Indices'
      /\ Used' = Used + Len(group)
      /\ Queue' = [i \in 1..(Used + Len(group)) |->
                      IF i <= Used THEN Queue[i] ELSE group[i - Used]]
  BY <1>1, AddAppends
<1>3. ring' \in [Index -> Event \union {Empty}]
  <2>1. \A s \in Index : (s - in + Entries) % Entries \in Nat
    BY <1>1, Distance DEF Indices, Index
  <2>2. ring' = [s \in Index |->
                    LET i == ((s - in + Entries) % Entries) + 1
                    IN IF i <= Len(group) THEN group[i] ELSE ring[s]]
    BY DEF Add, Stored, Index
  <2>3. ring \in [Index -> Event \union {Empty}]
    BY <1>1 DEF TypeOK, Index
  <2>4. ASSUME NEW s \in Index
        PROVE  ring'[s] \in Event \union {Empty}
    <3> DEFINE d == (s - in + Entries) % Entries
    <3>1. d \in Nat /\ ring'[s] = IF d + 1 <= Len(group) THEN group[d + 1]
                                  ELSE ring[s]
      BY <2>1, <2>2
    <3> HIDE DEF d
    <3>2. QED
      BY <2>3, <3>1
  <2>5. QED
    BY <2>2, <2>4
<1>4. ASSUME NEW i \in 1..Used' PROVE Queue'[i] \in Event
  <2>1. CASE i <= Used
    BY <1>1, <1>2, <2>1 DEF RingInv
  <2>2. CASE i > Used
    <3>1. i - Used \in 1..Len(group)
      BY <1>1, <1>2, <2>2
    <3>2. QED
      BY <1>1, <1>2, <2>2, <3>1
  <2>3. QED
    BY <1>1, <1>2, <2>1, <2>2
<1>5. QED
  BY <1>2, <1>3, <1>4

\* So does taking out the first one, which is an event.
LEMMA AdvanceKeepsRing ==
    ASSUME RingInv, Used > 0, Advance, UNCHANGED <<ring, in>>
    PROVE  /\ Indices'
           /\ Used' = Used - 1
           /\ ring[out] \in Event
           /\ \A i \in 1..Used' : Queue'[i] \in Event
<1>1. Indices /\ Used \in Nat /\ Entries \in Nat
  BY Grounds DEF RingInv
<1>2. /\ Indices'
      /\ Used' = Used - 1
      /\ Queue' = [i \in 1..(Used - 1) |-> Queue[i + 1]]
  BY <1>1, AdvanceRemoves
<1>3. ring[out] = Queue[1]
  <2>1. (out + 1 - 1) % Entries = out
    BY <1>1, Wrap DEF Indices, Index
  <2>2. QED
    BY <1>1, <2>1 DEF Queue
<1>4. \A i \in 1..Used : Queue[i] \in Event
  BY DEF RingInv
<1>5. \A i \in 1..(Used - 1) : Queue'[i] \in Event
  BY <1>1, <1>2, <1>4
<1>6. QED
  BY <1>1, <1>2, <1>3, <1>4, <1>5

\* An event is a byte of the remote user or part of a key of the sysop.
LEMMA EventTypes ==
    /\ \A n \in 1..MaxBytes : RemoteEvent(n) \in Event
    /\ \A n \in 1..MaxKeys, part \in 0..2 : LocalEvent(n, part) \in Event
BY InputAssumption DEF RemoteEvent, LocalEvent, Event

\* The groups that PressKey adds.
LEMMA KeyGroups ==
    ASSUME NEW n \in 1..MaxKeys,
           NEW group \in {<<LocalEvent(n, 0)>>,
                          <<LocalEvent(n, 1), LocalEvent(n, 2)>>}
    PROVE  /\ group \in Seq(Event) /\ Len(group) \in 1..2
           /\ group \in [1..Len(group) -> Event]
<1>1. LocalEvent(n, 0) \in Event /\ LocalEvent(n, 1) \in Event
      /\ LocalEvent(n, 2) \in Event
  BY EventTypes
<1>2. CASE group = <<LocalEvent(n, 0)>>
  BY <1>1, <1>2
<1>3. CASE group = <<LocalEvent(n, 1), LocalEvent(n, 2)>>
  BY <1>1, <1>3
<1>4. QED
  BY <1>2, <1>3

LEMMA RingStep ==
    ASSUME RingInv, Next
    PROVE  RingInv'
<1>1. TypeOK /\ SemaphoreCounts
  BY DEF RingInv
<1>2. /\ Indices /\ Used \in Nat /\ reserved \in Nat /\ items \in Nat
      /\ Entries \in Nat /\ Entries > 1
  BY <1>1, Grounds
<1>3. Used = items + IF flow \in {"taking", "discarding"} THEN 1 ELSE 0
  BY <1>1 DEF SemaphoreCounts
\* A step that adds a group.
<1>4. ASSUME NEW group \in Seq(Event), Used + Len(group) < Entries,
             Add(group)
      PROVE  /\ ring' \in [0..(Entries - 1) -> Event \union {Empty}]
             /\ in' \in 0..(Entries - 1) /\ out' \in 0..(Entries - 1)
             /\ Used' = Used + Len(group) /\ Len(group) \in Nat
             /\ items' = items + Len(group)
             /\ \A i \in 1..Used' : Queue'[i] \in Event
  BY <1>4, AddKeepsRing DEF Index, Indices, Add
\* A step that leaves the ring alone.
<1>5. ASSUME UNCHANGED <<ring, indices>>
      PROVE  /\ ring' \in [0..(Entries - 1) -> Event \union {Empty}]
             /\ in' \in 0..(Entries - 1) /\ out' \in 0..(Entries - 1)
             /\ Used' = Used
             /\ \A i \in 1..Used' : Queue'[i] \in Event
  <2>1. Queue' = Queue /\ Used' = Used
    BY <1>5, SameQueue
  <2>2. QED
    BY <1>1, <1>5, <2>1 DEF TypeOK, indices, RingInv
\* A step that takes out an event.
<1>6. ASSUME flow \in {"taking", "discarding"}, Advance,
             UNCHANGED <<ring, in>>
      PROVE  /\ ring' \in [0..(Entries - 1) -> Event \union {Empty}]
             /\ in' \in 0..(Entries - 1) /\ out' \in 0..(Entries - 1)
             /\ Used' = Used - 1
             /\ ring[out] \in Event
             /\ \A i \in 1..Used' : Queue'[i] \in Event
  <2>1. Used > 0
    BY <1>2, <1>3, <1>6
  <2>2. QED
    BY <1>1, <1>6, <2>1, AdvanceKeepsRing DEF TypeOK, Index, Indices
<1>7. CASE Send
  <2>1. TypeOK'
    BY <1>1, <1>5, <1>7, InputAssumption DEF Send, TypeOK, indices, history
  <2>2. QED
    BY <1>3, <1>5, <1>7, <2>1 DEF Send, RingInv, SemaphoreCounts
<1>8. CASE PressKey
  <2>1. pressed + 1 \in 1..MaxKeys
    BY <1>1, <1>8, InputAssumption DEF PressKey, TypeOK
  <2>2. PICK group \in {<<LocalEvent(pressed + 1, 0)>>,
                        <<LocalEvent(pressed + 1, 1),
                          LocalEvent(pressed + 1, 2)>>} :
            IF Fits(group) THEN Add(group)
            ELSE UNCHANGED <<ring, indices, items>>
    BY <1>8 DEF PressKey
  <2>3. group \in Seq(Event) /\ Len(group) \in 1..2
    BY <2>1, <2>2, KeyGroups
  <2>4. /\ pressed' = pressed + 1 /\ reserved' = reserved /\ flow' = flow
        /\ byte' = byte /\ port' = port /\ open' = open /\ sent' = sent
        /\ got' = got /\ dropped' = dropped
    BY <1>8 DEF PressKey, remote
  <2>5. CASE Fits(group)
    <3>1. Used + Len(group) + reserved < Entries
      BY <1>2, <2>3, <2>5 DEF Fits, Available
    <3>2. /\ ring' \in [0..(Entries - 1) -> Event \union {Empty}]
          /\ in' \in 0..(Entries - 1) /\ out' \in 0..(Entries - 1)
          /\ Used' = Used + Len(group) /\ items' = items + Len(group)
          /\ \A i \in 1..Used' : Queue'[i] \in Event
      BY <1>2, <1>4, <2>2, <2>3, <2>5, <3>1
    <3>3. SemaphoreCounts' /\ Used' + reserved' < Entries
      BY <1>2, <1>3, <2>3, <2>4, <3>1, <3>2 DEF SemaphoreCounts
    <3>4. items' \in 0..(Entries - 1)
      BY <1>2, <1>3, <2>3, <3>1, <3>2
    <3>5. TypeOK'
      BY SMTT(30), <1>1, <2>1, <2>4, <3>2, <3>4 DEF TypeOK
    <3>6. QED
      BY <2>4, <3>2, <3>3, <3>5 DEF RingInv
  <2>6. CASE ~Fits(group)
    <3>1. UNCHANGED <<ring, indices, items>>
      BY <2>2, <2>6
    <3>2. TypeOK'
      BY <1>1, <1>5, <2>1, <2>4, <3>1 DEF TypeOK
    <3>3. QED
      BY <1>5, <2>4, <3>1, <3>2 DEF RingInv, SemaphoreCounts
  <2>7. QED
    BY <2>5, <2>6
<1>9. CASE Reserve
  <2>1. Used + reserved + 1 < Entries
    BY <1>2, <1>9 DEF Reserve, Available
  <2>2. reserved = 0
    BY <1>9 DEF Reserve, RingInv
  <2>3. TypeOK'
    BY <1>1, <1>2, <1>5, <1>9, <2>1, <2>2
    DEF Reserve, TypeOK, remote, history
  <2>4. QED
    BY <1>2, <1>5, <1>9, <2>1, <2>2, <2>3
    DEF Reserve, RingInv, SemaphoreCounts
<1>10. CASE Fetch
  <2>1. Head(port) \in 1..MaxBytes /\ Tail(port) \in Seq(1..MaxBytes)
    BY <1>1, <1>10, HeadTailProperties DEF Fetch, TypeOK
  <2>2. TypeOK'
    BY SMTT(30), <1>1, <1>5, <1>10, <2>1 DEF Fetch, TypeOK, history
  <2>3. QED
    BY <1>5, <1>10, <2>1, <2>2 DEF Fetch, RingInv, SemaphoreCounts
<1>11. CASE Commit
  <2> DEFINE group == <<RemoteEvent(byte)>>
  <2>1. byte \in 1..MaxBytes /\ reserved = 1 /\ Used + 1 < Entries
    BY <1>1, <1>2, <1>11, InputAssumption DEF Commit, RingInv, TypeOK
  <2>2. group \in Seq(Event) /\ Len(group) = 1
    BY <2>1, EventTypes
  <2>3. Add(group)
    BY <1>11 DEF Commit
  <2> HIDE DEF group
  <2>4. /\ ring' \in [0..(Entries - 1) -> Event \union {Empty}]
        /\ in' \in 0..(Entries - 1) /\ out' \in 0..(Entries - 1)
        /\ Used' = Used + 1 /\ items' = items + 1
        /\ \A i \in 1..Used' : Queue'[i] \in Event
    BY <1>4, <2>1, <2>2, <2>3
  <2>5. /\ reserved' = 0 /\ byte' = 0 /\ flow' = "application"
        /\ UNCHANGED <<port, open, sent, history>>
    BY <1>11, <2>1 DEF Commit
  <2>6. TypeOK' /\ SemaphoreCounts'
    BY <1>1, <1>2, <1>3, <1>11, <2>1, <2>4, <2>5, InputAssumption
    DEF Commit, TypeOK, SemaphoreCounts, history
  <2>7. QED
    BY <1>2, <2>1, <2>4, <2>5, <2>6 DEF RingInv
<1>12. CASE Cancel
  <2>1. reserved = 1
    BY <1>12 DEF Cancel, RingInv
  <2>2. TypeOK'
    BY <1>1, <1>2, <1>5, <1>12, <2>1 DEF Cancel, TypeOK, remote, history
  <2>3. QED
    BY <1>2, <1>5, <1>12, <2>1, <2>2 DEF Cancel, RingInv, SemaphoreCounts
<1>13. CASE Ignore
  <2>1. Head(port) \in 1..MaxBytes /\ Tail(port) \in Seq(1..MaxBytes)
    BY <1>1, <1>13, HeadTailProperties DEF Ignore, TypeOK
  <2>2. TypeOK'
    BY <1>1, <1>5, <1>13, <2>1 DEF Ignore, TypeOK
  <2>3. QED
    BY <1>5, <1>13, <2>2 DEF Ignore, RingInv, SemaphoreCounts
<1>14. CASE ToggleKeyboard
  <2>1. TypeOK'
    BY <1>1, <1>5, <1>14 DEF ToggleKeyboard, TypeOK, history
  <2>2. QED
    BY <1>5, <1>14, <2>1 DEF ToggleKeyboard, RingInv, SemaphoreCounts
<1>15. ASSUME NEW from \in {"application", "clearing"},
              NEW to \in {"taking", "discarding"}, Down(from, to)
       PROVE  RingInv'
  <2>1. TypeOK'
    BY <1>1, <1>2, <1>5, <1>15 DEF Down, TypeOK, remote, history
  <2>2. QED
    BY <1>2, <1>3, <1>5, <1>15, <2>1 DEF Down, RingInv, SemaphoreCounts
<1>16. CASE Take
  <2>1. items' = items /\ reserved' = reserved /\ flow' = "application"
    BY <1>16 DEF Take
  <2>2. TypeOK'
    BY <1>1, <1>6, <1>16 DEF Take, TypeOK, remote
  <2>3. QED
    BY <1>2, <1>3, <1>6, <1>16, <2>1, <2>2
    DEF Take, RingInv, SemaphoreCounts
<1>17. CASE BeginClear
  <2>1. TypeOK'
    BY <1>1, <1>5, <1>17 DEF BeginClear, TypeOK, remote, history
  <2>2. QED
    BY <1>5, <1>17, <2>1 DEF BeginClear, RingInv, SemaphoreCounts
<1>18. CASE Discard
  <2>1. items' = items /\ reserved' = reserved /\ flow' = "clearing"
    BY <1>18 DEF Discard
  <2>2. dropped' \subseteq 1..MaxBytes
    <3>1. ring[out] \in Event
      BY <1>6, <1>18 DEF Discard
    <3>2. ring[out].remote => ring[out].n \in 1..MaxBytes
      BY <3>1 DEF Event
    <3>3. QED
      BY <1>1, <1>18, <3>2 DEF Discard, TypeOK
  <2>3. TypeOK'
    BY <1>1, <1>6, <1>18, <2>2 DEF Discard, TypeOK, remote
  <2>4. QED
    BY <1>2, <1>3, <1>6, <1>18, <2>1, <2>3
    DEF Discard, RingInv, SemaphoreCounts
<1>19. CASE Emptied
  <2>1. TypeOK'
    BY <1>1, <1>5, <1>19 DEF Emptied, TypeOK, remote, history
  <2>2. QED
    BY <1>5, <1>19, <2>1 DEF Emptied, RingInv, SemaphoreCounts
<1>20. CASE Purge
  <2>1. ToSet(port) \subseteq 1..MaxBytes
    <3>1. port \in Seq(1..MaxBytes)
      BY <1>1 DEF TypeOK
    <3>2. \A i \in DOMAIN port : port[i] \in 1..MaxBytes
      BY <3>1, LenProperties, ElementOfSeq
    <3>3. QED
      BY <3>2 DEF ToSet
  <2>2. dropped' \subseteq 1..MaxBytes /\ port' \in Seq(1..MaxBytes)
    <3>1. dropped \subseteq 1..MaxBytes
      BY <1>1 DEF TypeOK
    <3>2. dropped' = dropped \union ToSet(port) /\ port' = << >>
      BY <1>20 DEF Purge
    <3>3. << >> \in Seq(1..MaxBytes)
      OBVIOUS
    <3>4. dropped' \subseteq 1..MaxBytes
      BY <2>1, <3>1, <3>2
    <3>5. QED
      BY <3>2, <3>3, <3>4
  <2>3. TypeOK'
    BY <1>1, <1>5, <1>20, <2>2 DEF Purge, TypeOK
  <2>4. QED
    BY <1>5, <1>20, <2>3 DEF Purge, RingInv, SemaphoreCounts
<1>21. QED
  BY <1>7, <1>8, <1>9, <1>10, <1>11, <1>12, <1>13, <1>14, <1>15, <1>16,
     <1>17, <1>18, <1>19, <1>20
  DEF Next, KernelStep, ReadStep, ClearStep, Await, ClearAwait

LEMMA RingStutter ==
    ASSUME RingInv, UNCHANGED vars
    PROVE  RingInv'
<1>1. Queue' = Queue /\ Used' = Used
  BY SameQueue DEF vars
<1>2. TypeOK' /\ SemaphoreCounts'
  BY <1>1 DEF RingInv, TypeOK, SemaphoreCounts, vars, indices, remote, history
<1>3. QED
  BY <1>1, <1>2 DEF RingInv, vars, remote

---------------------------------------------------------------------------
(* The theorems.                                                           *)

\* A reservation, the ring and the semaphore agree in every reachable state,
\* for rings of any size and any number of bytes and keys.
THEOREM RingInvariant == Spec => []RingInv
<1>1. Init => RingInv
  BY RingInit
<1>2. RingInv /\ [Next]_vars => RingInv'
  BY RingStep, RingStutter
<1>3. QED
  BY <1>1, <1>2, PTL DEF Spec

\* Indices never leave the ring, and what is read out of it was written.
THEOREM TypeCorrect == Spec => []TypeOK
<1>1. RingInv => TypeOK
  BY DEF RingInv
<1>2. QED
  BY <1>1, RingInvariant, PTL

\* A reader that got through hItemCountSemaphore finds an event, and an event
\* in the ring lets a reader through.
THEOREM SemaphoreAgrees == Spec => []SemaphoreCounts
<1>1. RingInv => SemaphoreCounts
  BY DEF RingInv
<1>2. QED
  BY <1>1, RingInvariant, PTL

---------------------------------------------------------------------------
(* The ring implements the bounded FIFO.                                   *)

LEMMA QueueIsSequence ==
    ASSUME RingInv
    PROVE  Queue \in Seq(Event) /\ Len(Queue) = Used
<1>1. Indices /\ Used \in Nat
  BY Grounds DEF RingInv
<1>2. DOMAIN Queue = 1..Used /\ Queue = [i \in 1..Used |-> Queue[i]]
  BY DEF Queue
<1>3. \A i \in 1..Used : Queue[i] \in Event
  BY DEF RingInv
<1>4. Queue \in [1..Used -> Event]
  BY <1>2, <1>3
<1>5. QED
  BY <1>1, <1>4

\* A step that adds a group to the ring appends it to the queue.
LEMMA AddIsAppend ==
    ASSUME RingInv, RingInv', NEW group \in Seq(Event),
           Used + Len(group) < Entries, Add(group)
    PROVE  Queue' = Queue \o group
<1>1. Indices /\ Used \in Nat
  BY Grounds DEF RingInv
<1>2. /\ Used' = Used + Len(group)
      /\ Queue' = [i \in 1..(Used + Len(group)) |->
                      IF i <= Used THEN Queue[i] ELSE group[i - Used]]
  BY <1>1, AddAppends
<1>3. Queue \in Seq(Event) /\ Len(Queue) = Used /\ Len(group) \in Nat
  BY QueueIsSequence
<1>4. Queue' \in Seq(Event) /\ Len(Queue') = Used + Len(group)
  <2>1. \A i \in 1..Used' : Queue'[i] \in Event
    BY DEF RingInv
  <2>2. Queue' \in [1..(Used + Len(group)) -> Event]
    BY <1>2, <2>1
  <2>3. QED
    BY <1>1, <1>3, <2>2
<1>5. /\ Queue \o group \in Seq(Event)
      /\ Len(Queue \o group) = Used + Len(group)
      /\ \A i \in 1..(Used + Len(group)) :
             (Queue \o group)[i] = IF i <= Used THEN Queue[i]
                                   ELSE group[i - Used]
  BY <1>3, ConcatProperties
<1>6. \A i \in 1..Len(Queue') : Queue'[i] = (Queue \o group)[i]
  BY <1>2, <1>4, <1>5
<1>7. QED
  BY <1>4, <1>5, <1>6, SeqEqual

\* A step that moves the out index takes the queue's head.
LEMMA AdvanceIsTail ==
    ASSUME RingInv, Used > 0, Advance, UNCHANGED <<ring, in>>
    PROVE  Queue # << >> /\ Queue' = Tail(Queue)
<1>1. Indices /\ Used \in Nat
  BY Grounds DEF RingInv
<1>2. Queue' = [i \in 1..(Used - 1) |-> Queue[i + 1]]
  BY <1>1, AdvanceRemoves
<1>3. Queue \in Seq(Event) /\ Len(Queue) = Used
  BY QueueIsSequence
<1>4. Queue # << >>
  BY <1>3
<1>5. /\ Tail(Queue) \in Seq(Event)
      /\ Len(Tail(Queue)) = Used - 1
      /\ \A i \in 1..(Used - 1) : Tail(Queue)[i] = Queue[i + 1]
  BY <1>3, <1>4, HeadTailProperties
<1>6. Queue' \in Seq(Event) /\ Len(Queue') = Used - 1
  <2>1. Used - 1 \in Nat /\ \A i \in 1..(Used - 1) : Queue[i + 1] \in Event
    BY <1>1 DEF RingInv
  <2>2. Queue' \in [1..(Used - 1) -> Event]
    BY <1>2, <2>1
  <2>3. QED
    BY <2>1, <2>2
<1>7. \A i \in 1..Len(Queue') : Queue'[i] = Tail(Queue)[i]
  BY <1>2, <1>5, <1>6
<1>8. QED
  BY <1>4, <1>5, <1>6, <1>7, SeqEqual

LEMMA FifoInit == Init => Fifo!Init
<1> SUFFICES ASSUME Init PROVE Queue = << >> /\ reserved = 0
  BY DEF Fifo!Init
<1>1. RingInv
  BY RingInit
<1>2. Queue \in Seq(Event) /\ Len(Queue) = Used
  BY <1>1, QueueIsSequence
<1>3. Used = 0
  BY Distance, EntriesAssumption DEF Init, Used, Index
<1>4. QED
  BY <1>2, <1>3, EmptySeq DEF Init

\* A key of the sysop adds its whole group, beside the reserved places, or nothing.
LEMMA KeyIsAdded ==
    ASSUME RingInv, RingInv', PressKey
    PROVE  /\ reserved' = reserved /\ pressed + 1 \in 1..MaxKeys
           /\ \/ Queue' = Queue
              \/ \E group \in {<<LocalEvent(pressed + 1, 0)>>,
                               <<LocalEvent(pressed + 1, 1), LocalEvent(pressed + 1, 2)>>} :
                     /\ Queue' = Queue \o group
                     /\ Len(Queue) + Len(group) + reserved < Entries
<1>1. /\ Used \in Nat /\ reserved \in Nat /\ Entries \in Nat
      /\ Queue \in Seq(Event) /\ Len(Queue) = Used
  BY Grounds, QueueIsSequence DEF RingInv
<1>2. pressed + 1 \in 1..MaxKeys
  BY InputAssumption DEF PressKey, RingInv, TypeOK
<1>3. PICK group \in {<<LocalEvent(pressed + 1, 0)>>,
                      <<LocalEvent(pressed + 1, 1), LocalEvent(pressed + 1, 2)>>} :
          IF Fits(group) THEN Add(group) ELSE UNCHANGED <<ring, indices, items>>
  BY DEF PressKey
<1>4. group \in Seq(Event) /\ Len(group) \in 1..2
  BY <1>2, <1>3, KeyGroups
<1>5. reserved' = reserved
  BY DEF PressKey
<1>6. CASE Fits(group)
  <2>1. Used + Len(group) + reserved < Entries
    BY <1>1, <1>4, <1>6 DEF Fits, Available
  <2>2. Queue' = Queue \o group
    BY <1>1, <1>3, <1>4, <1>6, <2>1, AddIsAppend
  <2> QED
    BY <1>1, <1>2, <1>3, <1>5, <2>1, <2>2
<1>7. CASE ~Fits(group)
  BY <1>2, <1>3, <1>5, <1>7, SameQueue
<1> QED
  BY <1>6, <1>7

\* od_kernel puts the byte it fetched into the place it reserved.
LEMMA ByteIsAdded ==
    ASSUME RingInv, RingInv', Commit
    PROVE  /\ byte \in 1..MaxBytes /\ RemoteEvent(byte) \in Event /\ reserved = 1
           /\ Queue' = Queue \o <<RemoteEvent(byte)>>
<1>1. Used \in Nat /\ reserved \in Nat /\ Entries \in Nat
  BY Grounds DEF RingInv
<1>2. byte \in 1..MaxBytes /\ reserved = 1 /\ Used + 1 < Entries
  BY SMTT(30), <1>1, InputAssumption DEF Commit, RingInv, TypeOK
<1>3. RemoteEvent(byte) \in Event
  BY <1>2, EventTypes
<1>4. <<RemoteEvent(byte)>> \in Seq(Event) /\ Len(<<RemoteEvent(byte)>>) = 1
  BY <1>3
<1>5. Add(<<RemoteEvent(byte)>>)
  BY DEF Commit
<1> QED
  BY <1>2, <1>3, <1>4, <1>5, AddIsAppend

\* The oldest event leaves the ring.
LEMMA HeadIsTaken ==
    ASSUME RingInv, Take \/ Discard
    PROVE  /\ Queue # << >> /\ ring[out] = Head(Queue) /\ Queue' = Tail(Queue)
           /\ reserved' = reserved
<1>1. Used \in Nat /\ Indices /\ Entries \in Nat /\ Queue \in Seq(Event) /\ Len(Queue) = Used
  BY Grounds, QueueIsSequence DEF RingInv
<1>2. /\ flow \in {"taking", "discarding"} /\ Advance
      /\ UNCHANGED <<ring, in>> /\ reserved' = reserved
  BY DEF Take, Discard
<1>3. Used > 0
  BY SMTT(30), <1>1, <1>2 DEF RingInv, SemaphoreCounts, TypeOK
<1>4. Queue # << >> /\ Queue' = Tail(Queue)
  BY <1>2, <1>3, AdvanceIsTail
<1>5. Head(Queue) = Queue[1] /\ Queue[1] = ring[(out + 1 - 1) % Entries]
  BY <1>1, <1>3, <1>4, HeadTailProperties DEF Queue
<1>6. (out + 1 - 1) % Entries = out
  BY <1>1, Wrap DEF Indices, Index
<1> QED
  BY <1>2, <1>4, <1>5, <1>6

\* The other steps leave the queue as it is.
LEMMA QueueStays ==
    ASSUME \/ Send \/ Reserve \/ Fetch \/ Cancel \/ Ignore \/ ToggleKeyboard \/ Await
           \/ BeginClear \/ ClearAwait \/ Emptied \/ Purge
    PROVE  Queue' = Queue
<1>1. UNCHANGED <<ring, indices>>
  BY DEF Send, Reserve, Fetch, Cancel, Ignore, ToggleKeyboard, Await, BeginClear,
     ClearAwait, Down, Emptied, Purge
<1> QED
  BY <1>1, SameQueue

\* Every step is a step of the bounded FIFO or leaves it alone.
LEMMA FifoStep ==
    ASSUME RingInv, RingInv', Next
    PROVE  Fifo!Next \/ UNCHANGED <<Queue, reserved>>
<1>1. /\ reserved \in Nat /\ Entries \in Nat
      /\ Queue \in Seq(Event) /\ Len(Queue) = Used
  BY Grounds, QueueIsSequence DEF RingInv
<1>2. CASE PressKey
  <2>1. pressed + 1 \in 1..MaxKeys /\ reserved' = reserved
    BY <1>2, KeyIsAdded
  <2>2. CASE Queue' # Queue
    <3>1. PICK group \in {<<LocalEvent(pressed + 1, 0)>>,
                          <<LocalEvent(pressed + 1, 1), LocalEvent(pressed + 1, 2)>>} :
              Queue' = Queue \o group /\ Len(Queue) + Len(group) + reserved < Entries
      BY <1>2, <2>2, KeyIsAdded
    <3>2. group \in [1..Len(group) -> Event] /\ Len(group) \in 1..2 /\ group \in Seq(Event)
      BY <2>1, <3>1, KeyGroups
    <3>3. Len(Queue') > Len(Queue)
      <4>1. Len(Queue \o group) = Len(Queue) + Len(group)
        BY <1>1, <3>2
      <4>2. QED
        BY <1>1, <3>1, <3>2, <4>1
    <3>4. Fifo!Put(group)
      BY <1>1, <2>1, <3>1, <3>2 DEF Fifo!Put
    <3>5. group \in Fifo!Groups
      BY <3>2 DEF Fifo!Groups
    <3>6. QED
      BY <3>3, <3>4, <3>5 DEF Fifo!Next
  <2>3. QED
    BY <2>1, <2>2
<1>3. CASE Reserve
  <2>1. Queue' = Queue
    BY <1>3, QueueStays
  <2>2. Len(Queue) + reserved < Entries - 1 /\ reserved' = reserved + 1
    BY <1>1, <1>3 DEF Reserve, Available
  <2>3. QED
    BY <2>1, <2>2 DEF Fifo!Book, Fifo!Next
<1>4. CASE Commit
  <2>1. RemoteEvent(byte) \in Event /\ Queue' = Queue \o <<RemoteEvent(byte)>>
    BY <1>4, ByteIsAdded
  <2>2. reserved > 0 /\ reserved' = reserved - 1
    <3>1. reserved = 1
      BY <1>4, ByteIsAdded
    <3>2. QED
      BY <1>4, <3>1 DEF Commit
  <2>3. Queue' = Append(Queue, RemoteEvent(byte))
    BY <1>1, <2>1
  <2>4. Fifo!PutBooked(RemoteEvent(byte))
    BY <2>2, <2>3 DEF Fifo!PutBooked
  <2>5. QED
    BY <2>1, <2>4 DEF Fifo!Next
<1>5. CASE Cancel
  <2>1. Queue' = Queue
    BY <1>5, QueueStays
  <2>2. reserved > 0 /\ reserved' = reserved - 1
    BY <1>5 DEF Cancel, RingInv
  <2>3. QED
    BY <2>1, <2>2 DEF Fifo!Release, Fifo!Next
<1>6. CASE Take \/ Discard
  <2>1. Queue # << >> /\ Queue' = Tail(Queue)
    BY <1>6, HeadIsTaken
  <2>2. reserved' = reserved
    BY <1>6 DEF Take, Discard
  <2>3. QED
    BY <2>1, <2>2 DEF Fifo!Take, Fifo!Next
<1>7. CASE Send \/ Fetch \/ Ignore \/ ToggleKeyboard \/ Await
           \/ BeginClear \/ ClearAwait \/ Emptied \/ Purge
  <2>1. Queue' = Queue
    BY <1>7, QueueStays
  <2>2. reserved' = reserved
    BY <1>7 DEF Send, Fetch, Ignore, ToggleKeyboard, Await, BeginClear,
                ClearAwait, Down, Emptied, Purge
  <2>3. QED
    BY <2>1, <2>2
<1>8. QED
  BY <1>2, <1>3, <1>4, <1>5, <1>6, <1>7
  DEF Next, KernelStep, ReadStep, ClearStep

\* The ring with its indices, its reservation counter and its semaphore is a
\* FIFO of nQueueEntries - 1 events in which places can be booked.
THEOREM RingImplementsFifo == Spec => ImplementsFifo
<1>1. Init => Fifo!Init
  BY FifoInit
<1>2. RingInv /\ RingInv' /\ [Next]_vars
        => [Fifo!Next]_<<Queue, reserved>>
  <2>1. ASSUME UNCHANGED vars PROVE UNCHANGED <<Queue, reserved>>
    BY <2>1, SameQueue DEF vars
  <2>2. QED
    BY <2>1, FifoStep
<1>3. QED
  BY <1>1, <1>2, RingInvariant, PTL DEF Spec, ImplementsFifo, Fifo!Spec

---------------------------------------------------------------------------
(* The events of a key stay together.                                      *)

\* After the first event of a sequence each scan code follows its zero; the first
\* is no scan code.
Joined(s) == \A i \in 2..Len(s) : s[i].part = 2 => s[i - 1] = LocalEvent(s[i].n, 1)
Whole(s) == Joined(s) /\ (s # << >> => s[1].part # 2)

\* Whole events after events that are joined leave them joined.
LEMMA WholeJoins ==
    ASSUME NEW s \in Seq(Event), NEW t \in Seq(Event), Joined(s), Whole(t)
    PROVE  Joined(s \o t) /\ (Whole(s) => Whole(s \o t))
<1>1. /\ Len(s) \in Nat /\ Len(t) \in Nat /\ Len(s \o t) = Len(s) + Len(t)
      /\ \A i \in 1..(Len(s) + Len(t)) : (s \o t)[i] = IF i <= Len(s) THEN s[i] ELSE t[i - Len(s)]
  BY ConcatProperties, LenProperties
<1>2. ASSUME NEW i \in 2..(Len(s) + Len(t)), (s \o t)[i].part = 2
      PROVE  (s \o t)[i - 1] = LocalEvent((s \o t)[i].n, 1)
  <2>1. CASE i <= Len(s)
    BY <1>1, <1>2, <2>1 DEF Joined
  <2>2. CASE i = Len(s) + 1
    <3>1. (s \o t)[i] = t[1] /\ t # << >>
      BY <1>1, <2>2
    <3> QED
      BY <1>2, <3>1 DEF Whole
  <2>3. CASE i > Len(s) + 1
    <3>1. i - Len(s) \in 2..Len(t) /\ (i - Len(s)) - 1 = (i - 1) - Len(s)
      BY <1>1, <2>3
    <3>2. (s \o t)[i] = t[i - Len(s)] /\ (s \o t)[i - 1] = t[(i - 1) - Len(s)]
      BY <1>1, <2>3
    <3> QED
      BY <1>2, <3>1, <3>2 DEF Whole, Joined
  <2> QED
    BY <1>1, <2>1, <2>2, <2>3
<1>3. Joined(s \o t)
  BY <1>1, <1>2 DEF Joined
<1>4. ASSUME Whole(s), s \o t # << >>
      PROVE  (s \o t)[1].part # 2
  <2>1. CASE s = << >>
    <3>1. s \o t = t
      BY <2>1, ConcatEmptySeq
    <3> QED
      BY <1>4, <3>1 DEF Whole
  <2>2. CASE s # << >>
    <3>1. Len(s) >= 1
      BY <1>1, <2>2, EmptySeq
    <3>2. (s \o t)[1] = s[1]
      BY <1>1, <3>1
    <3> QED
      BY <1>4, <2>2, <3>2 DEF Whole
  <2> QED
    BY <2>1, <2>2
<1> QED
  BY <1>3, <1>4 DEF Whole

\* The first part of what is whole is whole; the second may have lost its start.
LEMMA WholeParts ==
    ASSUME NEW s \in Seq(Event), NEW t \in Seq(Event), Whole(s \o t)
    PROVE  Whole(s) /\ Joined(t)
<1>1. /\ Len(s) \in Nat /\ Len(t) \in Nat /\ Len(s \o t) = Len(s) + Len(t)
      /\ \A i \in 1..(Len(s) + Len(t)) : (s \o t)[i] = IF i <= Len(s) THEN s[i] ELSE t[i - Len(s)]
  BY ConcatProperties, LenProperties
<1>2. \A i \in 2..(Len(s) + Len(t)) :
         (s \o t)[i].part = 2 => (s \o t)[i - 1] = LocalEvent((s \o t)[i].n, 1)
  BY <1>1 DEF Whole, Joined
<1>3. ASSUME NEW i \in 2..Len(s), s[i].part = 2
      PROVE  s[i - 1] = LocalEvent(s[i].n, 1)
  <2>1. i \in 2..(Len(s) + Len(t)) /\ (s \o t)[i] = s[i] /\ (s \o t)[i - 1] = s[i - 1]
    BY <1>1
  <2> QED
    BY <1>2, <1>3, <2>1
<1>4. ASSUME NEW i \in 2..Len(t), t[i].part = 2
      PROVE  t[i - 1] = LocalEvent(t[i].n, 1)
  <2>1. /\ Len(s) + i \in 2..(Len(s) + Len(t)) /\ (s \o t)[Len(s) + i] = t[i]
        /\ (s \o t)[(Len(s) + i) - 1] = t[i - 1]
    BY <1>1
  <2> QED
    BY <1>2, <1>4, <2>1
<1>5. ASSUME s # << >>
      PROVE  s[1].part # 2
  <2>1. Len(s) >= 1
    BY <1>1, <1>5, EmptySeq
  <2>2. (s \o t)[1] = s[1] /\ s \o t # << >>
    BY <1>1, <2>1
  <2> QED
    BY <2>2 DEF Whole
<1> QED
  BY <1>3, <1>4, <1>5 DEF Whole, Joined

\* Only the first event may lose its zero when the head is taken.
LEMMA TailJoined ==
    ASSUME NEW s \in Seq(Event), s # << >>, Joined(s)
    PROVE  Joined(Tail(s))
<1>1. /\ Len(s) \in Nat /\ Len(Tail(s)) = Len(s) - 1
      /\ \A i \in 1..(Len(s) - 1) : Tail(s)[i] = s[i + 1]
  BY HeadTailProperties, LenProperties
<1>2. ASSUME NEW i \in 2..(Len(s) - 1), Tail(s)[i].part = 2
      PROVE  Tail(s)[i - 1] = LocalEvent(Tail(s)[i].n, 1)
  <2>1. /\ i + 1 \in 2..Len(s) /\ Tail(s)[i] = s[i + 1]
        /\ Tail(s)[i - 1] = s[(i + 1) - 1]
    BY <1>1
  <2> QED
    BY <1>2, <2>1 DEF Joined
<1> QED
  BY <1>1, <1>2 DEF Joined

\* The head moves from one sequence to the end of another.
LEMMA HeadMoves ==
    ASSUME NEW s \in Seq(Event), NEW t \in Seq(Event), t # << >>
    PROVE  /\ Append(s, Head(t)) \in Seq(Event) /\ Append(s, Head(t)) = s \o <<Head(t)>>
           /\ Append(s, Head(t)) \o Tail(t) = s \o t
<1>1. Head(t) \in Event /\ Tail(t) \in Seq(Event) /\ t = <<Head(t)>> \o Tail(t)
  BY HeadTailProperties, ConcatProperties
<1>2. Append(s, Head(t)) = s \o <<Head(t)>> /\ Append(s, Head(t)) \in Seq(Event)
      /\ <<Head(t)>> \in Seq(Event)
  BY <1>1, AppendProperties
<1>3. (s \o <<Head(t)>>) \o Tail(t) = s \o (<<Head(t)>> \o Tail(t))
  BY <1>1, <1>2, ConcatAssociative
<1> QED
  BY <1>1, <1>2, <1>3

\* Joining sequences is associative.
LEMMA Associates ==
    ASSUME NEW a \in Seq(Event), NEW b \in Seq(Event), NEW c \in Seq(Event)
    PROVE  (a \o b) \o c = a \o (b \o c)
BY ConcatAssociative

\* While the queue is emptied it may begin with a scan code whose zero is gone;
\* nobody reads it before it is empty.
PairsInv ==
    /\ Whole(got) /\ Joined(Queue)
    /\ flow \notin {"clearing", "discarding"} => Whole(got \o Queue)

\* What is added is whole.
LEMMA GroupsAreWhole ==
    /\ \A n \in Nat : Whole(<<RemoteEvent(n)>>)
    /\ \A n \in Nat : \A group \in {<<LocalEvent(n, 0)>>, <<LocalEvent(n, 1), LocalEvent(n, 2)>>} :
          Whole(group)
<1>1. ASSUME NEW n \in Nat
      PROVE  Whole(<<RemoteEvent(n)>>) /\ Whole(<<LocalEvent(n, 0)>>)
  BY DEF Whole, Joined, RemoteEvent, LocalEvent
<1>2. ASSUME NEW n \in Nat
      PROVE  Whole(<<LocalEvent(n, 1), LocalEvent(n, 2)>>)
  <2> DEFINE s == <<LocalEvent(n, 1), LocalEvent(n, 2)>>
  <2>1. Len(s) = 2 /\ s[1] = LocalEvent(n, 1) /\ s[2] = LocalEvent(n, 2)
    OBVIOUS
  <2>2. s[1].part = 1 /\ s[2].n = n
    BY <2>1 DEF LocalEvent
  <2> HIDE DEF s
  <2>3. \A i \in 2..Len(s) : i = 2
    BY <2>1
  <2> QED
    BY <2>1, <2>2, <2>3 DEF Whole, Joined, s
<1> QED
  BY <1>1, <1>2

\* Adding a whole group.
LEMMA PairsAdded ==
    ASSUME RingInv, PairsInv, NEW group \in Seq(Event), Whole(group),
           Queue' = Queue \o group, got' = got,
           flow' \in {"clearing", "discarding"} <=> flow \in {"clearing", "discarding"}
    PROVE  PairsInv'
<1>1. got \in Seq(Event) /\ Queue \in Seq(Event)
  BY QueueIsSequence DEF RingInv, TypeOK
<1>2. Joined(Queue \o group)
  BY <1>1, WholeJoins DEF PairsInv
<1>3. ASSUME flow \notin {"clearing", "discarding"}
      PROVE  Whole(got \o (Queue \o group))
  <2>1. got \o Queue \in Seq(Event) /\ Whole(got \o Queue)
    BY <1>1, <1>3, ConcatProperties DEF PairsInv
  <2>2. Whole((got \o Queue) \o group)
    BY <2>1, WholeJoins DEF Whole
  <2>3. (got \o Queue) \o group = got \o (Queue \o group)
    BY <1>1, Associates
  <2> QED
    BY <2>2, <2>3
<1> QED
  BY <1>2, <1>3 DEF PairsInv

\* Every step keeps the events of a key together.
LEMMA PairsStep ==
    ASSUME RingInv, RingInv', PairsInv, Next
    PROVE  PairsInv'
<1>0. got \in Seq(Event) /\ Queue \in Seq(Event) /\ pressed \in Nat
  <2>1. got \in Seq(Event) /\ Queue \in Seq(Event) /\ pressed \in 0..MaxKeys
    BY QueueIsSequence DEF RingInv, TypeOK
  <2> QED
    BY <2>1, InputAssumption
<1>1. CASE PressKey
  <2>1. got' = got /\ flow' = flow
    BY <1>1 DEF PressKey
  <2>2. CASE Queue' = Queue
    BY <2>1, <2>2 DEF PairsInv
  <2>3. CASE Queue' # Queue
    <3>1. PICK group \in {<<LocalEvent(pressed + 1, 0)>>,
                          <<LocalEvent(pressed + 1, 1), LocalEvent(pressed + 1, 2)>>} :
              Queue' = Queue \o group
      BY <1>1, <2>3, KeyIsAdded
    <3>2. pressed + 1 \in 1..MaxKeys /\ pressed + 1 \in Nat
      BY <1>0, <1>1, KeyIsAdded
    <3>3. group \in Seq(Event)
      BY <3>1, <3>2, KeyGroups
    <3>4. Whole(group)
      BY <3>1, <3>2, GroupsAreWhole
    <3> QED
      BY <2>1, <3>1, <3>3, <3>4, PairsAdded
  <2> QED
    BY <2>2, <2>3
<1>2. CASE Commit
  <2>1. /\ byte \in Nat /\ <<RemoteEvent(byte)>> \in Seq(Event)
        /\ Queue' = Queue \o <<RemoteEvent(byte)>>
    BY <1>2, ByteIsAdded, InputAssumption
  <2>2. Whole(<<RemoteEvent(byte)>>)
    BY <2>1, GroupsAreWhole
  <2>3. got' = got /\ flow = "fetched" /\ flow' = "application"
    BY <1>2 DEF Commit, history
  <2> QED
    BY <2>1, <2>2, <2>3, PairsAdded
<1>3. CASE Take
  <2>1. Queue # << >> /\ ring[out] = Head(Queue) /\ Queue' = Tail(Queue)
    BY <1>3, HeadIsTaken
  <2>2. /\ got' = Append(got, Head(Queue)) /\ flow = "taking" /\ flow' = "application"
    BY <1>3, <2>1 DEF Take
  <2>3. got' \in Seq(Event) /\ Tail(Queue) \in Seq(Event) /\ got' \o Tail(Queue) = got \o Queue
    BY <1>0, <2>1, <2>2, HeadMoves, HeadTailProperties
  <2>4. Whole(got' \o Tail(Queue))
    BY <2>2, <2>3 DEF PairsInv
  <2>5. Whole(got') /\ Joined(Tail(Queue))
    BY <2>3, <2>4, WholeParts
  <2> QED
    BY <2>1, <2>4, <2>5 DEF PairsInv
<1>4. CASE Discard
  <2>1. Queue # << >> /\ Queue' = Tail(Queue)
    BY <1>4, HeadIsTaken
  <2>2. got' = got /\ flow' = "clearing"
    BY <1>4 DEF Discard
  <2>3. Joined(Tail(Queue))
    BY <1>0, <2>1, TailJoined DEF PairsInv
  <2> QED
    BY <2>1, <2>2, <2>3 DEF PairsInv
<1>5. CASE Emptied
  <2>1. Queue' = Queue /\ got' = got
    BY <1>5, QueueStays DEF Emptied, history
  <2>2. Len(Queue) = 0
    BY <1>5, QueueIsSequence DEF Emptied
  <2>3. got \o Queue = got
    BY <1>0, <2>2, EmptySeq, ConcatEmptySeq
  <2> QED
    BY <2>1, <2>3 DEF PairsInv
<1>6. CASE \/ Send \/ Reserve \/ Fetch \/ Cancel \/ Ignore \/ ToggleKeyboard \/ Await
           \/ BeginClear \/ ClearAwait \/ Purge
  <2>1. Queue' = Queue
    BY <1>6, QueueStays
  <2>2. /\ got' = got
        /\ flow' \notin {"clearing", "discarding"} => flow \notin {"clearing", "discarding"}
    BY <1>6 DEF Send, Reserve, Fetch, Cancel, Ignore, ToggleKeyboard, Await, BeginClear,
       ClearAwait, Down, Purge, history
  <2> QED
    BY <2>1, <2>2 DEF PairsInv
<1> QED
  BY <1>1, <1>2, <1>3, <1>4, <1>5, <1>6 DEF Next, KernelStep, ReadStep, ClearStep

\* The two events of an extended key, the zero and the scan code that
\* ODInQueueAddEvents stores together, are read one right after the other:
\* bytes of od_kernel come before or after both, and od_clear_keybuffer never
\* leaves a scan code to a reader without its zero.
THEOREM PairsKept == Spec => []PairsStayTogether
<1>1. Init => PairsInv
  <2> SUFFICES ASSUME Init PROVE PairsInv
    OBVIOUS
  <2>1. got = << >> /\ Queue = << >>
    BY FifoInit DEF Init, Fifo!Init
  <2>2. got \o Queue = << >>
    BY <2>1
  <2>3. Whole(<< >>) /\ Joined(<< >>)
    BY DEF Whole, Joined
  <2> QED
    BY <2>1, <2>2, <2>3 DEF PairsInv
<1>2. RingInv /\ RingInv' /\ PairsInv /\ [Next]_vars => PairsInv'
  <2>1. ASSUME UNCHANGED vars, PairsInv PROVE PairsInv'
    BY <2>1, SameQueue DEF vars, history, PairsInv
  <2> QED
    BY <2>1, PairsStep
<1>3. RingInv /\ PairsInv => PairsStayTogether
  <2> SUFFICES ASSUME RingInv, PairsInv, NEW i \in 1..Len(got), got[i].part = 2
               PROVE  i > 1 /\ got[i - 1] = LocalEvent(got[i].n, 1)
    BY DEF PairsStayTogether
  <2>1. got \in Seq(Event) /\ Len(got) \in Nat
    BY DEF RingInv, TypeOK
  <2>2. i # 1
    <3>1. got # << >>
      BY <2>1
    <3> QED
      BY <3>1 DEF PairsInv, Whole
  <2>3. i \in 2..Len(got)
    BY <2>1, <2>2
  <2> QED
    BY <2>3 DEF PairsInv, Whole, Joined
<1> QED
  BY <1>1, <1>2, <1>3, RingInvariant, PTL DEF Spec

---------------------------------------------------------------------------
(* No byte is lost.                                                        *)

\* What the two kinds of events hold.
LEMMA EventFields ==
    /\ \A n : RemoteEvent(n).remote = TRUE /\ RemoteEvent(n).n = n
    /\ \A n, part : LocalEvent(n, part).remote = FALSE
BY DEF RemoteEvent, LocalEvent

\* The bytes of one sequence come before those of another.
Ahead(s, t) == \A a \in BytesOf(s), b \in BytesOf(t) : a < b

\* The bytes of two sequences, one after the other.
LEMMA BytesJoin ==
    ASSUME NEW s \in Seq(Event), NEW t \in Seq(Event)
    PROVE  /\ s \o t \in Seq(Event)
           /\ BytesOf(s \o t) = BytesOf(s) \union BytesOf(t)
           /\ InOrder(s \o t) <=> InOrder(s) /\ InOrder(t) /\ Ahead(s, t)
<1>1. /\ Len(s) \in Nat /\ Len(t) \in Nat /\ Len(s \o t) = Len(s) + Len(t) /\ s \o t \in Seq(Event)
      /\ \A i \in 1..(Len(s) + Len(t)) : (s \o t)[i] = IF i <= Len(s) THEN s[i] ELSE t[i - Len(s)]
  BY ConcatProperties, LenProperties
<1>2. \A i \in 1..Len(s) : i \in 1..(Len(s) + Len(t)) /\ (s \o t)[i] = s[i]
  BY <1>1
<1>3. \A i \in 1..Len(t) :
         Len(s) + i \in 1..(Len(s) + Len(t)) /\ (s \o t)[Len(s) + i] = t[i]
  BY <1>1
<1>4. \A i \in 1..(Len(s) + Len(t)) : i \in 1..Len(s) \/ \E k \in 1..Len(t) : i = Len(s) + k
  <2> SUFFICES ASSUME NEW i \in 1..(Len(s) + Len(t)), i \notin 1..Len(s)
               PROVE  \E k \in 1..Len(t) : i = Len(s) + k
    OBVIOUS
  <2>1. i - Len(s) \in 1..Len(t) /\ i = Len(s) + (i - Len(s))
    BY <1>1
  <2> QED
    BY <2>1
<1>5. BytesOf(s \o t) \subseteq BytesOf(s) \union BytesOf(t)
  <2> SUFFICES ASSUME NEW i \in 1..(Len(s) + Len(t)), (s \o t)[i].remote
               PROVE  (s \o t)[i].n \in BytesOf(s) \union BytesOf(t)
    BY <1>1 DEF BytesOf
  <2>1. CASE i \in 1..Len(s)
    BY <1>2, <2>1 DEF BytesOf
  <2>2. ASSUME NEW k \in 1..Len(t), i = Len(s) + k
        PROVE  (s \o t)[i].n \in BytesOf(t)
    BY <1>3, <2>2 DEF BytesOf
  <2> QED
    BY <1>4, <2>1, <2>2
<1>6. BytesOf(s) \subseteq BytesOf(s \o t) /\ BytesOf(t) \subseteq BytesOf(s \o t)
  <2>1. ASSUME NEW i \in 1..Len(s), s[i].remote
        PROVE  s[i].n \in BytesOf(s \o t)
    BY <1>1, <1>2, <2>1 DEF BytesOf
  <2>2. ASSUME NEW i \in 1..Len(t), t[i].remote
        PROVE  t[i].n \in BytesOf(s \o t)
    <3>1. Len(s) + i \in 1..Len(s \o t) /\ (s \o t)[Len(s) + i] = t[i]
      BY <1>1, <1>3
    <3> QED
      BY <2>2, <3>1 DEF BytesOf
  <2> QED
    BY <2>1, <2>2 DEF BytesOf
<1>7. ASSUME InOrder(s), InOrder(t), Ahead(s, t)
      PROVE  InOrder(s \o t)
  <2> SUFFICES ASSUME NEW i \in 1..(Len(s) + Len(t)), NEW j \in 1..(Len(s) + Len(t)),
                      i < j, (s \o t)[i].remote, (s \o t)[j].remote
               PROVE  (s \o t)[i].n < (s \o t)[j].n
    BY <1>1 DEF InOrder
  <2>1. CASE i \in 1..Len(s) /\ j \in 1..Len(s)
    BY <1>2, <1>7, <2>1 DEF InOrder
  <2>2. ASSUME i \in 1..Len(s), NEW k \in 1..Len(t), j = Len(s) + k
        PROVE  (s \o t)[i].n < (s \o t)[j].n
    <3>1. (s \o t)[i] = s[i] /\ (s \o t)[j] = t[k]
      BY <1>2, <1>3, <2>2
    <3>2. s[i].n \in BytesOf(s) /\ t[k].n \in BytesOf(t)
      BY <2>2, <3>1 DEF BytesOf
    <3> QED
      BY <1>7, <3>1, <3>2 DEF Ahead
  <2>3. ASSUME NEW h \in 1..Len(t), i = Len(s) + h, NEW k \in 1..Len(t), j = Len(s) + k
        PROVE  (s \o t)[i].n < (s \o t)[j].n
    <3>1. (s \o t)[i] = t[h] /\ (s \o t)[j] = t[k] /\ h < k
      BY <1>1, <1>3, <2>3
    <3> QED
      BY <1>7, <3>1 DEF InOrder
  <2>4. i \notin 1..Len(s) => j \notin 1..Len(s)
    BY <1>1
  <2> QED
    BY <1>4, <2>1, <2>2, <2>3, <2>4
<1>8. ASSUME InOrder(s \o t)
      PROVE  InOrder(s) /\ InOrder(t) /\ Ahead(s, t)
  <2>0. \A i, j \in 1..(Len(s) + Len(t)) :
           i < j /\ (s \o t)[i].remote /\ (s \o t)[j].remote => (s \o t)[i].n < (s \o t)[j].n
    BY <1>1, <1>8 DEF InOrder
  <2>1. InOrder(s)
    BY <1>2, <2>0 DEF InOrder
  <2>2. ASSUME NEW i \in 1..Len(t), NEW j \in 1..Len(t), i < j, t[i].remote, t[j].remote
        PROVE  t[i].n < t[j].n
    <3>1. Len(s) + i < Len(s) + j
      BY <1>1, <2>2
    <3> QED
      BY <1>3, <2>0, <2>2, <3>1
  <2>3. ASSUME NEW i \in 1..Len(s), NEW j \in 1..Len(t), s[i].remote, t[j].remote
        PROVE  s[i].n < t[j].n
    <3>1. i < Len(s) + j
      BY <1>1
    <3> QED
      BY <1>2, <1>3, <2>0, <2>3, <3>1
  <2> QED
    BY <2>1, <2>2, <2>3 DEF InOrder, Ahead, BytesOf
<1> QED
  BY <1>1, <1>5, <1>6, <1>7, <1>8

\* The numbers of the bytes can be compared.
LEMMA BytesAreNumbers ==
    ASSUME NEW s \in Seq(Event)
    PROVE  BytesOf(s) \subseteq Int
<1>1. \A e \in Event : e.n \in Int
  <2>1. 1..MaxBytes \subseteq Int /\ 1..MaxKeys \subseteq Int
    BY InputAssumption
  <2>2. \A e \in Event : e.n \in (1..MaxBytes) \union (1..MaxKeys)
    BY DEF Event
  <2> QED
    BY <2>1, <2>2
<1>2. \A i \in 1..Len(s) : s[i] \in Event
  BY ElementOfSeq
<1> QED
  BY <1>1, <1>2 DEF BytesOf

\* What a group between s and t changes.
LEMMA Between ==
    ASSUME NEW s \in Seq(Event), NEW group \in Seq(Event), NEW t \in Seq(Event)
    PROVE  /\ InOrder(s \o (group \o t)) =>
                  /\ InOrder(s \o t)
                  /\ BytesOf(s \o t) = BytesOf(s \o (group \o t)) \ BytesOf(group)
                  /\ BytesOf(group) \subseteq BytesOf(s \o (group \o t))
           /\ InOrder(group) /\ BytesOf(group) = {} /\ InOrder(s \o t) =>
                  /\ InOrder(s \o (group \o t))
                  /\ BytesOf(s \o (group \o t)) = BytesOf(s \o t)
<1>1. /\ group \o t \in Seq(Event)
      /\ BytesOf(group \o t) = BytesOf(group) \union BytesOf(t)
      /\ InOrder(group \o t) <=> InOrder(group) /\ InOrder(t) /\ Ahead(group, t)
  BY BytesJoin
<1>2. /\ BytesOf(s \o t) = BytesOf(s) \union BytesOf(t)
      /\ InOrder(s \o t) <=> InOrder(s) /\ InOrder(t) /\ Ahead(s, t)
  BY BytesJoin
<1>3. /\ BytesOf(s \o (group \o t)) = BytesOf(s) \union BytesOf(group \o t)
      /\ InOrder(s \o (group \o t)) <=> InOrder(s) /\ InOrder(group \o t) /\ Ahead(s, group \o t)
  BY <1>1, BytesJoin
<1>4. BytesOf(s) \subseteq Int /\ BytesOf(group) \subseteq Int /\ BytesOf(t) \subseteq Int
  BY BytesAreNumbers
<1>5. ASSUME InOrder(s \o (group \o t))
      PROVE  /\ InOrder(s \o t)
             /\ BytesOf(s \o t) = BytesOf(s \o (group \o t)) \ BytesOf(group)
             /\ BytesOf(group) \subseteq BytesOf(s \o (group \o t))
  <2>1. Ahead(s, t) /\ Ahead(s, group) /\ Ahead(group, t)
    BY <1>1, <1>3, <1>5 DEF Ahead
  <2>2. BytesOf(s) \intersect BytesOf(group) = {} /\ BytesOf(t) \intersect BytesOf(group) = {}
    BY <1>4, <2>1 DEF Ahead
  <2> QED
    BY <1>1, <1>2, <1>3, <1>5, <2>1, <2>2
<1>6. ASSUME InOrder(group), BytesOf(group) = {}, InOrder(s \o t)
      PROVE  /\ InOrder(s \o (group \o t))
             /\ BytesOf(s \o (group \o t)) = BytesOf(s \o t)
  <2>1. Ahead(group, t) /\ Ahead(s, group \o t)
    BY <1>1, <1>2, <1>6 DEF Ahead
  <2> QED
    BY <1>1, <1>2, <1>3, <1>6, <2>1
<1> QED
  BY <1>5, <1>6

\* One event, and the two of a key.
LEMMA BytesOfGroups ==
    /\ \A n \in 1..MaxBytes : /\ <<RemoteEvent(n)>> \in Seq(Event) /\ InOrder(<<RemoteEvent(n)>>)
                              /\ BytesOf(<<RemoteEvent(n)>>) = {n}
    /\ \A e \in Event : BytesOf(<<e>>) = IF e.remote THEN {e.n} ELSE {}
    /\ \A n : \A group \in {<<LocalEvent(n, 0)>>, <<LocalEvent(n, 1), LocalEvent(n, 2)>>} :
          InOrder(group) /\ BytesOf(group) = {}
<1>1. \A e : Len(<<e>>) = 1 /\ <<e>>[1] = e
  OBVIOUS
<1>2. \A e : InOrder(<<e>>)
  <2>1. \A e : \A i, j \in 1..Len(<<e>>) : ~(i < j)
    BY <1>1
  <2> QED
    BY <2>1 DEF InOrder
<1>3. ASSUME NEW e
      PROVE  BytesOf(<<e>>) = IF e.remote THEN {e.n} ELSE {}
  <2>1. \A i \in 1..Len(<<e>>) : i = 1 /\ <<e>>[i] = e
    BY <1>1
  <2>2. 1 \in 1..Len(<<e>>)
    BY <1>1
  <2> QED
    BY <2>1, <2>2 DEF BytesOf
<1>4. ASSUME NEW n \in 1..MaxBytes
      PROVE  /\ <<RemoteEvent(n)>> \in Seq(Event) /\ InOrder(<<RemoteEvent(n)>>)
             /\ BytesOf(<<RemoteEvent(n)>>) = {n}
  <2> DEFINE e == RemoteEvent(n)
  <2>1. e \in Event /\ e.remote = TRUE /\ e.n = n
    BY EventTypes, EventFields
  <2> HIDE DEF e
  <2>2. InOrder(<<e>>) /\ BytesOf(<<e>>) = {n}
    BY <1>2, <1>3, <2>1
  <2>3. <<e>> \in Seq(Event)
    BY <2>1
  <2> QED
    BY <2>2, <2>3 DEF e
<1>5. ASSUME NEW n
      PROVE  /\ InOrder(<<LocalEvent(n, 0)>>) /\ BytesOf(<<LocalEvent(n, 0)>>) = {}
             /\ InOrder(<<LocalEvent(n, 1), LocalEvent(n, 2)>>)
             /\ BytesOf(<<LocalEvent(n, 1), LocalEvent(n, 2)>>) = {}
  <2> DEFINE s == <<LocalEvent(n, 1), LocalEvent(n, 2)>>
  <2>1. \A i \in 1..Len(s) : s[i] \in {LocalEvent(n, 1), LocalEvent(n, 2)}
    OBVIOUS
  <2>2. \A i \in 1..Len(s) : s[i].remote = FALSE
    BY <2>1, EventFields
  <2> HIDE DEF s
  <2>3. InOrder(s) /\ BytesOf(s) = {}
    BY <2>2 DEF InOrder, BytesOf
  <2> QED
    BY <1>2, <1>3, <2>3, EventFields DEF s
<1> QED
  BY <1>3, <1>4, <1>5

\* The bytes in the port.
LEMMA PortCarried ==
    ASSUME NEW p \in Seq(1..MaxBytes)
    PROVE  /\ Carried(p) \in Seq(Event) /\ Len(Carried(p)) = Len(p)
           /\ \A i \in 1..Len(p) : Carried(p)[i] = RemoteEvent(p[i])
           /\ BytesOf(Carried(p)) = ToSet(p)
<1>0. Len(p) \in Nat /\ DOMAIN p = 1..Len(p) /\ \A i \in 1..Len(p) : p[i] \in 1..MaxBytes
  BY ElementOfSeq, LenProperties
<1>1. Carried(p) \in [1..Len(p) -> Event]
  BY <1>0, EventTypes DEF Carried
<1>2. Carried(p) \in Seq(Event) /\ Len(Carried(p)) = Len(p)
  BY <1>0, <1>1
<1>3. \A i \in 1..Len(p) : Carried(p)[i] = RemoteEvent(p[i])
  BY DEF Carried
<1>4. BytesOf(Carried(p)) = {p[i] : i \in 1..Len(p)}
  BY <1>2, <1>3, EventFields DEF BytesOf
<1>5. ToSet(p) = {p[i] : i \in 1..Len(p)}
  BY <1>0 DEF ToSet
<1> QED
  BY <1>2, <1>3, <1>4, <1>5

\* Taking the first byte of the port takes its event from the front.
LEMMA CarriedHead ==
    ASSUME NEW p \in Seq(1..MaxBytes), p # << >>
    PROVE  /\ Head(p) \in 1..MaxBytes /\ Tail(p) \in Seq(1..MaxBytes)
           /\ Carried(p) = <<RemoteEvent(Head(p))>> \o Carried(Tail(p))
<1>1. /\ Head(p) \in 1..MaxBytes /\ Tail(p) \in Seq(1..MaxBytes) /\ Head(p) = p[1]
      /\ Len(Tail(p)) = Len(p) - 1 /\ \A i \in 1..(Len(p) - 1) : Tail(p)[i] = p[i + 1]
  <2>1. Head(p) \in 1..MaxBytes /\ Tail(p) \in Seq(1..MaxBytes)
    BY HeadTailProperties
  <2>2. Len(Tail(p)) = Len(p) - 1 /\ \A i \in 1..Len(Tail(p)) : Tail(p)[i] = p[i + 1]
    BY HeadTailProperties
  <2>3. Head(p) = p[1]
    OBVIOUS
  <2> QED
    BY <2>1, <2>2, <2>3
<1>2. Len(p) \in Nat
  BY LenProperties
<1>3. /\ Carried(p) \in Seq(Event) /\ Len(Carried(p)) = Len(p)
      /\ \A i \in 1..Len(p) : Carried(p)[i] = RemoteEvent(p[i])
  BY PortCarried
<1>4. /\ Carried(Tail(p)) \in Seq(Event) /\ Len(Carried(Tail(p))) = Len(p) - 1
      /\ \A i \in 1..(Len(p) - 1) : Carried(Tail(p))[i] = RemoteEvent(Tail(p)[i])
  BY <1>1, PortCarried
<1>5. <<RemoteEvent(Head(p))>> \in Seq(Event) /\ Len(<<RemoteEvent(Head(p))>>) = 1
      /\ <<RemoteEvent(Head(p))>>[1] = RemoteEvent(Head(p))
  BY <1>1, EventTypes
<1> DEFINE first == <<RemoteEvent(Head(p))>>
           rest == Carried(Tail(p))
           joined == first \o rest
<1> HIDE DEF first, rest
<1>6. /\ joined \in Seq(Event) /\ Len(joined) = 1 + (Len(p) - 1)
      /\ \A i \in 1..(1 + (Len(p) - 1)) : joined[i] = IF i <= 1 THEN first[i] ELSE rest[i - 1]
  BY <1>4, <1>5, ConcatProperties DEF first, rest
<1>7. ASSUME NEW i \in 1..Len(p)
      PROVE  joined[i] = Carried(p)[i]
  <2>1. CASE i = 1
    BY <1>1, <1>2, <1>3, <1>5, <1>6, <2>1 DEF first
  <2>2. CASE i # 1
    <3>1. i - 1 \in 1..(Len(p) - 1) /\ (i - 1) + 1 = i /\ ~(i <= 1)
      BY <1>2, <2>2
    <3>2. rest[i - 1] = RemoteEvent(p[i])
      BY <1>1, <1>4, <3>1 DEF rest
    <3> QED
      BY <1>2, <1>3, <1>6, <3>1, <3>2
  <2> QED
    BY <2>1, <2>2
<1> HIDE DEF joined
<1>8. Len(joined) = Len(p)
  BY <1>2, <1>6
<1>9. joined = Carried(p)
  BY <1>3, <1>6, <1>7, <1>8, SeqEqual
<1> QED
  BY <1>1, <1>9 DEF joined, first, rest

\* A byte that arrives puts its event at the end.
LEMMA CarriedAppend ==
    ASSUME NEW p \in Seq(1..MaxBytes), NEW n \in 1..MaxBytes
    PROVE  /\ Append(p, n) \in Seq(1..MaxBytes)
           /\ Carried(Append(p, n)) = Carried(p) \o <<RemoteEvent(n)>>
<1>0. Len(p) \in Nat
  BY LenProperties
<1>1. /\ Append(p, n) \in Seq(1..MaxBytes) /\ Len(Append(p, n)) = Len(p) + 1
      /\ \A i \in 1..Len(p) : Append(p, n)[i] = p[i]
      /\ Append(p, n)[Len(p) + 1] = n
  BY AppendProperties
<1>2. /\ Carried(p) \in Seq(Event) /\ Len(Carried(p)) = Len(p)
      /\ \A i \in 1..Len(p) : Carried(p)[i] = RemoteEvent(p[i])
  BY PortCarried
<1>3. /\ Carried(Append(p, n)) \in Seq(Event) /\ Len(Carried(Append(p, n))) = Len(p) + 1
      /\ \A i \in 1..(Len(p) + 1) : Carried(Append(p, n))[i] = RemoteEvent(Append(p, n)[i])
  BY <1>1, PortCarried
<1> DEFINE event == <<RemoteEvent(n)>>
           joined == Carried(p) \o event
<1>4. event \in Seq(Event) /\ Len(event) = 1 /\ event[1] = RemoteEvent(n)
  BY EventTypes
<1> HIDE DEF event
<1>5. /\ joined \in Seq(Event) /\ Len(joined) = Len(p) + 1
      /\ \A i \in 1..(Len(p) + 1) : joined[i] = IF i <= Len(p) THEN Carried(p)[i] ELSE event[i - Len(p)]
  <2> DEFINE before == Carried(p)
  <2>1. before \in Seq(Event) /\ Len(before) = Len(p)
    BY <1>2
  <2>4. event \in Seq(Event) /\ Len(event) = 1
    BY <1>4
  <2> HIDE DEF before
  <2>2. before \o event \in Seq(Event) /\ Len(before \o event) = Len(p) + 1
    <3>1. before \in Seq(Event) /\ event \in Seq(Event)
      BY <2>1, <2>4
    <3>2. before \o event \in Seq(Event) /\ Len(before \o event) = Len(before) + Len(event)
      BY <3>1, ConcatProperties
    <3> QED
      BY <2>1, <2>4, <3>2
  <2>3. \A i \in 1..(Len(p) + 1) :
           (before \o event)[i] = IF i <= Len(p) THEN before[i] ELSE event[i - Len(p)]
    <3>1. before \in Seq(Event) /\ event \in Seq(Event)
      BY <2>1, <2>4
    <3>2. \A i \in 1..(Len(before) + Len(event)) :
             (before \o event)[i] = IF i <= Len(before) THEN before[i] ELSE event[i - Len(before)]
      BY <3>1, ConcatProperties
    <3> QED
      BY <2>1, <2>4, <3>2
  <2> QED
    BY <2>2, <2>3 DEF before
<1> HIDE DEF joined
<1>6. ASSUME NEW i \in 1..(Len(p) + 1)
      PROVE  joined[i] = Carried(Append(p, n))[i]
  <2>1. CASE i <= Len(p)
    <3>1. i \in 1..Len(p)
      BY <1>0, <2>1
    <3>2. joined[i] = Carried(p)[i] /\ Carried(p)[i] = RemoteEvent(p[i])
      BY <1>2, <1>5, <2>1, <3>1
    <3>3. Carried(Append(p, n))[i] = RemoteEvent(Append(p, n)[i]) /\ Append(p, n)[i] = p[i]
      BY <1>1, <1>3, <3>1
    <3> QED
      BY <3>2, <3>3
  <2>2. CASE i = Len(p) + 1
    <3>1. ~(i <= Len(p)) /\ i - Len(p) = 1
      BY <1>0, <2>2
    <3> QED
      BY <1>1, <1>3, <1>4, <1>5, <2>2, <3>1
  <2> QED
    BY <1>0, <2>1, <2>2
<1>7. joined = Carried(Append(p, n))
  BY <1>3, <1>5, <1>6, SeqEqual
<1> QED
  BY <1>1, <1>7 DEF joined, event

\* Four sequences of events, one after the other.
AreEvents(a, b, c, d) ==
    a \in Seq(Event) /\ b \in Seq(Event) /\ c \in Seq(Event) /\ d \in Seq(Event)
Chain(a, b, c, d) == a \o b \o c \o d

\* Chains are joined in any order.
LEMMA Halves ==
    ASSUME NEW a, NEW b, NEW c, NEW d, AreEvents(a, b, c, d)
    PROVE  /\ Chain(a, b, c, d) = (a \o b) \o (c \o d)
           /\ a \o b \in Seq(Event) /\ c \o d \in Seq(Event) /\ a \o b \o c \in Seq(Event)
<1>0. a \in Seq(Event) /\ b \in Seq(Event) /\ c \in Seq(Event) /\ d \in Seq(Event)
  BY DEF AreEvents
<1>1. a \o b \in Seq(Event) /\ c \o d \in Seq(Event)
  BY <1>0, ConcatProperties
<1>2. a \o b \o c \in Seq(Event)
  BY <1>0, <1>1, ConcatProperties
<1>3. ((a \o b) \o c) \o d = (a \o b) \o (c \o d)
  BY <1>0, <1>1, Associates
<1> QED
  BY <1>1, <1>2, <1>3 DEF Chain

LEMMA AfterFirst ==
    ASSUME NEW a, NEW b, NEW c, NEW d, AreEvents(a, b, c, d)
    PROVE  Chain(a, b, c, d) = a \o (b \o (c \o d)) /\ b \o (c \o d) \in Seq(Event)
<1>0. a \in Seq(Event) /\ b \in Seq(Event) /\ c \in Seq(Event) /\ d \in Seq(Event)
  BY DEF AreEvents
<1>1. c \o d \in Seq(Event) /\ Chain(a, b, c, d) = (a \o b) \o (c \o d)
  BY Halves
<1>2. b \o (c \o d) \in Seq(Event)
  BY <1>0, <1>1, ConcatProperties
<1>3. (a \o b) \o (c \o d) = a \o (b \o (c \o d))
  BY <1>0, <1>1, Associates
<1> QED
  BY <1>1, <1>2, <1>3

\* The byte in od_kernel's hands.
Held == IF byte = 0 THEN << >> ELSE <<RemoteEvent(byte)>>

\* Only a byte that the remote user sent is dropped, and od_kernel has a byte in
\* its hands between fetching and committing it.
BytesInv ==
    /\ NoByteLost
    /\ dropped \subseteq 1..sent
    /\ flow = "fetched" <=> byte # 0

\* The places a byte passes.
LEMMA PlacesHold ==
    ASSUME RingInv
    PROVE  /\ got \in Seq(Event) /\ Queue \in Seq(Event) /\ Held \in Seq(Event)
           /\ port \in Seq(1..MaxBytes) /\ Carried(port) \in Seq(Event)
           /\ OnTheWay = Chain(got, Queue, Held, Carried(port))
           /\ byte \in 0..MaxBytes /\ sent \in 0..MaxBytes /\ sent \in Nat
<1>1. /\ got \in Seq(Event) /\ Queue \in Seq(Event) /\ port \in Seq(1..MaxBytes)
      /\ byte \in 0..MaxBytes /\ sent \in 0..MaxBytes
  BY QueueIsSequence DEF RingInv, TypeOK
<1>2. Carried(port) \in Seq(Event)
  BY <1>1, PortCarried
<1>3. Held \in Seq(Event)
  <2>1. CASE byte = 0
    BY <2>1 DEF Held
  <2>2. CASE byte # 0
    <3>1. byte \in 1..MaxBytes
      BY <1>1, <2>2, InputAssumption
    <3>2. <<RemoteEvent(byte)>> \in Seq(Event)
      BY <3>1, BytesOfGroups
    <3> QED
      BY <2>2, <3>2 DEF Held
  <2> QED
    BY <2>1, <2>2
<1>4. sent \in Nat
  BY <1>1, InputAssumption
<1> QED
  BY <1>1, <1>2, <1>3, <1>4 DEF OnTheWay, Held, Chain

\* A step that moves what is on the way, or changes nothing.
LEMMA NothingGone ==
    ASSUME BytesInv, OnTheWay' = OnTheWay, dropped' = dropped, sent' = sent,
           flow' = "fetched" <=> byte' # 0
    PROVE  BytesInv'
BY DEF BytesInv, NoByteLost

\* A step that drops the bytes of group.
LEMMA GroupGone ==
    ASSUME BytesInv, NEW s \in Seq(Event), NEW group \in Seq(Event), NEW t \in Seq(Event),
           OnTheWay = s \o (group \o t), OnTheWay' = s \o t,
           dropped' = dropped \union BytesOf(group), sent' = sent,
           flow' = "fetched" <=> byte' # 0
    PROVE  BytesInv'
<1>1. /\ InOrder(s \o t)
      /\ BytesOf(s \o t) = BytesOf(s \o (group \o t)) \ BytesOf(group)
      /\ BytesOf(group) \subseteq BytesOf(s \o (group \o t))
  BY Between DEF BytesInv, NoByteLost
<1>2. InOrder(OnTheWay') /\ BytesOf(OnTheWay') = 1..sent \ dropped'
  BY <1>1 DEF BytesInv, NoByteLost
<1>3. NoByteLost'
  <2>1. NoByteLost' <=> InOrder(OnTheWay') /\ BytesOf(OnTheWay') = 1..(sent') \ dropped'
    BY DEF NoByteLost, InOrder, BytesOf
  <2> QED
    BY <1>2, <2>1
<1>4. dropped' \subseteq 1..sent
  BY <1>1 DEF BytesInv, NoByteLost
<1> QED
  BY <1>3, <1>4 DEF BytesInv

\* The byte that is sent is the last.
LEMMA BytesSent ==
    ASSUME RingInv, BytesInv, Send
    PROVE  BytesInv'
<1> DEFINE n == sent + 1
<1>1. /\ sent' = n /\ port' = Append(port, n) /\ Queue' = Queue /\ got' = got /\ byte' = byte
      /\ dropped' = dropped /\ flow' = flow /\ sent < MaxBytes
  BY QueueStays DEF Send, history
<1>2. /\ got \in Seq(Event) /\ Queue \in Seq(Event) /\ Held \in Seq(Event)
      /\ Carried(port) \in Seq(Event) /\ port \in Seq(1..MaxBytes) /\ sent \in Nat
      /\ OnTheWay = Chain(got, Queue, Held, Carried(port))
  BY PlacesHold
<1>3. n \in 1..MaxBytes
  BY <1>1, <1>2, InputAssumption
<1>4. Carried(port') = Carried(port) \o <<RemoteEvent(n)>>
  BY <1>1, <1>2, <1>3, CarriedAppend
<1>5. /\ <<RemoteEvent(n)>> \in Seq(Event) /\ InOrder(<<RemoteEvent(n)>>)
      /\ BytesOf(<<RemoteEvent(n)>>) = {n}
  BY <1>3, BytesOfGroups
<1>6. OnTheWay' = Chain(got, Queue, Held, Carried(port'))
  BY <1>1 DEF OnTheWay, Held, Carried, Chain
<1>7. OnTheWay' = OnTheWay \o <<RemoteEvent(n)>> /\ OnTheWay \in Seq(Event)
  <2>1. got \o Queue \o Held \in Seq(Event)
    <3>1. AreEvents(got, Queue, Held, Carried(port))
      BY <1>2 DEF AreEvents
    <3> QED
      BY <3>1, Halves
  <2>2. (got \o Queue \o Held) \o (Carried(port) \o <<RemoteEvent(n)>>)
           = ((got \o Queue \o Held) \o Carried(port)) \o <<RemoteEvent(n)>>
    <3>1. Carried(port) \in Seq(Event) /\ <<RemoteEvent(n)>> \in Seq(Event)
      BY <1>2, <1>5
    <3> QED
      BY <2>1, <3>1, Associates
  <2>3. OnTheWay \in Seq(Event)
    BY <1>2, <2>1, ConcatProperties DEF Chain
  <2> QED
    BY <1>2, <1>4, <1>6, <2>2, <2>3 DEF Chain
<1>8. \A m \in BytesOf(OnTheWay) : m < n
  BY <1>2 DEF BytesInv, NoByteLost
<1>9. InOrder(OnTheWay') /\ BytesOf(OnTheWay') = (1..sent \ dropped) \union {n}
  <2>1. Ahead(OnTheWay, <<RemoteEvent(n)>>)
    BY <1>5, <1>8 DEF Ahead
  <2> QED
    BY <1>5, <1>7, <2>1, BytesJoin DEF BytesInv, NoByteLost
<1>10. (1..sent \ dropped) \union {n} = 1..n \ dropped /\ dropped \subseteq 1..n
  <2>1. 1..n = 1..sent \union {n} /\ n \notin 1..sent
    BY <1>2
  <2> QED
    BY <2>1 DEF BytesInv
<1>11. NoByteLost'
  <2>1. NoByteLost' <=> InOrder(OnTheWay') /\ BytesOf(OnTheWay') = 1..(sent') \ dropped'
    BY DEF NoByteLost, InOrder, BytesOf
  <2> QED
    BY <1>1, <1>9, <1>10, <2>1
<1> QED
  BY <1>1, <1>10, <1>11 DEF BytesInv

\* Every step keeps the bytes that are on the way, except those it drops.
LEMMA BytesStep ==
    ASSUME RingInv, RingInv', BytesInv, Next
    PROVE  BytesInv'
<1>0. /\ got \in Seq(Event) /\ Queue \in Seq(Event) /\ Held \in Seq(Event)
      /\ port \in Seq(1..MaxBytes) /\ Carried(port) \in Seq(Event) /\ << >> \in Seq(Event)
      /\ OnTheWay = Chain(got, Queue, Held, Carried(port))
      /\ byte \in 0..MaxBytes
  BY PlacesHold
<1>a. AreEvents(got, Queue, Held, Carried(port))
  BY <1>0 DEF AreEvents
<1>1. OnTheWay' = Chain(got', Queue', Held', Carried(port'))
  BY DEF OnTheWay, Held, Carried, Chain
<1>2. CASE Send
  BY <1>2, BytesSent
<1>3. CASE PressKey
  <2>1. /\ got' = got /\ port' = port /\ byte' = byte /\ dropped' = dropped /\ sent' = sent
        /\ flow' = flow /\ Held' = Held
    BY <1>3 DEF PressKey, remote, Held
  <2>2. CASE Queue' = Queue
    <3>1. OnTheWay' = OnTheWay
      BY <1>0, <1>1, <2>1, <2>2
    <3> QED
      BY <2>1, <3>1, NothingGone DEF BytesInv
  <2>3. CASE Queue' # Queue
    <3>1. PICK group \in {<<LocalEvent(pressed + 1, 0)>>,
                          <<LocalEvent(pressed + 1, 1), LocalEvent(pressed + 1, 2)>>} :
              Queue' = Queue \o group
      BY <1>3, <2>3, KeyIsAdded
    <3>2. pressed + 1 \in 1..MaxKeys
      BY <1>3, KeyIsAdded
    <3>3. group \in Seq(Event) /\ InOrder(group) /\ BytesOf(group) = {}
      BY <3>1, <3>2, KeyGroups, BytesOfGroups
    <3> DEFINE before == got \o Queue
               after == Held \o Carried(port)
    <3>4. before \in Seq(Event) /\ after \in Seq(Event) /\ OnTheWay = before \o after
      <4>1. /\ before \in Seq(Event) /\ after \in Seq(Event)
            /\ Chain(got, Queue, Held, Carried(port)) = before \o after
        BY <1>a, Halves
      <4> QED
        BY <1>0, <4>1
    <3>5. OnTheWay' = before \o (group \o after)
      <4>1. Queue \o group \in Seq(Event)
        BY <1>0, <3>3, ConcatProperties
      <4>5. AreEvents(got, Queue \o group, Held, Carried(port))
        BY <1>0, <4>1 DEF AreEvents
      <4>2. OnTheWay' = (got \o (Queue \o group)) \o after
        <5>1. Chain(got, Queue \o group, Held, Carried(port)) = (got \o (Queue \o group)) \o after
          <6> DEFINE longer == Queue \o group
          <6>1. AreEvents(got, longer, Held, Carried(port))
            BY <4>5
          <6> HIDE DEF longer
          <6>2. Chain(got, longer, Held, Carried(port)) = (got \o longer) \o (Held \o Carried(port))
            BY <6>1, Halves
          <6> QED
            BY <6>2 DEF longer
        <5> QED
          BY <1>1, <2>1, <3>1, <5>1
      <4>3. got \o (Queue \o group) = before \o group
        <5>1. got \in Seq(Event) /\ Queue \in Seq(Event) /\ group \in Seq(Event)
          BY <1>0, <3>3
        <5> QED
          BY <5>1, Associates
      <4> HIDE DEF before, after
      <4>4. (before \o group) \o after = before \o (group \o after)
        BY <3>3, <3>4, ConcatAssociative
      <4> QED
        BY <4>2, <4>3, <4>4
    <3> HIDE DEF before, after
    <3>6. InOrder(OnTheWay') /\ BytesOf(OnTheWay') = BytesOf(OnTheWay)
      BY <3>3, <3>4, <3>5, Between DEF BytesInv, NoByteLost
    <3>7. NoByteLost' <=> InOrder(OnTheWay') /\ BytesOf(OnTheWay') = 1..(sent') \ dropped'
      BY DEF NoByteLost, InOrder, BytesOf
    <3> QED
      BY <2>1, <3>6, <3>7 DEF BytesInv, NoByteLost
  <2> QED
    BY <2>2, <2>3
<1>4. CASE Fetch
  <2>1. /\ port # << >> /\ byte' = Head(port) /\ port' = Tail(port) /\ got' = got
        /\ dropped' = dropped /\ sent' = sent /\ flow = "reserved" /\ flow' = "fetched"
        /\ Queue' = Queue
    BY <1>4, QueueStays DEF Fetch, history
  <2>2. /\ Head(port) \in 1..MaxBytes /\ Tail(port) \in Seq(1..MaxBytes)
        /\ Carried(port) = <<RemoteEvent(Head(port))>> \o Carried(Tail(port))
    BY <1>0, <2>1, CarriedHead
  <2>3. Held = << >> /\ Held' = <<RemoteEvent(Head(port))>> /\ byte' # 0
    <3>1. Head(port) # 0
      BY <2>2, InputAssumption
    <3> QED
      BY <2>1, <3>1 DEF Held, BytesInv
  <2>4. Held' \in Seq(Event) /\ Carried(Tail(port)) \in Seq(Event)
    BY <2>2, <2>3, BytesOfGroups, PortCarried
  <2>5. OnTheWay = (got \o Queue) \o (Held' \o Carried(Tail(port)))
    <3>1. OnTheWay = (got \o Queue) \o (Held \o Carried(port))
      <4>1. Chain(got, Queue, Held, Carried(port)) = (got \o Queue) \o (Held \o Carried(port))
        BY <1>a, Halves
      <4> QED
        BY <1>0, <4>1
    <3>2. Held \o Carried(port) = Carried(port)
      BY <1>0, <2>3, ConcatEmptySeq
    <3> QED
      BY <2>2, <2>3, <3>1, <3>2
  <2>6. OnTheWay' = (got \o Queue) \o (Held' \o Carried(Tail(port)))
    <3>1. AreEvents(got, Queue, Held', Carried(Tail(port)))
      BY <1>0, <2>4 DEF AreEvents
    <3>2. Chain(got, Queue, Held', Carried(Tail(port))) = (got \o Queue) \o (Held' \o Carried(Tail(port)))
      BY <3>1, Halves
    <3> QED
      BY <1>1, <2>1, <3>2
  <2> QED
    BY <2>1, <2>3, <2>5, <2>6, NothingGone
<1>5. CASE Commit
  <2>1. /\ byte' = 0 /\ port' = port /\ got' = got /\ dropped' = dropped /\ sent' = sent
        /\ flow = "fetched" /\ flow' = "application"
    BY <1>5 DEF Commit, history
  <2>2. Queue' = Queue \o Held /\ Held' = << >>
    BY <1>5, <2>1, ByteIsAdded DEF Held, BytesInv
  <2>3. OnTheWay' = (got \o (Queue \o Held)) \o Carried(port)
    <3>1. got \o (Queue \o Held) \in Seq(Event)
      BY <1>0, ConcatProperties
    <3>2. OnTheWay' = ((got \o (Queue \o Held)) \o << >>) \o Carried(port)
      BY <1>1, <2>1, <2>2 DEF Chain
    <3>3. (got \o (Queue \o Held)) \o << >> = got \o (Queue \o Held)
      BY <3>1, ConcatEmptySeq
    <3> QED
      BY <3>2, <3>3
  <2>4. got \o (Queue \o Held) = got \o Queue \o Held
    <3>1. got \in Seq(Event) /\ Queue \in Seq(Event) /\ Held \in Seq(Event)
      BY <1>0
    <3> QED
      BY <3>1, Associates
  <2>5. OnTheWay' = OnTheWay
    BY <1>0, <2>3, <2>4 DEF Chain
  <2> QED
    BY <2>1, <2>5, NothingGone
<1>6. CASE Ignore
  <2>1. /\ flow = "application" /\ flow' = flow /\ byte' = byte /\ sent' = sent /\ got' = got
        /\ port # << >> /\ port' = Tail(port) /\ dropped' = dropped \union {Head(port)}
        /\ Queue' = Queue /\ Held' = Held
    BY <1>6, QueueStays DEF Ignore, Held
  <2>2. /\ Head(port) \in 1..MaxBytes /\ Tail(port) \in Seq(1..MaxBytes)
        /\ Carried(port) = <<RemoteEvent(Head(port))>> \o Carried(Tail(port))
    BY <1>0, <2>1, CarriedHead
  <2>3. /\ <<RemoteEvent(Head(port))>> \in Seq(Event) /\ Carried(Tail(port)) \in Seq(Event)
        /\ BytesOf(<<RemoteEvent(Head(port))>>) = {Head(port)}
    BY <2>2, BytesOfGroups, PortCarried
  <2>4. got \o Queue \o Held \in Seq(Event)
    BY <1>a, Halves
  <2>5. OnTheWay' = (got \o Queue \o Held) \o Carried(Tail(port))
    BY <1>1, <2>1 DEF Chain
  <2>6. flow' = "fetched" <=> byte' # 0
    BY <2>1 DEF BytesInv
  <2> QED
    BY <1>0, <2>1, <2>2, <2>3, <2>4, <2>5, <2>6, GroupGone DEF Chain
<1>7. CASE Take
  <2>1. Queue # << >> /\ ring[out] = Head(Queue) /\ Queue' = Tail(Queue)
    BY <1>7, HeadIsTaken
  <2>2. /\ got' = Append(got, Head(Queue)) /\ flow = "taking" /\ flow' = "application"
        /\ byte' = byte /\ port' = port /\ sent' = sent /\ dropped' = dropped /\ Held' = Held
    BY <1>7, <2>1 DEF Take, remote, Held
  <2>3. got' \o Queue' = got \o Queue
    BY <1>0, <2>1, <2>2, HeadMoves
  <2>4. OnTheWay' = OnTheWay
    BY <1>0, <1>1, <2>2, <2>3 DEF Chain
  <2> QED
    BY <2>2, <2>4, NothingGone DEF BytesInv
<1>8. CASE Discard
  <2>1. Queue # << >> /\ ring[out] = Head(Queue) /\ Queue' = Tail(Queue)
    BY <1>8, HeadIsTaken
  <2>2. /\ flow = "discarding" /\ flow' = "clearing" /\ byte' = byte /\ port' = port
        /\ sent' = sent /\ got' = got /\ Held' = Held
        /\ dropped' = dropped \union (IF Head(Queue).remote THEN {Head(Queue).n} ELSE {})
    BY <1>8, <2>1 DEF Discard, remote, Held
  <2>3. Head(Queue) \in Event /\ Tail(Queue) \in Seq(Event) /\ <<Head(Queue)>> \in Seq(Event)
        /\ Queue = <<Head(Queue)>> \o Tail(Queue)
    BY <1>0, <2>1, HeadTailProperties, ConcatProperties
  <2>4. dropped' = dropped \union BytesOf(<<Head(Queue)>>)
    BY <2>2, <2>3, BytesOfGroups
  <2> DEFINE after == Tail(Queue) \o (Held \o Carried(port))
             first == <<Head(Queue)>>
  <2>5. after \in Seq(Event) /\ OnTheWay' = got \o after
    <3>1. AreEvents(got, Tail(Queue), Held, Carried(port))
      BY <1>0, <2>3 DEF AreEvents
    <3>2. after \in Seq(Event) /\ Chain(got, Tail(Queue), Held, Carried(port)) = got \o after
      <4> DEFINE rest == Tail(Queue)
      <4>1. AreEvents(got, rest, Held, Carried(port))
        BY <3>1
      <4> HIDE DEF rest
      <4>2. rest \o (Held \o Carried(port)) \in Seq(Event)
        BY <4>1, AfterFirst
      <4>3. Chain(got, rest, Held, Carried(port)) = got \o (rest \o (Held \o Carried(port)))
        BY <4>1, AfterFirst
      <4> QED
        BY <4>2, <4>3 DEF rest
    <3> QED
      BY <1>1, <2>1, <2>2, <3>2
  <2>6. OnTheWay = got \o (first \o after)
    <3>1. OnTheWay = got \o (Queue \o (Held \o Carried(port))) /\ Held \o Carried(port) \in Seq(Event)
      <4>1. Chain(got, Queue, Held, Carried(port)) = got \o (Queue \o (Held \o Carried(port)))
        BY <1>a, AfterFirst
      <4>2. Held \o Carried(port) \in Seq(Event)
        BY <1>a, Halves
      <4> QED
        BY <1>0, <4>1, <4>2
    <3>2. (first \o Tail(Queue)) \o (Held \o Carried(port)) = first \o after
      <4>1. /\ first \in Seq(Event) /\ Tail(Queue) \in Seq(Event)
            /\ Held \o Carried(port) \in Seq(Event)
        BY <2>3, <3>1
      <4> QED
        BY <4>1, Associates
    <3> QED
      BY <2>3, <3>1, <3>2
  <2>7. flow' = "fetched" <=> byte' # 0
    BY <2>2 DEF BytesInv
  <2>8. first \in Seq(Event) /\ dropped' = dropped \union BytesOf(first)
    BY <2>3, <2>4
  <2> HIDE DEF after, first
  <2> QED
    BY <1>0, <2>2, <2>5, <2>6, <2>7, <2>8, GroupGone
<1>9. CASE Purge
  <2>1. /\ flow = "purging" /\ flow' = "application" /\ byte' = byte /\ sent' = sent /\ got' = got
        /\ port' = << >> /\ dropped' = dropped \union ToSet(port)
        /\ Queue' = Queue /\ Held' = Held
    BY <1>9, QueueStays DEF Purge, Held
  <2>2. BytesOf(Carried(port)) = ToSet(port)
    BY <1>0, PortCarried
  <2>3. Carried(port') = << >>
    BY <2>1 DEF Carried
  <2>4. got \o Queue \o Held \in Seq(Event)
    BY <1>a, Halves
  <2>5. OnTheWay' = (got \o Queue \o Held) \o << >>
    BY <1>1, <2>1, <2>3 DEF Chain
  <2>6. OnTheWay = (got \o Queue \o Held) \o (Carried(port) \o << >>)
    BY <1>0, ConcatEmptySeq DEF Chain
  <2>7. flow' = "fetched" <=> byte' # 0
    BY <2>1 DEF BytesInv
  <2> QED
    BY <1>0, <2>1, <2>2, <2>4, <2>5, <2>6, <2>7, GroupGone
<1>10. CASE \/ Reserve \/ Cancel \/ ToggleKeyboard \/ Await \/ BeginClear \/ ClearAwait
            \/ Emptied
  <2>1. Queue' = Queue
    BY <1>10, QueueStays
  <2>2. /\ got' = got /\ byte' = byte /\ port' = port /\ sent' = sent /\ dropped' = dropped
        /\ flow # "fetched" /\ flow' # "fetched"
    BY <1>10 DEF Reserve, Cancel, ToggleKeyboard, Await, BeginClear, ClearAwait, Down, Emptied,
       remote, history
  <2>3. OnTheWay' = OnTheWay
    BY <2>1, <2>2 DEF OnTheWay
  <2> QED
    BY <2>2, <2>3, NothingGone DEF BytesInv
<1> QED
  BY <1>2, <1>3, <1>4, <1>5, <1>6, <1>7, <1>8, <1>9, <1>10
  DEF Next, KernelStep, ReadStep, ClearStep

\* Every byte of the remote user is in the port, in the hands of od_kernel, in the
\* queue or read, in the order it was sent, unless the application had input
\* dropped: od_kernel takes a byte from the port only into a place it reserved,
\* and the keys of the sysop leave that place free.
THEOREM BytesKept == Spec => []NoByteLost
<1>1. Init => BytesInv
  <2> SUFFICES ASSUME Init PROVE BytesInv
    OBVIOUS
  <2>1. /\ got = << >> /\ Queue = << >> /\ byte = 0 /\ port = << >> /\ sent = 0 /\ dropped = {}
        /\ flow = "application"
    BY FifoInit DEF Init, Fifo!Init
  <2>2. OnTheWay = << >>
    BY <2>1 DEF OnTheWay, Carried
  <2>3. Len(<< >>) = 0
    OBVIOUS
  <2>4. InOrder(<< >>) /\ BytesOf(<< >>) = {}
    BY <2>3 DEF InOrder, BytesOf
  <2>5. 1..0 = {}
    OBVIOUS
  <2> QED
    BY <2>1, <2>2, <2>4, <2>5 DEF BytesInv, NoByteLost
<1>2. RingInv /\ RingInv' /\ BytesInv /\ [Next]_vars => BytesInv'
  <2>1. ASSUME UNCHANGED vars, BytesInv PROVE BytesInv'
    <3>1. /\ Queue' = Queue /\ got' = got /\ byte' = byte /\ port' = port /\ sent' = sent
          /\ dropped' = dropped /\ flow' = flow
      BY <2>1, SameQueue DEF vars, history, remote
    <3>2. OnTheWay' = OnTheWay
      BY <3>1 DEF OnTheWay
    <3> QED
      BY <2>1, <3>1, <3>2, NothingGone DEF BytesInv
  <2> QED
    BY <2>1, BytesStep
<1>3. BytesInv => NoByteLost
  BY DEF BytesInv
<1> QED
  BY <1>1, <1>2, <1>3, RingInvariant, PTL DEF Spec

=============================================================================
