---------------------------- MODULE TimerProofs ----------------------------
(***************************************************************************)
(* Theorems about the timer wheel, for every size of the wheel and the      *)
(* slab, every set of marks and every tick length.                          *)
(***************************************************************************)
EXTENDS Timer, TLAPS

\* tick & mask is a slot of the wheel.
LEMMA SlotInRange == \A t \in Nat : SlotFor(t) \in 0 .. Slots - 1
  BY WheelAssumption DEF SlotFor

\* Rounding a time up gives a tick number.
LEMMA TickOfIsTick ==
  ASSUME TypeOK, NEW at \in Nat
  PROVE  TickOf(at) \in Nat
<1>1. (at + TickMs - 1) \div TickMs \in Nat
  BY WheelAssumption
<1> QED  BY <1>1 DEF TickOf, TypeOK

----------------------------------------------------------------------------
(* Ticks and slots *)

LEMMA ModSplit ==
  ASSUME NEW x \in Int, NEW n \in Nat \ {0}
  PROVE  /\ x \div n \in Int /\ x % n \in 0 .. n - 1
         /\ x = n * (x \div n) + (x % n)
  OBVIOUS

\* Of n numbers in a row no two are congruent.
LEMMA ModUnique ==
  ASSUME NEW a \in Nat, NEW b \in Nat, NEW n \in Nat \ {0},
         a % n = b % n, a <= b, b < a + n
  PROVE  a = b
<1> DEFINE i == a \div n
           j == b \div n
           r == a % n
<1>1. i \in Int /\ j \in Int /\ a = n * i + r /\ b = n * j + r /\ r \in Int
  BY ModSplit
<1> HIDE DEF i, j, r
<1>2. b - a = n * (j - i)
  BY <1>1
<1>3. j - i \in Int
  BY <1>1
<1>4. CASE j - i >= 1
  <2>1. n * (j - i) >= n
    BY <1>3, <1>4
  <2> QED BY <2>1, <1>2
<1>5. CASE j - i <= 0
  <2>1. n * (j - i) <= 0
    BY <1>3, <1>5
  <2> QED BY <2>1, <1>2
<1> QED  BY <1>3, <1>4, <1>5

\* Going round the wheel leads back to the same slot.
LEMMA ModShift ==
  ASSUME NEW x \in Int, NEW y \in Int, NEW q \in Int, NEW n \in Nat \ {0}, y = x + n * q
  PROVE  x % n = y % n
<1> DEFINE u == x \div n
           v == y \div n
           e == x % n
           f == y % n
           w == (v - u) - q
<1>1. u \in Int /\ e \in 0 .. n - 1 /\ x = n * u + e
  BY ModSplit
<1>2. v \in Int /\ f \in 0 .. n - 1 /\ y = n * v + f
  BY ModSplit
<1> HIDE DEF u, v, e, f
<1>3. w \in Int
  BY <1>1, <1>2
<1>4. e - f = n * w
  BY <1>1, <1>2
<1> HIDE DEF w
<1>5. CASE w >= 1
  <2>1. n * w >= n
    BY <1>3, <1>5
  <2> QED  BY <2>1, <1>1, <1>2, <1>4
<1>6. CASE w <= -1
  <2>1. n * w <= -n
    BY <1>3, <1>6
  <2> QED  BY <2>1, <1>1, <1>2, <1>4
<1>7. CASE w = 0
  BY <1>1, <1>2, <1>4, <1>7 DEF e, f
<1> QED  BY <1>3, <1>5, <1>6, <1>7

\* The tick an entry is met in is the next one of its slot.
LEMMA DueAhead ==
  ASSUME NEW t \in Nat, TypeOK
  PROVE  /\ Due(t) \in Nat /\ Due(t) > tick /\ SlotFor(Due(t)) = SlotFor(t)
         /\ t > tick => Due(t) = t
         /\ t <= tick => Due(t) <= tick + Slots
<1>1. tick \in Nat /\ Slots \in Nat \ {0}
  BY WheelAssumption DEF TypeOK
<1>2. CASE t > tick
  BY <1>1, <1>2 DEF Due
<1>3. CASE t <= tick
  <2> DEFINE b == t - tick - 1
  <2>1. b \in Int
    BY <1>1
  <2> HIDE DEF b
  <2>2. /\ b \div Slots \in Int /\ b % Slots \in 0 .. Slots - 1
        /\ b = Slots * (b \div Slots) + (b % Slots)
    BY <1>1, <2>1, ModSplit
  <2>3. Due(t) = (tick + 1) + (b % Slots)
    BY <1>1, <1>3 DEF Due, b
  <2>4. Due(t) \in Nat /\ Due(t) > tick /\ Due(t) <= tick + Slots
    BY <1>1, <2>2, <2>3
  <2>5. t = Due(t) + Slots * (b \div Slots)
    <3>1. t = (tick + 1) + b
      BY <1>1 DEF b
    <3> QED  BY <1>1, <2>1, <2>2, <2>3, <3>1
  <2>6. Due(t) % Slots = t % Slots
    <3>1. b \div Slots \in Int
      BY <2>2
    <3> DEFINE d == Due(t)
               q == b \div Slots
    <3>2. d \in Int /\ q \in Int /\ t \in Int /\ t = d + Slots * q
      BY <2>4, <2>5, <3>1
    <3> HIDE DEF d, q
    <3>3. d % Slots = t % Slots
      BY ZenonT(60), <1>1, <3>2, ModShift
    <3> QED  BY <3>3 DEF d
  <2> QED  BY <1>1, <1>3, <2>4, <2>6 DEF SlotFor
<1> QED  BY <1>1, <1>2, <1>3

----------------------------------------------------------------------------
(* The two operations on the lists *)

\* The entries and heads after Insert: one new head, and the old head of the
\* slot points back to it.
LEMMA InsertEffect ==
  ASSUME TypeOK, LinksSound,
         NEW key \in Keys \ Live, NEW m \in Marks, NEW t \in Nat,
         NEW interval \in Intervals \cup {0}, Insert(key, m, t, interval)
  PROVE  /\ entries' \in [Keys -> Entry \cup {Vacant}]
         /\ wheel' \in [0 .. Slots - 1 -> Link]
         /\ Live' = Live \cup {key}
         /\ entries'[key].mark = m /\ entries'[key].interval = interval
         /\ entries'[key].tick = t /\ entries'[key].due = Due(t)
         /\ entries'[key].prev = Empty /\ entries'[key].next = wheel[SlotFor(t)]
         /\ \A k \in Live :
              /\ entries'[k].mark = entries[k].mark
              /\ entries'[k].interval = entries[k].interval
              /\ entries'[k].tick = entries[k].tick
              /\ entries'[k].due = entries[k].due
              /\ entries'[k].next = entries[k].next
              /\ entries'[k].prev = IF k = wheel[SlotFor(t)] THEN key ELSE entries[k].prev
         /\ \A s \in 0 .. Slots - 1 :
              wheel'[s] = IF s = SlotFor(t) THEN key ELSE wheel[s]
         /\ tick' = tick /\ next' = next
<1> DEFINE curr == wheel[SlotFor(t)]
           e == [mark |-> m, interval |-> interval, tick |-> t, due |-> Due(t),
                 prev |-> Empty, next |-> curr]
<1>1. SlotFor(t) \in 0 .. Slots - 1
  BY SlotInRange
<1>2. curr \in Link /\ (curr # Empty => curr \in Live)
  BY <1>1 DEF TypeOK, LinksSound
<1>3. e \in Entry
  BY <1>2, DueAhead DEF Entry, Link
<1>4. Live \subseteq Keys /\ \A k \in Live : entries[k] \in Entry
  BY DEF Live, TypeOK
<1>5. \A k \in Live : [entries[k] EXCEPT !.prev = key] \in Entry
  BY <1>4 DEF Entry, Link
<1>6. entries'[key] = e /\ \A k \in Keys \ {key} :
        entries'[k] = IF k = curr THEN [entries[k] EXCEPT !.prev = key] ELSE entries[k]
  BY DEF Insert
<1>7. \A k \in Live : entries'[k] \in Entry
  BY <1>4, <1>5, <1>6
<1>8. \A k \in Keys \ (Live \cup {key}) : entries'[k] = Vacant
  <2> SUFFICES ASSUME NEW k \in Keys \ (Live \cup {key})  PROVE entries'[k] = Vacant
    OBVIOUS
  <2>1. k # curr
    BY <1>2, NullAssumption
  <2>2. entries'[k] = entries[k]
    BY <2>1, <1>6
  <2> QED  BY <2>2 DEF Live
<1>9. Live' = Live \cup {key}
  BY <1>3, <1>4, <1>6, <1>7, <1>8, NullAssumption DEF Live
<1>10. entries' \in [Keys -> Entry \cup {Vacant}]
  <2>1. entries' = [k \in Keys |-> entries'[k]]
    BY DEF Insert
  <2> QED  BY <2>1, <1>3, <1>6, <1>7, <1>8
<1>11. \A k \in Live :
         /\ entries'[k].mark = entries[k].mark
         /\ entries'[k].interval = entries[k].interval
         /\ entries'[k].tick = entries[k].tick
         /\ entries'[k].due = entries[k].due
         /\ entries'[k].next = entries[k].next
         /\ entries'[k].prev = IF k = curr THEN key ELSE entries[k].prev
  BY <1>4, <1>6 DEF Entry
<1>12. wheel' \in [0 .. Slots - 1 -> Link]
  BY <1>1 DEF Insert, TypeOK, Link
<1>13. \A s \in 0 .. Slots - 1 : wheel'[s] = IF s = SlotFor(t) THEN key ELSE wheel[s]
  BY <1>1 DEF Insert, TypeOK
<1> QED  BY <1>6, <1>9, <1>10, <1>11, <1>12, <1>13 DEF Insert

\* The entries, heads and cursor after Remove: the neighbours close up.
LEMMA RemoveEffect ==
  ASSUME TypeOK, LinksSound, NEW before, ListsInOrder(before),
         NEW key \in Live, Remove(key)
  PROVE  /\ entries' \in [Keys -> Entry \cup {Vacant}]
         /\ wheel' \in [0 .. Slots - 1 -> Link]
         /\ Live' = Live \ {key}
         /\ \A k \in Live \ {key} :
              /\ entries'[k].mark = entries[k].mark
              /\ entries'[k].interval = entries[k].interval
              /\ entries'[k].tick = entries[k].tick
              /\ entries'[k].due = entries[k].due
              /\ entries'[k].next =
                   IF k = entries[key].prev THEN entries[key].next ELSE entries[k].next
              /\ entries'[k].prev =
                   IF k = entries[key].next THEN entries[key].prev ELSE entries[k].prev
         /\ \A s \in 0 .. Slots - 1 :
              wheel'[s] = IF s = SlotFor(entries[key].tick) /\ entries[key].prev = Empty
                            THEN entries[key].next ELSE wheel[s]
         /\ tick' = tick
         /\ next' = IF key = next THEN entries[key].next ELSE next
<1> DEFINE e == entries[key]
<1>1. Live \subseteq Keys /\ \A k \in Live : entries[k] \in Entry
  BY DEF Live, TypeOK
<1>2. e \in Entry /\ e.tick \in Nat /\ e.prev \in Link /\ e.next \in Link
  BY <1>1 DEF Entry
<1>3. SlotFor(e.tick) \in 0 .. Slots - 1
  BY <1>2, SlotInRange
<1>4. (e.prev # Empty => e.prev \in Live) /\ (e.next # Empty => e.next \in Live)
  BY DEF LinksSound
<1>order. /\ \A j \in Live : entries[j].next # Empty => <<j, entries[j].next>> \in before
      /\ \A j, k \in Live : ~(<<j, k>> \in before /\ <<k, j>> \in before)
  BY DEF ListsInOrder
<1>back. e.prev # Empty => entries[e.prev].next = key
  BY DEF LinksSound
<1>nonnull. key # Empty
  BY <1>1, NullAssumption
<1>5. e.prev # Empty => e.prev # e.next
  BY <1>order, <1>back, <1>nonnull, <1>4
<1>6. e.prev # key /\ e.next # key
  <2>1. e.next # key
    BY <1>order, <1>nonnull
  <2> QED  BY <2>1, <1>back, <1>nonnull
<1>7. entries' = [k \in Keys |-> entries'[k]] /\ entries'[key] = Vacant
  BY DEF Remove, Live
<1>8. \A k \in Live \ {key} :
        entries'[k] = IF k = e.prev THEN [entries[k] EXCEPT !.next = e.next]
                      ELSE IF k = e.next THEN [entries[k] EXCEPT !.prev = e.prev]
                      ELSE entries[k]
  BY <1>1 DEF Remove
<1>9. \A k \in Keys \ Live : entries'[k] = Vacant
  <2> SUFFICES ASSUME NEW k \in Keys \ Live  PROVE entries'[k] = Vacant
    OBVIOUS
  <2>1. k # e.prev /\ k # e.next
    BY <1>4, NullAssumption
  <2> QED  BY <2>1 DEF Remove, Live
<1>10. \A k \in Live : /\ [entries[k] EXCEPT !.next = e.next] \in Entry
                        /\ [entries[k] EXCEPT !.prev = e.prev] \in Entry
  BY <1>1, <1>2 DEF Entry
<1>11. \A k \in Live \ {key} : entries'[k] \in Entry
  BY <1>1, <1>8, <1>10
<1>12. Live' = Live \ {key}
  BY <1>1, <1>7, <1>9, <1>11, NullAssumption DEF Live
<1>13. entries' \in [Keys -> Entry \cup {Vacant}]
  BY <1>7, <1>9, <1>11
<1>14. \A k \in Live \ {key} :
         /\ entries'[k].mark = entries[k].mark
         /\ entries'[k].interval = entries[k].interval
         /\ entries'[k].tick = entries[k].tick
         /\ entries'[k].due = entries[k].due
         /\ entries'[k].next = IF k = e.prev THEN e.next ELSE entries[k].next
         /\ entries'[k].prev = IF k = e.next THEN e.prev ELSE entries[k].prev
  <2> SUFFICES ASSUME NEW k \in Live \ {key}
               PROVE  /\ entries'[k].mark = entries[k].mark
                      /\ entries'[k].interval = entries[k].interval
                      /\ entries'[k].tick = entries[k].tick
                      /\ entries'[k].due = entries[k].due
                      /\ entries'[k].next = IF k = e.prev THEN e.next ELSE entries[k].next
                      /\ entries'[k].prev = IF k = e.next THEN e.prev ELSE entries[k].prev
    OBVIOUS
  <2>1. entries[k] \in Entry
    BY <1>1
  <2>2. CASE k = e.prev
    <3>1. k # e.next
      BY <2>2, <1>5, NullAssumption, <1>1
    <3> QED  BY <2>1, <2>2, <3>1, <1>8 DEF Entry
  <2>3. CASE k # e.prev /\ k = e.next
    BY <2>1, <2>3, <1>8 DEF Entry
  <2>4. CASE k # e.prev /\ k # e.next
    BY <2>1, <2>4, <1>8
  <2> QED  BY <2>2, <2>3, <2>4
<1>15. wheel' \in [0 .. Slots - 1 -> Link]
  BY <1>2, <1>3 DEF Remove, TypeOK
<1>16. \A s \in 0 .. Slots - 1 :
         wheel'[s] = IF s = SlotFor(e.tick) /\ e.prev = Empty THEN e.next ELSE wheel[s]
  BY <1>3 DEF Remove, TypeOK
<1> QED  BY <1>12, <1>13, <1>14, <1>15, <1>16 DEF Remove

\* The order of the lists after key became the head of its slot.
InFront(key, before) ==
  {p \in Keys \X Keys : p[2] # key /\ (p[1] = key \/ p \in before)}

LEMMA InFrontPairs ==
  ASSUME NEW key \in Keys, NEW before
  PROVE  \A j, k \in Keys :
           <<j, k>> \in InFront(key, before) <=> k # key /\ (j = key \/ <<j, k>> \in before)
  BY DEF InFront

\* Insert keeps every link sound.
LEMMA InsertKeepsLinks ==
  ASSUME TypeOK, LinksSound,
         NEW key \in Keys \ Live, NEW m \in Marks, NEW t \in Nat,
         NEW interval \in Intervals \cup {0}, Insert(key, m, t, interval)
  PROVE  LinksSound'
<1> DEFINE curr == wheel[SlotFor(t)]
<1>1. SlotFor(t) \in 0 .. Slots - 1
  BY SlotInRange
<1>2. \A k \in Live : entries[k].tick \in Nat /\ SlotFor(entries[k].tick) \in 0 .. Slots - 1
  BY SlotInRange DEF TypeOK, Live, Entry
<1>3. Live \subseteq Keys /\ key \in Keys /\ key \notin Live
      /\ key # Empty /\ Empty \notin Live
  BY NullAssumption DEF Live
<1> DEFINE HeadOK(s) == wheel[s] # Empty => /\ wheel[s] \in Live
                                           /\ SlotFor(entries[wheel[s]].tick) = s
                                           /\ entries[wheel[s]].prev = Empty
           EntryOK(k) ==
             /\ entries[k].prev = Empty => wheel[SlotFor(entries[k].tick)] = k
             /\ entries[k].prev # Empty =>
                  entries[k].prev \in Live /\ entries[entries[k].prev].next = k
             /\ entries[k].next # Empty =>
                  /\ entries[k].next \in Live
                  /\ entries[entries[k].next].prev = k
                  /\ SlotFor(entries[entries[k].next].tick) = SlotFor(entries[k].tick)
<1>4. (\A s \in 0 .. Slots - 1 : HeadOK(s)) /\ \A k \in Live : EntryOK(k)
  BY DEF LinksSound
<1>5. ASSUME NEW s \in 0 .. Slots - 1  PROVE HeadOK(s)'
  <2>1. CASE s = SlotFor(t)
    BY <2>1, InsertEffect
  <2>2. CASE s # SlotFor(t)
    <3>1. wheel'[s] = wheel[s]
      BY <2>2, InsertEffect
    <3>2. wheel[s] # Empty => wheel[s] # curr
      BY <2>2, <1>4, <1>1
    <3> QED  BY <3>1, <3>2, <1>4, InsertEffect
  <2> QED  BY <2>1, <2>2
<1>6. ASSUME NEW k \in Live'  PROVE EntryOK(k)'
  <2>1. CASE k = key
    <3>1. curr # Empty => curr \in Live /\ SlotFor(entries[curr].tick) = SlotFor(t)
      BY <1>1, <1>4
    <3> QED  BY <2>1, <3>1, <1>1, <1>3, InsertEffect
  <2>2. CASE k \in Live /\ k = curr
    <3>1. EntryOK(k)
      BY <2>2, <1>4
    <3> QED  BY <2>2, <3>1, <1>1, <1>3, <1>4, InsertEffect
  <2>3. CASE k \in Live /\ k # curr
    <3>1. EntryOK(k) /\ SlotFor(entries[k].tick) \in 0 .. Slots - 1
      BY <2>3, <1>2, <1>4
    <3>2. entries[k].next # curr \/ curr = Empty
      BY <2>3, <3>1, <1>1, <1>3, <1>4
    <3> QED  BY <2>3, <3>1, <3>2, <1>1, <1>3, <1>4, InsertEffect
  <2> QED  BY <2>1, <2>2, <2>3, InsertEffect
<1>7. next' # Empty => next' \in Live' /\ SlotFor(entries'[next'].tick) = SlotFor(tick')
  BY InsertEffect DEF LinksSound
<1> QED  BY <1>5, <1>6, <1>7 DEF LinksSound

\* Insert keeps the lists ordered, with the new entry in front.
LEMMA InsertKeepsOrder ==
  ASSUME TypeOK, LinksSound, NEW before, ListsInOrder(before),
         NEW key \in Keys \ Live, NEW m \in Marks, NEW t \in Nat,
         NEW interval \in Intervals \cup {0}, Insert(key, m, t, interval)
  PROVE  ListsInOrder(InFront(key, before))'
<1> DEFINE after == InFront(key, before)
           curr == wheel[SlotFor(t)]
           HeadFirst(k, ord) ==
             LET h == wheel[SlotFor(entries[k].tick)]
             IN  h # Empty /\ (h = k \/ <<h, k>> \in ord)
           NoGap(j, k, ord) ==
             SlotFor(entries[j].tick) = SlotFor(entries[k].tick) /\ <<j, k>> \in ord
               => LET n == entries[j].next IN n # Empty /\ (n = k \/ <<n, k>> \in ord)
<1>1. Live \subseteq Keys /\ key \in Keys /\ key \notin Live
      /\ key # Empty /\ Empty \notin Live
  BY NullAssumption DEF Live
<1>2. \A j, k \in Keys : <<j, k>> \in after <=> k # key /\ (j = key \/ <<j, k>> \in before)
  BY InFrontPairs
<1>3. Live' = Live \cup {key}
  BY InsertEffect
<1>4. \A k \in Live : entries[k].tick \in Nat /\ SlotFor(entries[k].tick) \in 0 .. Slots - 1
  BY SlotInRange DEF TypeOK, Live, Entry
<1>5. SlotFor(t) \in 0 .. Slots - 1
  BY SlotInRange
<1>6. /\ \A k \in Live : HeadFirst(k, before)
      /\ \A j, k \in Live : NoGap(j, k, before)
      /\ \A j \in Live : entries[j].next # Empty => <<j, entries[j].next>> \in before
      /\ \A j, k \in Live : j # k => (<<j, k>> \in before \/ <<k, j>> \in before)
      /\ \A j, k \in Live : ~(<<j, k>> \in before /\ <<k, j>> \in before)
      /\ \A i, j, k \in Live : <<i, j>> \in before /\ <<j, k>> \in before => <<i, k>> \in before
  BY DEF ListsInOrder
<1>7. \A k \in Live : /\ entries[k].next # Empty => entries[k].next \in Live
                      /\ wheel[SlotFor(entries[k].tick)] \in Live \cup {Empty}
  BY <1>4 DEF LinksSound
<1>8. curr # Empty => curr \in Live /\ SlotFor(entries[curr].tick) = SlotFor(t)
  BY <1>5 DEF LinksSound
<1>9. /\ \A j, k \in Live' : j # k => (<<j, k>> \in after \/ <<k, j>> \in after)
      /\ \A j, k \in Live' : ~(<<j, k>> \in after /\ <<k, j>> \in after)
      /\ \A i, j, k \in Live' : <<i, j>> \in after /\ <<j, k>> \in after => <<i, k>> \in after
  BY <1>1, <1>2, <1>3, <1>6
<1>10. ASSUME NEW k \in Live'  PROVE HeadFirst(k, after)'
  <2>1. CASE k = key
    BY <2>1, <1>1, <1>5, InsertEffect
  <2>2. CASE k \in Live /\ SlotFor(entries[k].tick) = SlotFor(t)
    BY <2>2, <1>1, <1>2, <1>5, InsertEffect
  <2>3. CASE k \in Live /\ SlotFor(entries[k].tick) # SlotFor(t)
    BY <2>3, <1>1, <1>2, <1>4, <1>6, <1>7, InsertEffect
  <2> QED  BY <2>1, <2>2, <2>3, <1>3
<1>11. ASSUME NEW j \in Live', NEW k \in Live'  PROVE NoGap(j, k, after)'
  <2>1. CASE j = key /\ k \in Live
    <3>1. HeadFirst(k, before)
      BY <2>1, <1>6
    <3> QED  BY <2>1, <3>1, <1>1, <1>2, <1>8, InsertEffect
  <2>2. CASE k = key
    BY <2>2, <1>1, <1>2, <1>3
  <2>3. CASE j \in Live /\ k \in Live
    <3>1. NoGap(j, k, before)
      BY <2>3, <1>6
    <3> QED  BY <2>3, <3>1, <1>1, <1>2, <1>7, InsertEffect
  <2> QED  BY <2>1, <2>2, <2>3, <1>3
<1>12. ASSUME NEW j \in Live', entries'[j].next # Empty
       PROVE  <<j, entries'[j].next>> \in after
  <2>1. CASE j = key
    BY <2>1, <1>1, <1>2, <1>8, <1>12, InsertEffect
  <2>2. CASE j \in Live
    BY <2>2, <1>1, <1>2, <1>6, <1>7, <1>12, InsertEffect
  <2> QED  BY <2>1, <2>2, <1>3
<1> QED  BY <1>9, <1>10, <1>11, <1>12 DEF ListsInOrder

\* Remove keeps every link sound, wherever in its list the entry is.
LEMMA RemoveKeepsLinks ==
  ASSUME TypeOK, LinksSound, NEW before, ListsInOrder(before),
         NEW key \in Live, Remove(key)
  PROVE  LinksSound'
<1> DEFINE e == entries[key]
           HeadOK(s) == wheel[s] # Empty => /\ wheel[s] \in Live
                                           /\ SlotFor(entries[wheel[s]].tick) = s
                                           /\ entries[wheel[s]].prev = Empty
           EntryOK(k) ==
             /\ entries[k].prev = Empty => wheel[SlotFor(entries[k].tick)] = k
             /\ entries[k].prev # Empty =>
                  entries[k].prev \in Live /\ entries[entries[k].prev].next = k
             /\ entries[k].next # Empty =>
                  /\ entries[k].next \in Live
                  /\ entries[entries[k].next].prev = k
                  /\ SlotFor(entries[entries[k].next].tick) = SlotFor(entries[k].tick)
<1>1. \A k \in Live : entries[k].tick \in Nat /\ SlotFor(entries[k].tick) \in 0 .. Slots - 1
  BY SlotInRange DEF TypeOK, Live, Entry
<1>2. Live \subseteq Keys /\ Empty \notin Live
  BY NullAssumption DEF Live
<1>3. (\A s \in 0 .. Slots - 1 : HeadOK(s)) /\ \A k \in Live : EntryOK(k)
  BY DEF LinksSound
<1>4. e.next # key /\ e.prev # key
  <2>1. \A j, k \in Live : ~(<<j, k>> \in before /\ <<k, j>> \in before)
    BY DEF ListsInOrder
  <2>2. \A j \in Live : entries[j].next # Empty => <<j, entries[j].next>> \in before
    BY DEF ListsInOrder
  <2>3. e.next # key
    BY <2>1, <2>2, <1>2
  <2> QED  BY <2>3, <1>2, <1>3
<1>5. Live' = Live \ {key}
  BY RemoveEffect
<1>6. EntryOK(key)
  BY <1>3
<1>7. ASSUME NEW s \in 0 .. Slots - 1  PROVE HeadOK(s)'
  <2>1. CASE s = SlotFor(e.tick) /\ e.prev = Empty
    BY <2>1, <1>4, <1>5, <1>6, RemoveEffect
  <2>2. CASE ~(s = SlotFor(e.tick) /\ e.prev = Empty)
    <3>1. wheel'[s] = wheel[s] /\ HeadOK(s)
      BY <2>2, <1>3, RemoveEffect
    <3>2. wheel[s] # Empty => wheel[s] # key /\ wheel[s] # e.next
      BY <2>2, <3>1, <1>2, <1>6
    <3> QED  BY <3>1, <3>2, <1>5, RemoveEffect
  <2> QED  BY <2>1, <2>2
<1>8. ASSUME NEW k \in Live \ {key}  PROVE EntryOK(k)'
  <2>1. EntryOK(k) /\ SlotFor(entries[k].tick) \in 0 .. Slots - 1
    BY <1>1, <1>3
  <2>2. /\ entries'[k].tick = entries[k].tick
        /\ entries'[k].next = IF k = e.prev THEN e.next ELSE entries[k].next
        /\ entries'[k].prev = IF k = e.next THEN e.prev ELSE entries[k].prev
    BY RemoveEffect
  <2>3. entries'[k].prev = Empty => wheel'[SlotFor(entries'[k].tick)] = k
    BY <2>1, <2>2, <1>2, <1>6, RemoveEffect
  <2>4. entries'[k].prev # Empty =>
          entries'[k].prev \in Live' /\ entries'[entries'[k].prev].next = k
    <3>1. CASE k = e.next
      BY <3>1, <2>2, <1>2, <1>4, <1>5, <1>6, RemoveEffect
    <3>2. CASE k # e.next
      BY <3>2, <2>1, <2>2, <1>2, <1>3, <1>5, <1>6, RemoveEffect
    <3> QED  BY <3>1, <3>2
  <2>5. entries'[k].next # Empty =>
          /\ entries'[k].next \in Live'
          /\ entries'[entries'[k].next].prev = k
          /\ SlotFor(entries'[entries'[k].next].tick) = SlotFor(entries'[k].tick)
    <3>1. CASE k = e.prev
      BY <3>1, <2>1, <2>2, <1>2, <1>4, <1>5, <1>6, RemoveEffect
    <3>2. CASE k # e.prev
      BY <3>2, <2>1, <2>2, <1>2, <1>3, <1>5, <1>6, RemoveEffect
    <3> QED  BY <3>1, <3>2
  <2> QED  BY <2>3, <2>4, <2>5
<1>9. next' # Empty => next' \in Live' /\ SlotFor(entries'[next'].tick) = SlotFor(tick')
  <2>1. next # Empty => next \in Live /\ SlotFor(entries[next].tick) = SlotFor(tick)
    BY DEF LinksSound
  <2>2. CASE key = next
    BY <2>1, <2>2, <1>2, <1>4, <1>5, <1>6, RemoveEffect
  <2>3. CASE key # next
    BY <2>1, <2>3, <1>5, RemoveEffect
  <2> QED  BY <2>2, <2>3
<1> QED  BY <1>5, <1>7, <1>8, <1>9 DEF LinksSound

\* Remove keeps the lists in the same order.
LEMMA RemoveKeepsOrder ==
  ASSUME TypeOK, LinksSound, NEW before, ListsInOrder(before),
         NEW key \in Live, Remove(key)
  PROVE  ListsInOrder(before)'
<1> DEFINE e == entries[key]
           HeadFirst(k) ==
             LET h == wheel[SlotFor(entries[k].tick)]
             IN  h # Empty /\ (h = k \/ <<h, k>> \in before)
           NoGap(j, k) ==
             SlotFor(entries[j].tick) = SlotFor(entries[k].tick) /\ <<j, k>> \in before
               => LET n == entries[j].next IN n # Empty /\ (n = k \/ <<n, k>> \in before)
<1>1. Live \subseteq Keys /\ Empty \notin Live /\ Live' = Live \ {key}
  BY NullAssumption, RemoveEffect DEF Live
<1>2. \A k \in Live : entries[k].tick \in Nat /\ SlotFor(entries[k].tick) \in 0 .. Slots - 1
  BY SlotInRange DEF TypeOK, Live, Entry
<1>3. /\ \A k \in Live : HeadFirst(k)
      /\ \A j, k \in Live : NoGap(j, k)
      /\ \A j \in Live : entries[j].next # Empty => <<j, entries[j].next>> \in before
      /\ \A j, k \in Live : j # k => (<<j, k>> \in before \/ <<k, j>> \in before)
      /\ \A j, k \in Live : ~(<<j, k>> \in before /\ <<k, j>> \in before)
      /\ \A i, j, k \in Live : <<i, j>> \in before /\ <<j, k>> \in before => <<i, k>> \in before
  BY DEF ListsInOrder
<1>4. \A k \in Live :
        /\ entries[k].prev = Empty => wheel[SlotFor(entries[k].tick)] = k
        /\ entries[k].prev # Empty =>
             entries[k].prev \in Live /\ entries[entries[k].prev].next = k
        /\ entries[k].next # Empty =>
             /\ entries[k].next \in Live
             /\ entries[entries[k].next].prev = k
             /\ SlotFor(entries[entries[k].next].tick) = SlotFor(entries[k].tick)
  BY DEF LinksSound
<1>5. \A k \in Live \ {key} : /\ entries'[k].tick = entries[k].tick
                              /\ entries'[k].next = IF k = e.prev THEN e.next ELSE entries[k].next
  BY RemoveEffect
<1>6. ASSUME NEW k \in Live \ {key}  PROVE HeadFirst(k)'
  <2>1. HeadFirst(k) /\ SlotFor(entries[k].tick) \in 0 .. Slots - 1
    BY <1>2, <1>3
  <2>2. CASE SlotFor(entries[k].tick) = SlotFor(e.tick) /\ e.prev = Empty
    <3>1. <<key, k>> \in before
      BY <2>1, <2>2, <1>4
    <3>2. NoGap(key, k)
      BY <1>3
    <3> QED  BY <3>1, <3>2, <2>1, <2>2, <1>5, RemoveEffect
  <2>3. CASE ~(SlotFor(entries[k].tick) = SlotFor(e.tick) /\ e.prev = Empty)
    BY <2>1, <2>3, <1>5, RemoveEffect
  <2> QED  BY <2>2, <2>3
<1>7. ASSUME NEW j \in Live \ {key}, NEW k \in Live \ {key}  PROVE NoGap(j, k)'
  <2> SUFFICES ASSUME SlotFor(entries[j].tick) = SlotFor(entries[k].tick), <<j, k>> \in before
               PROVE  entries'[j].next # Empty
                      /\ (entries'[j].next = k \/ <<entries'[j].next, k>> \in before)
    BY <1>5
  <2>1. NoGap(j, k)
    BY <1>3
  <2>2. CASE j = e.prev
    <3>1. entries[j].next = key
      BY <2>2, <1>1, <1>4
    <3>2. <<key, k>> \in before /\ SlotFor(e.tick) = SlotFor(entries[k].tick)
      BY <3>1, <2>1, <1>1, <1>4
    <3>3. NoGap(key, k)
      BY <1>3
    <3> QED  BY <3>2, <3>3, <2>2, <1>5
  <2>3. CASE j # e.prev
    BY <2>1, <2>3, <1>5
  <2> QED  BY <2>2, <2>3
<1>8. ASSUME NEW j \in Live \ {key}, entries'[j].next # Empty
      PROVE  <<j, entries'[j].next>> \in before
  <2>1. CASE j = e.prev
    <3>1. entries[j].next = key /\ e.next # Empty /\ e.next \in Live
      BY <2>1, <1>1, <1>4, <1>5, <1>8
    <3>2. <<j, key>> \in before /\ <<key, e.next>> \in before
      BY <3>1, <1>1, <1>3
    <3> QED  BY <3>1, <3>2, <2>1, <1>3, <1>5
  <2>2. CASE j # e.prev
    BY <2>2, <1>3, <1>5, <1>8
  <2> QED  BY <2>1, <2>2
<1>9. /\ \A j, k \in Live' : j # k => (<<j, k>> \in before \/ <<k, j>> \in before)
      /\ \A j, k \in Live' : ~(<<j, k>> \in before /\ <<k, j>> \in before)
      /\ \A i, j, k \in Live' : <<i, j>> \in before /\ <<j, k>> \in before => <<i, k>> \in before
  BY <1>1, <1>3
<1> QED  BY <1>1, <1>6, <1>7, <1>8, <1>9 DEF ListsInOrder

----------------------------------------------------------------------------
(* The structure of the wheel is an invariant, whatever is requested. *)

\* A timer is being handled exactly when the handlers of timers run.
HandlingOK ==
  /\ phase \in {"rearm", "callback"} => fired \in Fired
  /\ phase = "rearm" => fired.interval > 0

WheelInv ==
  /\ TypeOK
  /\ HandlingOK
  /\ LinksSound
  /\ \E before \in SUBSET (Keys \X Keys) : ListsInOrder(before)

\* Steps that leave the lists alone.
LEMMA SameLists ==
  ASSUME NEW before, ListsInOrder(before), UNCHANGED <<wheel, entries>>
  PROVE  ListsInOrder(before)'
  BY DEF ListsInOrder, Live

LEMMA SameLinks ==
  ASSUME LinksSound, UNCHANGED wheelVars
  PROVE  LinksSound'
  BY DEF LinksSound, Live, wheelVars

\* A step that inserts one entry.
LEMMA InsertStep ==
  ASSUME WheelInv, NEW key \in Keys \ Live, NEW m \in Marks, NEW t \in Nat,
         NEW interval \in Intervals \cup {0}, Insert(key, m, t, interval)
  PROVE  /\ LinksSound'
         /\ \E before \in SUBSET (Keys \X Keys) : ListsInOrder(before)'
         /\ tick' \in Nat /\ next' \in Link
         /\ wheel' \in [0 .. Slots - 1 -> Link]
         /\ entries' \in [Keys -> Entry \cup {Vacant}]
<1>1. PICK before \in SUBSET (Keys \X Keys) : ListsInOrder(before)
  BY DEF WheelInv
<1>2. ListsInOrder(InFront(key, before))'
  BY <1>1, InsertKeepsOrder DEF WheelInv
<1>3. InFront(key, before) \in SUBSET (Keys \X Keys)
  BY DEF InFront
<1>4. LinksSound'
  BY InsertKeepsLinks DEF WheelInv
<1> QED  BY <1>2, <1>3, <1>4, InsertEffect DEF WheelInv, TypeOK

\* A step that removes one entry.
LEMMA RemoveStep ==
  ASSUME WheelInv, NEW key \in Live, Remove(key)
  PROVE  /\ LinksSound'
         /\ \E before \in SUBSET (Keys \X Keys) : ListsInOrder(before)'
         /\ tick' \in Nat /\ next' \in Link
         /\ wheel' \in [0 .. Slots - 1 -> Link]
         /\ entries' \in [Keys -> Entry \cup {Vacant}]
<1>1. PICK before \in SUBSET (Keys \X Keys) : ListsInOrder(before)
  BY DEF WheelInv
<1>2. ListsInOrder(before)' /\ LinksSound'
  BY <1>1, RemoveKeepsOrder, RemoveKeepsLinks DEF WheelInv
<1>3. entries[key].next \in Link
  BY DEF WheelInv, TypeOK, Live, Entry
<1> QED  BY <1>1, <1>2, <1>3, RemoveEffect DEF WheelInv, TypeOK

LEMMA WheelInvInit == Init => WheelInv
<1> SUFFICES ASSUME Init  PROVE WheelInv
  OBVIOUS
<1>1. Live = {}
  BY DEF Init, Live
<1>2. TypeOK
  BY DEF Init, TypeOK, Link
<1>3. LinksSound
  BY <1>1 DEF Init, LinksSound
<1>4. ListsInOrder({})
  BY <1>1 DEF ListsInOrder
<1> QED  BY <1>2, <1>3, <1>4 DEF Init, WheelInv, HandlingOK

LEMMA TimeoutMsAtKeepsWheel ==
  ASSUME WheelInv, NEW m \in Marks, NEW at \in 0 .. MaxMs, NEW interval \in Intervals,
         TimeoutMsAt(m, at, interval)
  PROVE  WheelInv'
<1>1. at \in Nat
  BY TimeAssumption
<1>2. TickOf(at) \in Nat
  BY <1>1, TickOfIsTick DEF WheelInv
<1>3. PICK key \in Keys \ Live :
        /\ Insert(key, m, TickOf(at), interval)
        /\ held' = [held EXCEPT ![m] = [key |-> key, tick |-> TickOf(at)]]
  BY DEF TimeoutMsAt
<1>4. held' \in [Marks -> Timeout \cup {None}]
  BY <1>2, <1>3 DEF WheelInv, TypeOK, Timeout
<1>5. /\ LinksSound'
      /\ \E before \in SUBSET (Keys \X Keys) : ListsInOrder(before)'
      /\ tick' \in Nat /\ next' \in Link
      /\ wheel' \in [0 .. Slots - 1 -> Link]
      /\ entries' \in [Keys -> Entry \cup {Vacant}]
  BY <1>2, <1>3, InsertStep
<1> QED  BY <1>4, <1>5 DEF TimeoutMsAt, WheelInv, TypeOK, HandlingOK

LEMMA ClearKeepsWheel ==
  ASSUME WheelInv, NEW m \in Marks, Clear(m)
  PROVE  WheelInv'
<1>1. held' \in [Marks -> Timeout \cup {None}]
  BY DEF Clear, WheelInv, TypeOK
<1>2. CASE held[m].key \in Live /\ entries[held[m].key].tick = held[m].tick
  <2>1. Remove(held[m].key)
    BY <1>2 DEF Clear
  <2>2. /\ LinksSound'
        /\ \E before \in SUBSET (Keys \X Keys) : ListsInOrder(before)'
        /\ tick' \in Nat /\ next' \in Link
        /\ wheel' \in [0 .. Slots - 1 -> Link]
        /\ entries' \in [Keys -> Entry \cup {Vacant}]
    BY <1>2, <2>1, RemoveStep
  <2> QED  BY <1>1, <2>2 DEF Clear, WheelInv, TypeOK, HandlingOK
<1>3. CASE ~(held[m].key \in Live /\ entries[held[m].key].tick = held[m].tick)
  <2>1. UNCHANGED wheelVars
    BY <1>3 DEF Clear
  <2>2. LinksSound' /\ \E before \in SUBSET (Keys \X Keys) : ListsInOrder(before)'
    BY <2>1, SameLinks, SameLists DEF WheelInv, wheelVars
  <2> QED  BY <1>1, <2>1, <2>2 DEF Clear, WheelInv, TypeOK, HandlingOK, wheelVars
<1> QED  BY <1>2, <1>3

LEMMA RearmKeepsWheel ==
  ASSUME WheelInv, Rearm
  PROVE  WheelInv'
<1>1. fired.mark \in Marks /\ fired.interval \in Nat
  <2>1. fired \in Fired
    BY DEF WheelInv, HandlingOK, Rearm
  <2>2. fired.mark \in Marks /\ fired.interval \in Intervals \cup {0}
    BY <2>1 DEF Fired
  <2>3. Intervals \cup {0} \subseteq Nat
    BY TimeAssumption
  <2> QED  BY <2>2, <2>3
<1>2. TickOf(now + fired.interval) \in Nat
  <2>1. now + fired.interval \in Nat
    BY <1>1 DEF WheelInv, TypeOK
  <2> QED  BY <2>1, TickOfIsTick DEF WheelInv
<1>3. PICK key \in Keys \ Live :
        /\ Insert(key, fired.mark, TickOf(now + fired.interval), 0)
        /\ held' \in {held, [held EXCEPT ![fired.mark] =
                                [key |-> key, tick |-> TickOf(now + fired.interval)]]}
  BY DEF Rearm
<1>4. held' \in [Marks -> Timeout \cup {None}]
  BY <1>1, <1>2, <1>3 DEF WheelInv, TypeOK, Timeout
<1>5. /\ LinksSound'
      /\ \E before \in SUBSET (Keys \X Keys) : ListsInOrder(before)'
      /\ tick' \in Nat /\ next' \in Link
      /\ wheel' \in [0 .. Slots - 1 -> Link]
      /\ entries' \in [Keys -> Entry \cup {Vacant}]
  BY <1>1, <1>2, <1>3, InsertStep
<1> QED  BY <1>4, <1>5 DEF Rearm, WheelInv, TypeOK, HandlingOK

LEMMA TickFireKeepsWheel ==
  ASSUME WheelInv, TickFire
  PROVE  WheelInv'
<1>1. next \in Live /\ Remove(next)
  BY DEF TickFire, WheelInv, LinksSound
<1>2. /\ LinksSound'
      /\ \E before \in SUBSET (Keys \X Keys) : ListsInOrder(before)'
      /\ tick' \in Nat /\ next' \in Link
      /\ wheel' \in [0 .. Slots - 1 -> Link]
      /\ entries' \in [Keys -> Entry \cup {Vacant}]
  BY <1>1, RemoveStep
<1>3. entries[next] \in Entry
  BY <1>1 DEF Live, WheelInv, TypeOK
<1>4. fired' \in Fired /\ fired'.interval = entries[next].interval
  BY <1>3 DEF TickFire, Fired, Entry
<1> QED  BY <1>2, <1>4 DEF TickFire, WheelInv, TypeOK, HandlingOK

\* The steps of the loop that only move the cursor or leave the wheel alone.
LEMMA TickAdvanceKeepsWheel ==
  ASSUME WheelInv, TickAdvance
  PROVE  WheelInv'
<1>1. tick + 1 \in Nat /\ SlotFor(tick + 1) \in 0 .. Slots - 1
  BY SlotInRange DEF WheelInv, TypeOK
<1>2. next' # Empty => next' \in Live' /\ SlotFor(entries'[next'].tick) = SlotFor(tick')
  BY <1>1 DEF TickAdvance, WheelInv, LinksSound, Live
<1>3. LinksSound'
  BY <1>2 DEF TickAdvance, WheelInv, LinksSound, Live
<1>4. \E before \in SUBSET (Keys \X Keys) : ListsInOrder(before)'
  BY SameLists DEF TickAdvance, WheelInv
<1> QED  BY <1>1, <1>3, <1>4 DEF TickAdvance, WheelInv, TypeOK, HandlingOK

LEMMA TickSkipKeepsWheel ==
  ASSUME WheelInv, TickSkip
  PROVE  WheelInv'
<1>1. next \in Live /\ SlotFor(entries[next].tick) = SlotFor(tick)
  BY DEF TickSkip, WheelInv, LinksSound
<1>2. next' # Empty => next' \in Live' /\ SlotFor(entries'[next'].tick) = SlotFor(tick')
  BY <1>1 DEF TickSkip, WheelInv, LinksSound, Live
<1>3. LinksSound'
  BY <1>2 DEF TickSkip, WheelInv, LinksSound, Live
<1>4. \E before \in SUBSET (Keys \X Keys) : ListsInOrder(before)'
  BY SameLists DEF TickSkip, WheelInv
<1>5. next' \in Link
  BY <1>1 DEF TickSkip, WheelInv, TypeOK, Live, Entry
<1> QED  BY <1>3, <1>4, <1>5 DEF TickSkip, WheelInv, TypeOK, HandlingOK

LEMMA OthersKeepWheel ==
  ASSUME WheelInv,
         \/ Advance \/ (\E pending \in BOOLEAN : EnterPoll(pending))
         \/ ReturnFromPoll \/ BeginProcess \/ TickDone \/ EndCallback \/ UNCHANGED vars
  PROVE  WheelInv'
<1>1. UNCHANGED wheelVars
  BY DEF Advance, EnterPoll, ReturnFromPoll, BeginProcess, TickDone, EndCallback, vars, wheelVars
<1>2. LinksSound' /\ \E before \in SUBSET (Keys \X Keys) : ListsInOrder(before)'
  BY <1>1, SameLinks, SameLists DEF WheelInv, wheelVars
<1>3. /\ wheel' \in [0 .. Slots - 1 -> Link] /\ entries' \in [Keys -> Entry \cup {Vacant}]
      /\ next' \in Link /\ tick' \in Nat
  BY <1>1 DEF WheelInv, TypeOK, wheelVars
<1> DEFINE Rest ==
      /\ now' \in Nat /\ nowTick' \in Nat /\ deadline' \in Nat
      /\ held' \in [Marks -> Timeout \cup {None}]
      /\ phase' \in {"ready", "poll", "handlers", "ticking", "rearm", "callback"}
      /\ fired' \in Fired \cup {None} /\ HandlingOK'
<1>4. Rest
  <2>1. CASE Advance
    BY <2>1 DEF Advance, WheelInv, TypeOK, HandlingOK
  <2>2. ASSUME NEW pending \in BOOLEAN, EnterPoll(pending)
        PROVE  Rest
    <3>1. NextTickInMs \in Nat
      BY TimeAssumption, WheelAssumption DEF NextTickInMs, WheelInv, TypeOK
    <3>2. deadline' \in Nat
      BY <2>2, <3>1, TimeAssumption DEF EnterPoll, Least, WheelInv, TypeOK
    <3> QED  BY <2>2, <3>2 DEF EnterPoll, WheelInv, TypeOK, HandlingOK
  <2>3. CASE ReturnFromPoll
    BY <2>3 DEF ReturnFromPoll, WheelInv, TypeOK, HandlingOK
  <2>4. CASE BeginProcess
    <3>1. now \div TickMs \in Nat
      BY WheelAssumption DEF WheelInv, TypeOK
    <3> QED  BY <2>4, <3>1 DEF BeginProcess, WheelInv, TypeOK, HandlingOK
  <2>5. CASE TickDone
    BY <2>5 DEF TickDone, WheelInv, TypeOK, HandlingOK
  <2>6. CASE EndCallback
    BY <2>6 DEF EndCallback, WheelInv, TypeOK, HandlingOK
  <2>7. CASE UNCHANGED vars
    BY <2>7 DEF vars, WheelInv, TypeOK, HandlingOK
  <2> QED  BY <2>1, <2>2, <2>3, <2>4, <2>5, <2>6, <2>7
<1> QED  BY <1>2, <1>3, <1>4 DEF WheelInv, TypeOK

\* The wheel's structure survives every step: each action that edits the lists
\* by its own lemma, the others together.
LEMMA WheelInvStep == WheelInv /\ [Next]_vars => WheelInv'
<1> SUFFICES ASSUME WheelInv, [Next]_vars  PROVE WheelInv'
  OBVIOUS
<1>1. ASSUME NEW m \in Marks, NEW at \in 0 .. MaxMs, NEW interval \in Intervals,
             TimeoutMsAt(m, at, interval)
      PROVE  WheelInv'
  BY <1>1, TimeoutMsAtKeepsWheel
<1>2. ASSUME NEW m \in Marks, Clear(m)  PROVE WheelInv'
  BY <1>2, ClearKeepsWheel
<1>3. CASE Rearm         BY <1>3, RearmKeepsWheel
<1>4. CASE TickFire      BY <1>4, TickFireKeepsWheel
<1>5. CASE TickAdvance   BY <1>5, TickAdvanceKeepsWheel
<1>6. CASE TickSkip      BY <1>6, TickSkipKeepsWheel
<1>7. CASE \/ Advance \/ (\E pending \in BOOLEAN : EnterPoll(pending))
           \/ ReturnFromPoll \/ BeginProcess \/ TickDone \/ EndCallback \/ UNCHANGED vars
  BY <1>7, OthersKeepWheel
<1> QED
  BY <1>1, <1>2, <1>3, <1>4, <1>5, <1>6, <1>7
     DEF Next, UserStep, LoopStep, PollTimesOut, PollWakes

\* The variables keep their types.  (timer.rs never indexes its slab or its
\* wheel with anything but a key, a slot or EMPTY.)
THEOREM TypeCorrect == Spec => []TypeOK
<1>1. WheelInv => TypeOK
  BY DEF WheelInv
<1> QED  BY <1>1, WheelInvInit, WheelInvStep, PTL DEF Spec

\* No head, cursor, prev or next of the wheel ever names a freed entry or an
\* entry of another slot, however requests, cancellations and expirations
\* interleave: insert, unlink and tick_to never index a vacant slab key.
THEOREM LinksAlwaysSound == Spec => []LinksSound
<1>1. WheelInv => LinksSound
  BY DEF WheelInv
<1> QED  BY <1>1, WheelInvInit, WheelInvStep, PTL DEF Spec

----------------------------------------------------------------------------
(* No timer is left behind the tick in which it is due, and no stale handle  *)
(* cancels another timer than a late one.                                    *)

\* Facts about rounding a time to ticks.
LEMMA ProductCancel == \A a, b, c \in Nat : a * c < b * c => a < b
<1> SUFFICES ASSUME NEW a \in Nat, NEW b \in Nat, NEW c \in Nat, a >= b
             PROVE  a * c >= b * c
  OBVIOUS
<1> QED  OBVIOUS

LEMMA ProductMono == \A a, b, c \in Nat : a <= b => a * c <= b * c
  OBVIOUS

LEMMA RoundUp == \A x \in Nat, c \in Nat \ {0} : ((x + c - 1) \div c) * c >= x
  OBVIOUS

LEMMA RoundDown == \A x \in Nat, c \in Nat \ {0} : (x \div c) * c <= x
  OBVIOUS

\* The tick counter is at most a tick ahead of the clock, and process_timers
\* works towards a moment that has passed.
ClockInv ==
  /\ tick * TickMs <= now + TickMs
  /\ phase \in {"ticking", "rearm", "callback"} => nowTick * TickMs <= now

\* Every handle either names the live entry of its own mark, or is for a tick
\* that has been served and matches no entry but a late one.
HandleInv ==
  \A m \in Marks : held[m] # None =>
    \/ /\ held[m].key \in Live
       /\ entries[held[m].key].tick = held[m].tick
       /\ entries[held[m].key].mark = m
    \/ /\ held[m].tick <= tick
       /\ held[m].key \in Live => \/ entries[held[m].key].tick # held[m].tick
                                   \/ Late(entries[held[m].key])

\* An entry is due in its tick, or it is late, and due within a revolution.
DueOK(k) ==
  /\ SlotFor(entries[k].due) = SlotFor(entries[k].tick)
  /\ Late(entries[k]) => entries[k].tick <= tick /\ entries[k].due <= tick + Slots

DueInv == \A k \in Live : DueOK(k)

ServedInv == WheelInv /\ ClockInv /\ HandleInv /\ DueInv /\ CursorReachesAllDue

\* A time after the present is rounded to a tick after the current one.
LEMMA FutureTick ==
  ASSUME TypeOK, ClockInv, NEW lead \in Nat \ {0}
  PROVE  TickOf(now + lead) \in Nat /\ TickOf(now + lead) > tick
<1> DEFINE t == (now + lead + TickMs - 1) \div TickMs
<1>1. TickMs \in Nat \ {0} /\ now \in Nat /\ tick \in Nat
  BY WheelAssumption DEF TypeOK
<1>2. t \in Nat
  BY <1>1
<1>3. t * TickMs >= now + lead
  BY <1>1, RoundUp
<1>4. (t + 1) * TickMs = t * TickMs + TickMs
  BY <1>1, <1>2
<1>5. tick * TickMs < (t + 1) * TickMs
  BY <1>1, <1>2, <1>3, <1>4 DEF ClockInv
<1>6. tick < t + 1
  BY <1>1, <1>2, <1>5, ProductCancel
<1> QED  BY <1>1, <1>2, <1>6 DEF TickOf

\* The cursor still reaches every due entry after an insertion, and after the
\* removal of any entry, the one under the cursor too.
LEMMA InsertKeepsReach ==
  ASSUME TypeOK, LinksSound, CursorReachesAllDue,
         NEW key \in Keys \ Live, NEW m \in Marks, NEW t \in Nat,
         NEW interval \in Intervals \cup {0}, Insert(key, m, t, interval)
  PROVE  CursorReachesAllDue'
<1>1. PICK before \in SUBSET (Keys \X Keys) : ListsInOrder(before) /\ NoneBehind(before)
  BY DEF CursorReachesAllDue
<1> DEFINE after == InFront(key, before)
<1>2. ListsInOrder(after)'
  BY <1>1, InsertKeepsOrder
<1>3. after \in SUBSET (Keys \X Keys)
  BY DEF InFront
<1>4. Live \subseteq Keys /\ (next # Empty => next \in Live) /\ key \notin Live /\ tick \in Nat
  BY DEF Live, LinksSound, TypeOK
<1>5. \A j, k \in Keys : <<j, k>> \in after <=> k # key /\ (j = key \/ <<j, k>> \in before)
  BY InFrontPairs
<1>6. Live' = Live \cup {key} /\ tick' = tick /\ next' = next
  BY InsertEffect
<1> HIDE DEF after
<1>7. ASSUME NEW k \in Live'
      PROVE  /\ entries'[k].due >= tick
             /\ entries'[k].due = tick => Reaches(after, k)'
             /\ entries'[k].tick <= tick /\ Reaches(after, k)' => entries'[k].due = tick
  <2>1. CASE k = key
    <3>1. entries'[k].due > tick /\ entries'[k].due \in Nat
      BY <2>1, InsertEffect, DueAhead
    <3>2. ~Reaches(after, k)'
      BY <2>1, <1>4, <1>5, <1>6 DEF Reaches
    <3> QED  BY <3>1, <3>2, <1>4
  <2>2. CASE k \in Live
    <3>1. entries'[k].due = entries[k].due /\ entries'[k].tick = entries[k].tick
      BY <2>2, InsertEffect
    <3>2. Reaches(after, k)' <=> Reaches(before, k)
      BY <2>2, <3>1, <1>4, <1>5, <1>6 DEF Reaches
    <3> QED  BY <2>2, <3>1, <3>2, <1>1 DEF NoneBehind
  <2> QED  BY <2>1, <2>2, <1>6
<1>8. NoneBehind(after)'
  BY <1>6, <1>7 DEF NoneBehind
<1> QED  BY <1>2, <1>3, <1>8 DEF CursorReachesAllDue

LEMMA RemoveKeepsReach ==
  ASSUME TypeOK, LinksSound, CursorReachesAllDue, NEW key \in Live, Remove(key)
  PROVE  CursorReachesAllDue'
<1>1. PICK before \in SUBSET (Keys \X Keys) : ListsInOrder(before) /\ NoneBehind(before)
  BY DEF CursorReachesAllDue
<1>2. ListsInOrder(before)'
  BY <1>1, RemoveKeepsOrder
<1>3. /\ Live' = Live \ {key} /\ tick' = tick
      /\ next' = IF key = next THEN entries[key].next ELSE next
  BY <1>1, RemoveEffect
<1>4. ASSUME NEW k \in Live'
      PROVE  /\ entries'[k].due = entries[k].due /\ entries'[k].tick = entries[k].tick
             /\ Reaches(before, k)' <=> Reaches(before, k)
  <2>1. entries'[k].due = entries[k].due /\ entries'[k].tick = entries[k].tick
    BY <1>1, <1>3, <1>4, RemoveEffect
  <2>2. CASE next # key
    BY <1>3, <2>1, <2>2 DEF Reaches
  <2>3. CASE next = key
    <3>1. k # key /\ k \in Live /\ next # Empty
      BY <1>3, <1>4, <2>3, NullAssumption DEF Live
    <3> DEFINE n == entries[key].next
    <3>2. next' = n /\ (n # Empty => n \in Live /\ <<key, n>> \in before)
      BY <1>1, <1>3, <2>3 DEF LinksSound, ListsInOrder
    <3>3. SlotFor(entries[key].tick) = SlotFor(tick)
      BY <2>3, <3>1 DEF LinksSound
    <3>4. ASSUME Reaches(before, k)  PROVE Reaches(before, k)'
      <4>1. <<key, k>> \in before /\ SlotFor(entries[key].tick) = SlotFor(entries[k].tick)
        BY <2>3, <3>1, <3>3, <3>4 DEF Reaches
      <4>2. n # Empty /\ (n = k \/ <<n, k>> \in before)
        BY <1>1, <3>1, <4>1 DEF ListsInOrder
      <4> QED  BY <1>3, <2>1, <3>2, <3>4, <4>2 DEF Reaches
    <3>5. ASSUME Reaches(before, k)'  PROVE Reaches(before, k)
      <4>1. n # Empty /\ (n = k \/ <<n, k>> \in before) /\ SlotFor(entries[k].tick) = SlotFor(tick)
        BY <1>3, <2>1, <3>2, <3>5 DEF Reaches
      <4>2. <<key, k>> \in before
        BY <1>1, <3>1, <3>2, <4>1 DEF ListsInOrder
      <4> QED  BY <2>3, <3>1, <4>1, <4>2 DEF Reaches
    <3> QED  BY <2>1, <3>4, <3>5
  <2> QED  BY <2>1, <2>2, <2>3
<1>5. NoneBehind(before)'
  BY <1>1, <1>3, <1>4 DEF NoneBehind
<1> QED  BY <1>2, <1>5 DEF CursorReachesAllDue

\* What is known of each entry's due tick survives, too.
LEMMA InsertKeepsDue ==
  ASSUME TypeOK, LinksSound, DueInv,
         NEW key \in Keys \ Live, NEW m \in Marks, NEW t \in Nat,
         NEW interval \in Intervals \cup {0}, Insert(key, m, t, interval)
  PROVE  DueInv'
<1>1. Live' = Live \cup {key} /\ tick' = tick /\ tick \in Nat
  BY InsertEffect DEF TypeOK
<1>2. DueOK(key)'
  <2>1. entries'[key].tick = t /\ entries'[key].due = Due(t)
    BY InsertEffect
  <2>2. /\ SlotFor(Due(t)) = SlotFor(t) /\ Due(t) \in Nat
        /\ t > tick => Due(t) = t
        /\ t <= tick => Due(t) <= tick + Slots
    BY DueAhead
  <2> QED  BY <1>1, <2>1, <2>2 DEF DueOK, Late
<1>3. ASSUME NEW k \in Live  PROVE DueOK(k)'
  <2>1. entries'[k].due = entries[k].due /\ entries'[k].tick = entries[k].tick
    BY InsertEffect
  <2> QED  BY <1>1, <2>1 DEF DueInv, DueOK, Late
<1> QED  BY <1>1, <1>2, <1>3 DEF DueInv

LEMMA RemoveKeepsDue ==
  ASSUME TypeOK, LinksSound, DueInv, NEW before, ListsInOrder(before),
         NEW key \in Live, Remove(key)
  PROVE  DueInv'
<1>1. /\ Live' = Live \ {key} /\ tick' = tick
      /\ \A k \in Live \ {key} : entries'[k].due = entries[k].due /\ entries'[k].tick = entries[k].tick
  BY RemoveEffect
<1> QED  BY <1>1 DEF DueInv, DueOK, Late

\* What HandleInv says of one mark.
HandleOK(m) ==
  held[m] # None =>
    \/ /\ held[m].key \in Live
       /\ entries[held[m].key].tick = held[m].tick
       /\ entries[held[m].key].mark = m
    \/ /\ held[m].tick <= tick
       /\ held[m].key \in Live => \/ entries[held[m].key].tick # held[m].tick
                                   \/ Late(entries[held[m].key])

\* A handle survives the insertion of an entry, even if the entry gets the key
\* the handle remembers.
LEMMA InsertKeepsHandle ==
  ASSUME TypeOK, LinksSound,
         NEW key \in Keys \ Live, NEW m \in Marks, NEW t \in Nat,
         NEW interval \in Intervals \cup {0}, Insert(key, m, t, interval),
         NEW n \in Marks, HandleOK(n),
         held'[n] = held[n] \/ (n = m /\ held'[n] = [key |-> key, tick |-> t])
  PROVE  HandleOK(n)'
<1>1. Live' = Live \cup {key} /\ key \notin Live /\ tick' = tick
      /\ entries'[key].tick = t /\ entries'[key].mark = m /\ entries'[key].due = Due(t)
  BY InsertEffect
<1>2. \A k \in Live : /\ entries'[k].tick = entries[k].tick /\ entries'[k].mark = entries[k].mark
                      /\ Late(entries[k])' <=> Late(entries[k])
  BY InsertEffect DEF Late
<1>late. t <= tick => Late(entries[key])'
  BY <1>1, DueAhead DEF Late, TypeOK
<1>3. CASE n = m /\ held'[n] = [key |-> key, tick |-> t]
  BY <1>1, <1>3 DEF HandleOK
<1>4. CASE held'[n] = held[n]
  <2>1. CASE held[n] = None
    BY <1>4, <2>1 DEF HandleOK
  <2>2. CASE held[n] # None
    <3>1. held[n].tick \in Nat /\ tick \in Nat
      BY <2>2 DEF TypeOK, Timeout
    <3>2. CASE /\ held[n].key \in Live
               /\ entries[held[n].key].tick = held[n].tick
               /\ entries[held[n].key].mark = n
      BY <3>2, <1>1, <1>2, <1>4 DEF HandleOK
    <3>3. CASE /\ held[n].tick <= tick
               /\ held[n].key \in Live => \/ entries[held[n].key].tick # held[n].tick
                                           \/ Late(entries[held[n].key])
      <4>1. CASE held[n].key = key
        BY <4>1, <3>1, <3>3, <1>1, <1>late, <1>4 DEF HandleOK
      <4>2. CASE held[n].key # key
        BY <4>2, <3>3, <1>1, <1>2, <1>4 DEF HandleOK
      <4> QED  BY <4>1, <4>2
    <3> QED  BY <2>2, <3>2, <3>3 DEF HandleOK
  <2> QED  BY <2>1, <2>2
<1> QED  BY <1>3, <1>4

\* A handle survives the removal of an entry, unless it names that entry and
\* the entry's tick is still to come.
LEMMA RemoveKeepsHandle ==
  ASSUME TypeOK, LinksSound, NEW before, ListsInOrder(before),
         NEW key \in Live, Remove(key),
         NEW n \in Marks, HandleOK(n), held'[n] = held[n],
         entries[key].tick <= tick \/ held[n].key # key \/ entries[key].tick # held[n].tick
  PROVE  HandleOK(n)'
<1>1. Live' = Live \ {key} /\ tick' = tick
  BY RemoveEffect
<1>2. \A k \in Live \ {key} :
        /\ entries'[k].tick = entries[k].tick /\ entries'[k].mark = entries[k].mark
        /\ Late(entries[k])' <=> Late(entries[k])
  BY RemoveEffect DEF Late
<1>3. CASE held[n] = None
  BY <1>3 DEF HandleOK
<1>4. CASE held[n] # None /\ held[n].key = key
  BY <1>1, <1>4 DEF HandleOK
<1>5. CASE held[n] # None /\ held[n].key # key
  BY <1>1, <1>2, <1>5 DEF HandleOK
<1> QED  BY <1>3, <1>4, <1>5

LEMMA HandleInvPointwise == HandleInv <=> \A m \in Marks : HandleOK(m)
  BY DEF HandleInv, HandleOK

LEMMA ServedInvInit == Init => ServedInv
<1> SUFFICES ASSUME Init  PROVE ServedInv
  OBVIOUS
<1>1. Live = {} /\ WheelInv
  BY WheelInvInit DEF Init, Live
<1>2. ClockInv
  BY WheelAssumption DEF Init, ClockInv
<1>3. HandleInv
  BY DEF Init, HandleInv
<1>4. ListsInOrder({}) /\ NoneBehind({})
  BY <1>1 DEF ListsInOrder, NoneBehind
<1> QED  BY <1>1, <1>2, <1>3, <1>4 DEF ServedInv, DueInv, CursorReachesAllDue

\* Each action keeps ServedInv; WheelInv is kept by WheelInvStep.
LEMMA TimeoutMsAtServes ==
  ASSUME ServedInv, NEW m \in Marks, NEW at \in 0 .. MaxMs, NEW interval \in Intervals,
         TimeoutMsAt(m, at, interval)
  PROVE  ClockInv' /\ HandleInv' /\ DueInv' /\ CursorReachesAllDue'
<1> DEFINE t == TickOf(at)
<1>1. t \in Nat
  BY TimeAssumption, TickOfIsTick DEF ServedInv, WheelInv
<1>2. PICK key \in Keys \ Live :
        /\ Insert(key, m, t, interval)
        /\ held' = [held EXCEPT ![m] = [key |-> key, tick |-> t]]
  BY DEF TimeoutMsAt
<1>3. CursorReachesAllDue' /\ DueInv'
  BY <1>1, <1>2, InsertKeepsReach, InsertKeepsDue DEF ServedInv, WheelInv
<1>4. ASSUME NEW n \in Marks  PROVE HandleOK(n)'
  <2>1. held'[n] = held[n] \/ (n = m /\ held'[n] = [key |-> key, tick |-> t])
    BY <1>2 DEF ServedInv, WheelInv, TypeOK
  <2>2. HandleOK(n)
    BY HandleInvPointwise DEF ServedInv
  <2> QED  BY <2>1, <2>2, <1>1, <1>2, InsertKeepsHandle DEF ServedInv, WheelInv
<1>5. ClockInv'
  BY <1>2 DEF TimeoutMsAt, Insert, ServedInv, ClockInv
<1> QED  BY <1>3, <1>4, <1>5 DEF HandleInv, HandleOK

LEMMA RearmServes ==
  ASSUME ServedInv, Rearm
  PROVE  ClockInv' /\ HandleInv' /\ DueInv' /\ CursorReachesAllDue'
<1> DEFINE t == TickOf(now + fired.interval)
<1>1. fired.mark \in Marks /\ fired.interval \in Nat \ {0}
  <2>1. fired \in Fired /\ fired.interval > 0
    BY DEF ServedInv, WheelInv, HandlingOK, Rearm
  <2>2. fired.mark \in Marks /\ fired.interval \in Intervals \cup {0}
    BY <2>1 DEF Fired
  <2>3. Intervals \cup {0} \subseteq Nat
    BY TimeAssumption
  <2> QED  BY <2>1, <2>2, <2>3
<1>2. t \in Nat
  <2>1. now + fired.interval \in Nat
    BY <1>1 DEF ServedInv, WheelInv, TypeOK
  <2> QED  BY <2>1, TickOfIsTick DEF ServedInv, WheelInv
<1>3. PICK key \in Keys \ Live :
        /\ Insert(key, fired.mark, t, 0)
        /\ held' \in {held, [held EXCEPT ![fired.mark] = [key |-> key, tick |-> t]]}
  BY DEF Rearm
<1>4. CursorReachesAllDue' /\ DueInv'
  BY <1>1, <1>2, <1>3, InsertKeepsReach, InsertKeepsDue DEF ServedInv, WheelInv
<1>5. ASSUME NEW n \in Marks  PROVE HandleOK(n)'
  <2>1. held'[n] = held[n] \/ (n = fired.mark /\ held'[n] = [key |-> key, tick |-> t])
    BY <1>3 DEF ServedInv, WheelInv, TypeOK
  <2>2. HandleOK(n)
    BY HandleInvPointwise DEF ServedInv
  <2> QED  BY <2>1, <2>2, <1>1, <1>2, <1>3, InsertKeepsHandle DEF ServedInv, WheelInv
<1>6. ClockInv'
  BY <1>3 DEF Rearm, Insert, ServedInv, ClockInv
<1> QED  BY <1>4, <1>5, <1>6 DEF HandleInv, HandleOK

LEMMA ClearServes ==
  ASSUME ServedInv, NEW m \in Marks, Clear(m)
  PROVE  ClockInv' /\ HandleInv' /\ DueInv' /\ CursorReachesAllDue'
<1> DEFINE key == held[m].key
<1>1. PICK before \in SUBSET (Keys \X Keys) : ListsInOrder(before)
  BY DEF ServedInv, CursorReachesAllDue
<1>2. \A n \in Marks : /\ HandleOK(n)
                       /\ held'[n] = IF n = m THEN None ELSE held[n]
  BY HandleInvPointwise DEF Clear, ServedInv, WheelInv, TypeOK
<1>3. CASE key \in Live /\ entries[key].tick = held[m].tick
  <2>1. Remove(key)
    BY <1>3 DEF Clear
  <2>2. entries[key].mark = m \/ entries[key].tick <= tick
    <3>1. entries[key].mark = m \/ Late(entries[key])
      BY <1>2, <1>3 DEF HandleOK, Clear
    <3> QED  BY <1>3, <3>1 DEF ServedInv, DueInv, DueOK
  <2>3. CursorReachesAllDue' /\ DueInv'
    BY <1>1, <1>3, <2>1, RemoveKeepsReach, RemoveKeepsDue DEF ServedInv, WheelInv
  <2>4. ASSUME NEW n \in Marks  PROVE HandleOK(n)'
    <3>1. CASE n = m
      BY <3>1, <1>2 DEF HandleOK
    <3>2. CASE n # m
      <4>1. held'[n] = held[n] /\ HandleOK(n)
        BY <3>2, <1>2
      <4>2. CASE held[n] = None
        BY <4>1, <4>2 DEF HandleOK
      <4>3. CASE held[n] # None
        <5>1. \/ entries[key].tick <= tick
              \/ held[n].key # key \/ entries[key].tick # held[n].tick
          <6>1. entries[key].tick <= tick \/ ~Late(entries[key])
            BY <1>3 DEF ServedInv, DueInv, DueOK
          <6> QED  BY <3>2, <4>1, <4>3, <6>1, <1>3, <2>2 DEF HandleOK
        <5> QED  BY <4>1, <5>1, <1>1, <1>3, <2>1, RemoveKeepsHandle DEF ServedInv, WheelInv
      <4> QED  BY <4>2, <4>3
    <3> QED  BY <3>1, <3>2
  <2>5. ClockInv'
    BY <2>1 DEF Clear, Remove, ServedInv, ClockInv
  <2> QED  BY <2>3, <2>4, <2>5 DEF HandleInv, HandleOK
<1>4. CASE ~(key \in Live /\ entries[key].tick = held[m].tick)
  <2>1. UNCHANGED wheelVars
    BY <1>4 DEF Clear
  <2>2. ClockInv' /\ DueInv' /\ CursorReachesAllDue'
    BY SMTT(30), <2>1 DEF Clear, wheelVars, ServedInv, ClockInv, CursorReachesAllDue, DueInv, DueOK, Late,
                ListsInOrder, NoneBehind, Reaches, Live
  <2>3. HandleInv'
    BY <2>1, <1>2 DEF wheelVars, HandleInv, HandleOK, Late, Live
  <2> QED  BY <2>2, <2>3
<1> QED  BY <1>3, <1>4

LEMMA TickFireServes ==
  ASSUME ServedInv, TickFire
  PROVE  ClockInv' /\ HandleInv' /\ DueInv' /\ CursorReachesAllDue'
<1>1. next \in Live /\ Remove(next) /\ entries[next].tick <= tick
  BY DEF TickFire, ServedInv, WheelInv, LinksSound
<1>2. PICK before \in SUBSET (Keys \X Keys) : ListsInOrder(before)
  BY DEF ServedInv, CursorReachesAllDue
<1>3. CursorReachesAllDue' /\ DueInv'
  BY <1>1, <1>2, RemoveKeepsReach, RemoveKeepsDue DEF ServedInv, WheelInv
<1>4. ASSUME NEW n \in Marks  PROVE HandleOK(n)'
  <2>1. HandleOK(n) /\ held'[n] = held[n]
    BY HandleInvPointwise DEF ServedInv, TickFire
  <2> QED  BY <2>1, <1>1, <1>2, RemoveKeepsHandle DEF ServedInv, WheelInv
<1>5. ClockInv'
  BY DEF TickFire, Remove, ServedInv, ClockInv
<1> QED  BY <1>3, <1>4, <1>5 DEF HandleInv, HandleOK

\* The counter moves on only when nothing is left in its tick.
LEMMA TickAdvanceServes ==
  ASSUME ServedInv, TickAdvance
  PROVE  ClockInv' /\ HandleInv' /\ DueInv' /\ CursorReachesAllDue'
<1>1. tick \in Nat /\ nowTick \in Nat /\ TickMs \in Nat \ {0} /\ now \in Nat
  BY WheelAssumption DEF ServedInv, WheelInv, TypeOK
<1>2. ClockInv'
  <2>1. (tick + 1) * TickMs = tick * TickMs + TickMs
    BY <1>1
  <2>2. tick * TickMs <= nowTick * TickMs
    BY <1>1, ProductCancel DEF TickAdvance
  <2> QED  BY <1>1, <2>1, <2>2 DEF TickAdvance, ServedInv, ClockInv
<1>3. PICK before \in SUBSET (Keys \X Keys) : ListsInOrder(before) /\ NoneBehind(before)
  BY DEF ServedInv, CursorReachesAllDue
<1>4. \A k \in Live : entries[k].tick \in Nat /\ entries[k].due \in Nat
  BY DEF ServedInv, WheelInv, TypeOK, Live, Entry
<1>5. \A k \in Live : entries[k].due >= tick + 1
  BY <1>1, <1>3, <1>4 DEF TickAdvance, NoneBehind, Reaches
<1>6. ASSUME NEW k \in Live
      PROVE  /\ SlotFor(entries[k].tick) = SlotFor(tick + 1) =>
                  next' # Empty /\ (next' = k \/ <<next', k>> \in before)
             /\ entries[k].due = tick + 1 => SlotFor(entries[k].tick) = SlotFor(tick + 1)
             /\ entries[k].tick <= tick + 1 /\ SlotFor(entries[k].tick) = SlotFor(tick + 1)
                  => entries[k].due = tick + 1
  <2>1. DueOK(k)
    BY DEF ServedInv, DueInv
  <2>2. SlotFor(entries[k].tick) = SlotFor(tick + 1) =>
          next' # Empty /\ (next' = k \/ <<next', k>> \in before)
    BY <1>3 DEF TickAdvance, ListsInOrder
  <2>3. ASSUME entries[k].tick <= tick + 1, SlotFor(entries[k].tick) = SlotFor(tick + 1)
        PROVE  entries[k].due = tick + 1
    <3>1. CASE ~Late(entries[k])
      BY <1>1, <1>4, <1>5, <2>3, <3>1 DEF Late
    <3>2. CASE Late(entries[k])
      <4>1. /\ (tick + 1) % Slots = entries[k].due % Slots
            /\ tick + 1 <= entries[k].due /\ entries[k].due < (tick + 1) + Slots
        BY <1>1, <1>4, <1>5, <2>1, <2>3, <3>2, WheelAssumption DEF DueOK, SlotFor
      <4>2. tick + 1 \in Nat /\ entries[k].due \in Nat /\ Slots \in Nat \ {0}
        BY <1>1, <1>4, WheelAssumption
      <4> QED  BY <4>1, <4>2, ModUnique
    <3> QED  BY <3>1, <3>2
  <2> QED  BY <2>1, <2>2, <2>3 DEF DueOK
<1>7. Live' = Live /\ entries' = entries /\ wheel' = wheel /\ held' = held /\ tick' = tick + 1
  BY DEF TickAdvance, Live
<1>8. NoneBehind(before)'
  BY <1>5, <1>6, <1>7 DEF NoneBehind, Reaches
<1>9. ListsInOrder(before)'
  BY <1>3, <1>7 DEF ListsInOrder
<1>11. DueInv'
  <2> SUFFICES ASSUME NEW k \in Live PROVE DueOK(k)'
    BY <1>7 DEF DueInv
  <2>1. DueOK(k)
    BY DEF ServedInv, DueInv
  <2>2. entries[k].tick <= tick => entries[k].tick <= tick + 1
    BY <1>1, <1>4
  <2>3. entries[k].due <= tick + Slots => entries[k].due <= (tick + 1) + Slots
    BY <1>1, <1>4, WheelAssumption
  <2> QED  BY <1>7, <2>1, <2>2, <2>3 DEF DueOK, Late
<1>10. HandleInv'
  <2> SUFFICES ASSUME NEW m \in Marks, held[m] # None
               PROVE  \/ /\ held[m].key \in Live
                         /\ entries[held[m].key].tick = held[m].tick
                         /\ entries[held[m].key].mark = m
                      \/ /\ held[m].tick <= tick + 1
                         /\ held[m].key \in Live => \/ entries[held[m].key].tick # held[m].tick
                                                     \/ Late(entries[held[m].key])
    BY <1>7 DEF HandleInv, Late
  <2>1. held[m].tick \in Nat
    BY DEF ServedInv, WheelInv, TypeOK, Timeout
  <2> QED  BY <2>1, <1>1 DEF ServedInv, HandleInv
<1> QED  BY <1>2, <1>8, <1>9, <1>10, <1>11 DEF CursorReachesAllDue

LEMMA TickSkipServes ==
  ASSUME ServedInv, TickSkip
  PROVE  ClockInv' /\ HandleInv' /\ DueInv' /\ CursorReachesAllDue'
<1>1. PICK before \in SUBSET (Keys \X Keys) : ListsInOrder(before) /\ NoneBehind(before)
  BY DEF ServedInv, CursorReachesAllDue
<1>2. next \in Live /\ SlotFor(entries[next].tick) = SlotFor(tick) /\ next # Empty
  BY DEF TickSkip, ServedInv, WheelInv, TypeOK, LinksSound
<1>3. Live' = Live /\ entries' = entries /\ wheel' = wheel /\ held' = held /\ tick' = tick
      /\ next' = entries[next].next
  BY DEF TickSkip, Live
<1>4. entries[next].due # tick /\ ~(entries[next].tick <= tick)
  <2>1. tick \in Nat /\ entries[next].tick \in Nat /\ entries[next].tick > tick
    BY <1>2 DEF TickSkip, ServedInv, WheelInv, TypeOK, Live, Entry
  <2>2. DueOK(next)
    BY <1>2 DEF ServedInv, DueInv
  <2> QED  BY <2>1, <2>2 DEF DueOK, Late
<1>5. next' # Empty => next' \in Live /\ <<next, next'>> \in before
  BY <1>1, <1>2, <1>3 DEF ListsInOrder, ServedInv, WheelInv, LinksSound
<1>6. ASSUME NEW k \in Live, k # next  PROVE Reaches(before, k)' <=> Reaches(before, k)
  <2>1. ASSUME Reaches(before, k)  PROVE Reaches(before, k)'
    <3>1. next' # Empty /\ (next' = k \/ <<next', k>> \in before)
      BY <1>1, <1>2, <1>3, <1>6, <2>1 DEF ListsInOrder, Reaches
    <3> QED  BY <1>3, <2>1, <3>1 DEF Reaches
  <2>2. ASSUME Reaches(before, k)'  PROVE Reaches(before, k)
    <3>1. <<next, k>> \in before
      BY <1>1, <1>2, <1>5, <1>6, <2>2 DEF ListsInOrder, Reaches
    <3> QED  BY <1>2, <1>3, <2>2, <3>1 DEF Reaches
  <2> QED  BY <2>1, <2>2
<1>7. NoneBehind(before)'
  <2> SUFFICES ASSUME NEW k \in Live
               PROVE  /\ entries[k].due >= tick
                      /\ entries[k].due = tick => Reaches(before, k)'
                      /\ entries[k].tick <= tick /\ Reaches(before, k)' => entries[k].due = tick
    BY <1>3 DEF NoneBehind
  <2> QED  BY <1>1, <1>4, <1>6 DEF NoneBehind
<1>8. ListsInOrder(before)'
  BY <1>1, <1>3 DEF ListsInOrder
<1>9. HandleInv' /\ DueInv'
  BY <1>3 DEF ServedInv, HandleInv, DueInv, DueOK, Late
<1>10. ClockInv'
  BY <1>3 DEF TickSkip, ServedInv, ClockInv
<1> QED  BY <1>7, <1>8, <1>9, <1>10 DEF CursorReachesAllDue

LEMMA OthersServe ==
  ASSUME ServedInv,
         \/ Advance \/ (\E pending \in BOOLEAN : EnterPoll(pending))
         \/ ReturnFromPoll \/ BeginProcess \/ TickDone \/ EndCallback \/ UNCHANGED vars
  PROVE  ClockInv' /\ HandleInv' /\ DueInv' /\ CursorReachesAllDue'
<1>1. UNCHANGED <<wheelVars, held>>
  BY DEF Advance, EnterPoll, ReturnFromPoll, BeginProcess, TickDone, EndCallback, vars, wheelVars
<1>2. HandleInv' /\ DueInv' /\ CursorReachesAllDue'
  BY <1>1 DEF wheelVars, ServedInv, HandleInv, DueInv, DueOK, Late, CursorReachesAllDue,
              ListsInOrder, NoneBehind, Reaches, Live
<1>3. ClockInv'
  <2>1. /\ now \in Nat /\ TickMs \in Nat \ {0} /\ tick * TickMs \in Nat
        /\ nowTick * TickMs \in Nat
    BY WheelAssumption DEF ServedInv, WheelInv, TypeOK
  <2>2. CASE Advance
    BY <2>1, <2>2, <1>1 DEF Advance, ServedInv, ClockInv, wheelVars
  <2>3. CASE BeginProcess
    BY <2>1, <2>3, <1>1, RoundDown DEF BeginProcess, ServedInv, ClockInv, wheelVars
  <2>4. CASE (\E pending \in BOOLEAN : EnterPoll(pending)) \/ ReturnFromPoll \/ TickDone
    BY <2>4, <1>1 DEF EnterPoll, ReturnFromPoll, TickDone, ServedInv, ClockInv, wheelVars
  <2>5. CASE EndCallback \/ UNCHANGED vars
    BY <2>5, <1>1 DEF EndCallback, vars, ServedInv, ClockInv, wheelVars
  <2> QED  BY <2>2, <2>3, <2>4, <2>5
<1> QED  BY <1>2, <1>3

LEMMA ServedInvStep == ServedInv /\ [Next]_vars => ServedInv'
<1> SUFFICES ASSUME ServedInv, [Next]_vars  PROVE ServedInv'
  OBVIOUS
<1>1. WheelInv'
  BY WheelInvStep DEF ServedInv
<1> DEFINE Goal == ClockInv' /\ HandleInv' /\ DueInv' /\ CursorReachesAllDue'
<1> SUFFICES Goal
  BY <1>1 DEF ServedInv
<1>2. ASSUME NEW m \in Marks, NEW at \in 0 .. MaxMs, NEW interval \in Intervals,
             TimeoutMsAt(m, at, interval)
      PROVE  Goal
  BY <1>2, TimeoutMsAtServes
<1>3. ASSUME NEW m \in Marks, Clear(m)  PROVE Goal
  BY <1>3, ClearServes
<1>4. CASE Rearm         BY <1>4, RearmServes
<1>5. CASE TickFire      BY <1>5, TickFireServes
<1>6. CASE TickAdvance   BY <1>6, TickAdvanceServes
<1>7. CASE TickSkip      BY <1>7, TickSkipServes
<1>8. CASE \/ Advance \/ (\E pending \in BOOLEAN : EnterPoll(pending))
           \/ ReturnFromPoll \/ BeginProcess \/ TickDone \/ EndCallback \/ UNCHANGED vars
  BY <1>8, OthersServe
<1> QED
  BY <1>2, <1>3, <1>4, <1>5, <1>6, <1>7, <1>8
     DEF Next, UserStep, LoopStep, PollTimesOut, PollWakes

\* tick_to finds every timer in the tick in which it is due and none before,
\* although callbacks and the re-arming of repeating timers edit the lists while
\* its cursor walks them; a request for the past is due when its slot comes round.
THEOREM NoTimerMissed == Spec => []CursorReachesAllDue
<1>1. ServedInv => CursorReachesAllDue
  BY DEF ServedInv
<1> QED  BY <1>1, ServedInvInit, ServedInvStep, PTL DEF Spec

\* A Timeout whose timer has expired never cancels the timer that uses its key
\* now, unless that one was inserted late: comparing ticks in Timer::clear is
\* enough for all others.
THEOREM StaleHandlesHarmless == Spec => []StaleHandleIsHarmless
<1>1. ServedInv => StaleHandleIsHarmless
  BY DEF ServedInv, HandleInv, StaleHandleIsHarmless
<1> QED  BY <1>1, ServedInvInit, ServedInvStep, PTL DEF Spec

----------------------------------------------------------------------------
(* The poll timeout *)

\* While the loop is in poll, its deadline is within a tick of the counter.
SleepInv == phase = "poll" => Live = {} \/ deadline <= now \/ deadline <= (tick + 1) * TickMs

LEMMA SleepInvStep == ServedInv /\ SleepInv /\ [Next]_vars => SleepInv'
<1> SUFFICES ASSUME ServedInv, SleepInv, [Next]_vars, phase' = "poll"
             PROVE  Live' = {} \/ deadline' <= now' \/ deadline' <= (tick' + 1) * TickMs
  BY DEF SleepInv
<1>1. /\ now \in Nat /\ deadline \in Nat /\ tick \in Nat /\ PollMs \in Nat
      /\ (tick + 1) * TickMs \in Nat
  BY WheelAssumption, TimeAssumption DEF ServedInv, WheelInv, TypeOK
<1>2. CASE Advance
  BY <1>1, <1>2 DEF Advance, SleepInv, wheelVars, Live
<1>3. ASSUME NEW pending \in BOOLEAN, EnterPoll(pending)
      PROVE  Live' = {} \/ deadline' <= now' \/ deadline' <= (tick' + 1) * TickMs
  <2>1. Live' = Live /\ now' = now /\ tick' = tick
    BY <1>3 DEF EnterPoll, wheelVars, Live
  <2>2. CASE pending
    BY <2>1, <2>2, <1>1, <1>3 DEF EnterPoll
  <2>3. CASE ~pending /\ Live # {}
    <3>1. deadline' = now + Least(PollMs, NextTickInMs)
      BY <2>3, <1>3 DEF EnterPoll
    <3>2. NextTickInMs = IF (tick + 1) * TickMs <= now THEN 0 ELSE (tick + 1) * TickMs - now
      BY <2>3 DEF NextTickInMs
    <3>3. Least(PollMs, NextTickInMs) <= NextTickInMs
      BY <3>2, <1>1 DEF Least
    <3> QED  BY <2>1, <3>1, <3>2, <3>3, <1>1 DEF Least
  <2> QED  BY <2>1, <2>2, <2>3
<1>4. CASE UNCHANGED vars
  BY <1>1, <1>4 DEF vars, SleepInv, Live
<1> QED
  BY <1>2, <1>3, <1>4
     DEF Next, UserStep, LoopStep, PollTimesOut, PollWakes, ReturnFromPoll, TimeoutMsAt, Clear,
         InHandler, BeginProcess, TickAdvance, TickSkip, TickFire, TickDone, Rearm, EndCallback

\* next_tick_in_ms never lets the loop sleep more than a tick past the start of
\* the tick an armed timer is due in.
THEOREM SleepAlwaysBounded == Spec => []SleepIsBounded
<1>1. Init => SleepInv
  BY DEF Init, SleepInv
<1>2. ServedInv /\ SleepInv => SleepIsBounded
  <2> SUFFICES ASSUME ServedInv, SleepInv, phase = "poll", NEW k \in Live
               PROVE  deadline <= (entries[k].due + 1) * TickMs \/ deadline <= now
    BY DEF SleepIsBounded
  <2>1. entries[k].due \in Nat /\ entries[k].due >= tick
    BY DEF ServedInv, WheelInv, TypeOK, Live, Entry, CursorReachesAllDue, NoneBehind
  <2>2. (tick + 1) * TickMs <= (entries[k].due + 1) * TickMs
    <3>1. tick + 1 \in Nat /\ entries[k].due + 1 \in Nat /\ tick + 1 <= entries[k].due + 1
          /\ TickMs \in Nat
      BY <2>1, WheelAssumption DEF ServedInv, WheelInv, TypeOK
    <3> QED  BY <3>1, ProductMono
  <2>3. /\ (tick + 1) * TickMs \in Nat /\ (entries[k].due + 1) * TickMs \in Nat
        /\ deadline \in Nat
    BY <2>1, WheelAssumption DEF ServedInv, WheelInv, TypeOK
  <2> QED  BY <2>2, <2>3 DEF SleepInv
<1> QED  BY <1>1, <1>2, ServedInvInit, ServedInvStep, SleepInvStep, PTL DEF Spec

----------------------------------------------------------------------------
(* The wheel implements TimerService. *)

\* A mark has at most one timer, and none while it is being re-armed.
MarkInv ==
  /\ \A j, k \in Live : entries[j].mark = entries[k].mark => j = k
  /\ phase = "rearm" => ~HasTimer(fired.mark)

\* The abstract due table.
DueTable == [m \in Marks |-> IF HasTimer(m) THEN entries[Armed(m)].due ELSE None]

\* The table lists exactly the live entries.
DueTableListsEntries ==
  /\ \A k \in Live : entries[k].mark \in Marks /\ DueTable[entries[k].mark] = entries[k].due
  /\ \A m \in Marks : ~HasTimer(m) => DueTable[m] = None
  /\ \A m \in Marks : HasTimer(m) =>
       \E k \in Live : entries[k].mark = m /\ DueTable[m] = entries[k].due

LEMMA DueTableLists == TypeOK /\ MarkInv => DueTableListsEntries
<1> SUFFICES ASSUME TypeOK, MarkInv  PROVE DueTableListsEntries
  OBVIOUS
<1>1. \A k \in Live : entries[k] \in Entry /\ entries[k].mark \in Marks
  BY DEF TypeOK, Live, Entry
<1>2. ASSUME NEW k \in Live  PROVE DueTable[entries[k].mark] = entries[k].due
  <2>1. HasTimer(entries[k].mark)
    BY DEF HasTimer
  <2>2. Armed(entries[k].mark) = k
    BY DEF Armed, MarkInv
  <2> QED  BY <2>1, <2>2, <1>1 DEF DueTable
<1>3. \A m \in Marks : ~HasTimer(m) => DueTable[m] = None
  BY DEF DueTable
<1>4. ASSUME NEW m \in Marks, HasTimer(m)
      PROVE  \E k \in Live : entries[k].mark = m /\ DueTable[m] = entries[k].due
  <2>1. PICK k \in Live : entries[k].mark = m
    BY <1>4 DEF HasTimer
  <2> QED  BY <2>1, <1>2
<1> QED  BY <1>1, <1>2, <1>3, <1>4 DEF DueTableListsEntries

LEMMA DueTableListsNext == TypeOK' /\ MarkInv' => DueTableListsEntries'
  BY DueTableLists, PTL

\* Inserting an entry sets the due tick of its mark, removing one clears it,
\* and nothing else in the table changes.
LEMMA InsertArms ==
  ASSUME TypeOK, LinksSound, MarkInv, MarkInv',
         NEW key \in Keys \ Live, NEW m \in Marks, NEW t \in Nat,
         NEW interval \in Intervals \cup {0}, ~HasTimer(m), Insert(key, m, t, interval),
         TypeOK'
  PROVE  DueTable[m] = None /\ DueTable' = [DueTable EXCEPT ![m] = Due(t)]
<1>1. DueTable[m] = None
  BY DEF DueTable
<1>2. ASSUME NEW n \in Marks  PROVE DueTable'[n] = IF n = m THEN Due(t) ELSE DueTable[n]
  <2>1. CASE n = m
    <3>1. key \in Live' /\ entries'[key].mark = m /\ entries'[key].due = Due(t)
      BY InsertEffect
    <3> QED  BY <3>1, <2>1, DueTableLists, DueTableListsNext DEF DueTableListsEntries
  <2>2. CASE n # m /\ HasTimer(n)
    <3>1. PICK k \in Live : entries[k].mark = n /\ DueTable[n] = entries[k].due
      BY <2>2, DueTableLists, DueTableListsNext DEF DueTableListsEntries
    <3>2. k \in Live' /\ entries'[k].mark = n /\ entries'[k].due = entries[k].due
      BY <3>1, InsertEffect
    <3> QED  BY <3>1, <3>2, <2>2, DueTableLists, DueTableListsNext DEF DueTableListsEntries
  <2>3. CASE n # m /\ ~HasTimer(n)
    <3>1. ~HasTimer(n)'
      BY <2>3, InsertEffect DEF HasTimer
    <3> QED  BY <3>1, <2>3, DueTableLists, DueTableListsNext DEF DueTableListsEntries
  <2> QED  BY <2>1, <2>2, <2>3
<1> QED  BY <1>1, <1>2 DEF DueTable

LEMMA RemoveDisarms ==
  ASSUME TypeOK, LinksSound, MarkInv, MarkInv', TypeOK',
         NEW before, ListsInOrder(before), NEW key \in Live, Remove(key)
  PROVE  /\ entries[key].mark \in Marks
         /\ DueTable[entries[key].mark] = entries[key].due
         /\ DueTable' = [DueTable EXCEPT ![entries[key].mark] = None]
<1> DEFINE m == entries[key].mark
<1>1. m \in Marks /\ DueTable[m] = entries[key].due
  BY DueTableLists, DueTableListsNext DEF DueTableListsEntries
<1>2. ASSUME NEW n \in Marks  PROVE DueTable'[n] = IF n = m THEN None ELSE DueTable[n]
  <2>1. CASE n = m
    <3>1. ~HasTimer(n)'
      BY <2>1, RemoveEffect DEF HasTimer, MarkInv
    <3> QED  BY <3>1, <2>1, DueTableLists, DueTableListsNext DEF DueTableListsEntries
  <2>2. CASE n # m /\ HasTimer(n)
    <3>1. PICK k \in Live : entries[k].mark = n /\ DueTable[n] = entries[k].due
      BY <2>2, DueTableLists, DueTableListsNext DEF DueTableListsEntries
    <3>2. k \in Live' /\ entries'[k].mark = n /\ entries'[k].due = entries[k].due
      BY <3>1, <2>2, RemoveEffect
    <3> QED  BY <3>1, <3>2, <2>2, DueTableLists, DueTableListsNext DEF DueTableListsEntries
  <2>3. CASE n # m /\ ~HasTimer(n)
    <3>1. ~HasTimer(n)'
      BY <2>3, RemoveEffect DEF HasTimer
    <3> QED  BY <3>1, <2>3, DueTableLists, DueTableListsNext DEF DueTableListsEntries
  <2> QED  BY <2>1, <2>2, <2>3
<1> QED  BY <1>1, <1>2 DEF DueTable

LEMMA MarkInvStep == WheelInv /\ MarkInv /\ [Next]_vars => MarkInv'
<1> SUFFICES ASSUME WheelInv, MarkInv, [Next]_vars  PROVE MarkInv'
  OBVIOUS
<1>1. PICK before \in SUBSET (Keys \X Keys) : ListsInOrder(before)
  BY DEF WheelInv
<1>2. ASSUME NEW key \in Keys \ Live, NEW m \in Marks, NEW t \in Nat,
             NEW interval \in Intervals \cup {0}, Insert(key, m, t, interval),
             ~HasTimer(m), phase' # "rearm"
      PROVE  MarkInv'
  BY <1>2, InsertEffect DEF MarkInv, HasTimer, WheelInv
<1>3. ASSUME NEW key \in Live, Remove(key),
             phase' = "rearm" => fired'.mark = entries[key].mark
      PROVE  MarkInv'
  BY <1>1, <1>3, RemoveEffect DEF MarkInv, HasTimer, WheelInv
<1>4. ASSUME UNCHANGED entries, phase' # "rearm" \/ UNCHANGED <<phase, fired>>
      PROVE  MarkInv'
  BY <1>4 DEF MarkInv, HasTimer, Live
<1>5. ASSUME NEW m \in Marks, NEW at \in 0 .. MaxMs, NEW interval \in Intervals,
             TimeoutMsAt(m, at, interval)
      PROVE  MarkInv'
  <2>1. TickOf(at) \in Nat
    BY TimeAssumption, TickOfIsTick DEF WheelInv
  <2> QED  BY <2>1, <1>2, <1>5 DEF TimeoutMsAt, InHandler
<1>6. ASSUME NEW m \in Marks, Clear(m)  PROVE MarkInv'
  <2>1. phase' = phase /\ phase # "rearm"
    BY <1>6 DEF Clear, InHandler
  <2>2. CASE held[m].key \in Live /\ Remove(held[m].key)
    BY <2>1, <2>2, <1>3
  <2>3. CASE UNCHANGED wheelVars
    BY <2>1, <2>3, <1>4 DEF wheelVars
  <2> QED  BY <2>2, <2>3, <1>6 DEF Clear
<1>7. CASE Rearm
  <2>1. fired.mark \in Marks /\ fired.interval \in Intervals \cup {0} /\ ~HasTimer(fired.mark)
    BY <1>7 DEF Rearm, WheelInv, HandlingOK, Fired, MarkInv
  <2>2. Intervals \cup {0} \subseteq Nat
    BY TimeAssumption
  <2>3. now + fired.interval \in Nat
    BY <2>1, <2>2 DEF WheelInv, TypeOK
  <2>4. TickOf(now + fired.interval) \in Nat
    BY <2>3, TickOfIsTick DEF WheelInv
  <2>5. PICK key \in Keys \ Live : Insert(key, fired.mark, TickOf(now + fired.interval), 0)
    BY <1>7 DEF Rearm
  <2> QED  BY <2>1, <2>4, <2>5, <1>2, <1>7 DEF Rearm
<1>8. CASE TickFire
  <2>1. next \in Live /\ Remove(next) /\ fired'.mark = entries[next].mark
    BY <1>8 DEF TickFire, WheelInv, LinksSound
  <2> QED  BY <2>1, <1>3
<1>9. CASE TickAdvance \/ TickSkip
  BY <1>9, <1>4 DEF TickAdvance, TickSkip
<1>10. CASE \/ Advance \/ (\E pending \in BOOLEAN : EnterPoll(pending))
            \/ ReturnFromPoll \/ BeginProcess \/ TickDone \/ EndCallback \/ UNCHANGED vars
  BY <1>10, <1>4 DEF Advance, EnterPoll, ReturnFromPoll, BeginProcess, TickDone, EndCallback,
                     vars, wheelVars
<1> QED
  BY <1>5, <1>6, <1>7, <1>8, <1>9, <1>10 DEF Next, UserStep, LoopStep, PollTimesOut, PollWakes

\* Every step of the wheel is a step of the service or changes nothing of it.
LEMMA StepImplements ==
  ASSUME ServedInv, MarkInv, ServedInv', MarkInv', [Next]_vars
  PROVE  /\ [Service!Next]_(Service!vars)
         /\ TickFire => Service!Fire(entries[next].mark)
<1> DEFINE Goal == [Service!Next]_(Service!vars)
<1>1. PICK before \in SUBSET (Keys \X Keys) : ListsInOrder(before) /\ NoneBehind(before)
  BY DEF ServedInv, CursorReachesAllDue
<1>2. TypeOK /\ TypeOK' /\ LinksSound /\ ClockInv /\ tick \in Nat
  BY DEF ServedInv, WheelInv, TypeOK
<1>3. ASSUME NEW key \in Keys \ Live, NEW m \in Marks, NEW t \in Nat,
             NEW interval \in Intervals \cup {0}, ~HasTimer(m), Insert(key, m, t, interval)
      PROVE  Goal
  <2>1. DueTable[m] = None /\ DueTable' = [DueTable EXCEPT ![m] = Due(t)] /\ tick' = tick
    <3>1. tick' = tick
      BY <1>3 DEF Insert
    <3> QED  BY <3>1, <1>2, <1>3, InsertArms
  <2>2. DueTable'[m] = Due(t) /\ Due(t) \in Nat /\ Due(t) > tick
    BY <1>2, <2>1, DueAhead DEF DueTable
  <2>3. Service!Arm(m)
    BY <2>1, <2>2, <1>3 DEF Service!Arm, Service!Sets, Service!Armed, DueTable
  <2> QED  BY <2>1, <2>3 DEF Service!Next
<1>4. ASSUME NEW key \in Live, Remove(key)  PROVE Goal
  <2>1. /\ entries[key].mark \in Marks
        /\ DueTable[entries[key].mark] = entries[key].due
        /\ DueTable' = [DueTable EXCEPT ![entries[key].mark] = None]
        /\ tick' = tick
    BY <1>1, <1>2, <1>4, RemoveDisarms DEF Remove
  <2>2. entries[key].due # None
    BY NullAssumption DEF ServedInv, WheelInv, TypeOK, Live, Entry
  <2>3. Service!Cancel(entries[key].mark)
    BY <2>1, <2>2 DEF Service!Cancel, Service!Armed, DueTable
  <2> QED  BY <2>1, <2>3 DEF Service!Next
<1>5. ASSUME UNCHANGED <<entries, tick>>  PROVE Goal
  BY <1>5 DEF Service!vars, HasTimer, Armed, Live
<1>6. ASSUME NEW m \in Marks, NEW at \in 0 .. MaxMs, NEW interval \in Intervals,
             TimeoutMsAt(m, at, interval)
      PROVE  Goal
  <2>1. TickOf(at) \in Nat
    BY <1>2, TimeAssumption, TickOfIsTick
  <2> QED  BY <2>1, <1>3, <1>6 DEF TimeoutMsAt
<1>7. ASSUME NEW m \in Marks, Clear(m)  PROVE Goal
  BY <1>4, <1>5, <1>7 DEF Clear, wheelVars
<1>8. ASSUME Rearm  PROVE Goal
  <2>1. /\ fired.mark \in Marks /\ fired.interval \in Intervals \cup {0}
        /\ fired.interval > 0 /\ ~HasTimer(fired.mark)
    BY <1>8 DEF Rearm, ServedInv, WheelInv, HandlingOK, Fired, MarkInv
  <2>2. Intervals \cup {0} \subseteq Nat
    BY TimeAssumption
  <2>3. now + fired.interval \in Nat
    BY <1>2, <2>1, <2>2 DEF TypeOK
  <2>4. TickOf(now + fired.interval) \in Nat
    BY <1>2, <2>3, TickOfIsTick
  <2>5. PICK key \in Keys \ Live : Insert(key, fired.mark, TickOf(now + fired.interval), 0)
    BY <1>8 DEF Rearm
  <2> QED  BY <2>1, <2>4, <2>5, <1>3
<1>9. ASSUME TickFire  PROVE Goal /\ Service!Fire(entries[next].mark)
  <2>1. next \in Live /\ Remove(next) /\ entries[next].tick <= tick
    BY <1>2, <1>9 DEF TickFire, LinksSound
  <2>2. entries[next].due = tick
    <3>1. Reaches(before, next)
      BY <1>2, <1>9, <2>1 DEF Reaches, TickFire, LinksSound
    <3> QED  BY <2>1, <1>1, <3>1 DEF NoneBehind
  <2>3. /\ entries[next].mark \in Marks
        /\ DueTable[entries[next].mark] = tick
        /\ DueTable' = [DueTable EXCEPT ![entries[next].mark] = None]
        /\ tick' = tick
    BY <1>1, <1>2, <2>1, <2>2, RemoveDisarms DEF Remove
  <2>4. Service!Fire(entries[next].mark)
    BY <1>2, <2>3, NullAssumption DEF Service!Fire, Service!Armed, DueTable
  <2> QED  BY <2>3, <2>4 DEF Service!Next
<1>10. ASSUME TickAdvance  PROVE Goal
  <2>1. \A m \in Marks : DueTable[m] # tick
    <3> SUFFICES ASSUME NEW m \in Marks, DueTable[m] = tick  PROVE FALSE
      OBVIOUS
    <3>1. HasTimer(m)
      BY <1>2, NullAssumption DEF DueTable
    <3>2. PICK k \in Live : DueTable[m] = entries[k].due
      BY <3>1, <1>2, DueTableLists DEF DueTableListsEntries
    <3> QED  BY <3>2, <1>1, <1>10 DEF NoneBehind, Reaches, TickAdvance
  <2>2. DueTable' = DueTable /\ tick' = tick + 1
    BY <1>10 DEF TickAdvance, DueTable, HasTimer, Armed, Live
  <2>3. Service!Elapse
    BY <2>1, <2>2 DEF Service!Elapse, Service!Armed, DueTable
  <2> QED  BY <2>3 DEF Service!Next
<1>11. ASSUME \/ Advance \/ (\E pending \in BOOLEAN : EnterPoll(pending)) \/ TickSkip
              \/ ReturnFromPoll \/ BeginProcess \/ TickDone \/ EndCallback \/ UNCHANGED vars
       PROVE  Goal
  BY <1>5, <1>11 DEF Advance, EnterPoll, TickSkip, ReturnFromPoll, BeginProcess, TickDone,
                     EndCallback, vars, wheelVars
<1> QED
  BY <1>6, <1>7, <1>8, <1>9, <1>10, <1>11
     DEF Next, UserStep, LoopStep, PollTimesOut, PollWakes

\* The tick of a request for the future begins at its instant or later, and
\* less than two ticks later.
LEMMA FutureArmsInTime ==
  ASSUME ServedInv, NEW m \in Marks, NEW at \in 0 .. MaxMs, NEW interval \in Intervals
  PROVE  ArmsInTime(m, at, interval)
<1> SUFFICES ASSUME TimeoutMsAt(m, at, interval), at > now
             PROVE  LET begins == TickMs * entries'[held'[m].key].due
                    IN  at <= begins /\ begins < at + 2 * TickMs
  BY DEF ArmsInTime
<1> DEFINE t == TickOf(at)
           lead == at - now
<1>1. TickMs \in Nat \ {0} /\ now \in Nat /\ tick \in Nat /\ at \in Nat
  BY WheelAssumption, TimeAssumption DEF ServedInv, WheelInv, TypeOK
<1>2. t \in Nat /\ t > tick
  <2>1. lead \in Nat \ {0} /\ now + lead = at
    BY <1>1
  <2> HIDE DEF lead
  <2> QED  BY <2>1, FutureTick DEF ServedInv, WheelInv
<1>3. PICK key \in Keys \ Live :
        Insert(key, m, t, interval) /\ held' = [held EXCEPT ![m] = [key |-> key, tick |-> t]]
  BY DEF TimeoutMsAt
<1>4. entries'[key].due = Due(t) /\ held'[m].key = key
  BY <1>2, <1>3, InsertEffect DEF ServedInv, WheelInv, TypeOK
<1>5. entries'[held'[m].key].due = t
  BY <1>2, <1>4, DueAhead DEF ServedInv, WheelInv
<1> DEFINE c == (at + TickMs - 1) \div TickMs
<1>6. c \in Nat /\ c * TickMs >= at
  BY <1>1, RoundUp
<1>7. c * TickMs <= at + TickMs - 1
  <2>1. at + TickMs - 1 \in Nat
    BY <1>1
  <2> QED  BY <1>1, <2>1, RoundDown
<1>8. t = c \/ t = c + 1
  BY DEF TickOf
<1> HIDE DEF c, t
<1>9. (c + 1) * TickMs = c * TickMs + TickMs /\ TickMs * t = t * TickMs
  BY <1>1, <1>2, <1>6
<1>10. at <= TickMs * t /\ TickMs * t < at + 2 * TickMs
  <2>1. CASE t = c
    BY <1>1, <1>6, <1>7, <1>9, <2>1
  <2>2. CASE t = c + 1
    BY <1>1, <1>6, <1>7, <1>9, <2>2
  <2> QED  BY <1>8, <2>1, <2>2
<1> QED  BY <1>5, <1>10

\* The timer wheel implements the timer service: every timer fires exactly
\* once, in the tick in which it is due, unless it is cancelled; and a request
\* for the future is due neither before its instant nor two ticks after it.
THEOREM WheelImplementsService == Spec => ImplementsService
<1>1. Init => MarkInv
  BY DEF Init, MarkInv, Live
<1>2. Init => Service!Init
  BY DEF Init, Service!Init, HasTimer, Live
<1>3. ServedInv => WheelInv
  BY DEF ServedInv
<1>4. ServedInv /\ MarkInv /\ ServedInv' /\ MarkInv' /\ [Next]_vars =>
        /\ [Service!Next]_(Service!vars)
        /\ [TickFire => Service!Fire(entries[next].mark)]_vars
  BY StepImplements
<1>5. ServedInv =>
        [\A m \in Marks, at \in 0 .. MaxMs, interval \in Intervals : ArmsInTime(m, at, interval)]_vars
  BY FutureArmsInTime
<1> QED
  BY <1>1, <1>2, <1>3, <1>4, <1>5, ServedInvInit, ServedInvStep, MarkInvStep, PTL
     DEF Spec, ImplementsService, Service!Spec

=============================================================================
