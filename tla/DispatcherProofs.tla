-------------------------- MODULE DispatcherProofs --------------------------
(***************************************************************************)
(* Theorems about the dispatchers of a pool, for any number of loops,       *)
(* streams, requests and letters.                                           *)
(*                                                                          *)
(* Inv holds of any pool, also of one with more connections than it has     *)
(* room for: a stream is in one place at a time (Places), and a Removed in  *)
(* a channel names a connection that is still there (Leaves).  Strong adds  *)
(* what holds as long as no loop has more streams at a time than its        *)
(* capacity, MaxOpen <= Cap: keys stay below the offset of the next loop    *)
(* (Limits), so that the table is exact (Sharing) and no loop ends.         *)
(***************************************************************************)
EXTENDS Dispatcher, SequenceTheorems, FunctionTheorems, FiniteSetTheorems, TLAPS

Entry == Streams \cup {None}

LEMMA ConstantTypes ==
  /\ PoolSize \in Nat /\ PoolSize > 0 /\ Cap \in Nat /\ MaxOpen \in Nat /\ MaxStreams \in Nat
  /\ MaxRequests \in Nat /\ MaxLetters \in Nat
  BY DispatcherAssumption

LEMMA StreamTypes == /\ None \notin Streams
                     /\ \A s \in Streams : s \in Nat
                     /\ \A l \in Loops : l \in Nat
  BY DispatcherAssumption DEF Streams, Loops

----------------------------------------------------------------------------
(* A slab e and the stack f of its vacant keys *)

KeysOf(e) == {k \in 0 .. Len(e) - 1 : e[k + 1] # None}

\* The stack lists each vacant key once, and no other.
Vacancies(e, f) ==
  /\ \A i \in 1 .. Len(f) : f[i] \in 0 .. Len(e) - 1 /\ e[f[i] + 1] = None
  /\ \A i, j \in 1 .. Len(f) : f[i] = f[j] => i = j
  /\ \A k \in 0 .. Len(e) - 1 : e[k + 1] = None => \E i \in 1 .. Len(f) : f[i] = k

\* An insert into a slab without vacancies.
LEMMA InsertAtEnd ==
  ASSUME NEW e \in Seq(Entry), NEW f \in Seq(Nat), NEW s \in Streams, Vacancies(e, f), f = <<>>
  PROVE  LET e2 == Append(e, s)
         IN  /\ e2 \in Seq(Entry) /\ Len(e2) = Len(e) + 1
             /\ KeysOf(e) = 0 .. Len(e) - 1
             /\ KeysOf(e2) = KeysOf(e) \cup {Len(e)}
             /\ e2[Len(e) + 1] = s
             /\ \A k \in KeysOf(e) : e2[k + 1] = e[k + 1]
             /\ Vacancies(e2, f)
<1> DEFINE e2 == Append(e, s)
<1>1. /\ e2 \in Seq(Entry) /\ Len(e2) = Len(e) + 1 /\ Len(e) \in Nat
      /\ \A i \in 1 .. Len(e) : e2[i] = e[i]
      /\ e2[Len(e) + 1] = s
  BY AppendProperties, LenProperties DEF Entry
<1> HIDE DEF e2
<1>2. Len(f) = 0
  BY EmptySeq
<1>3. \A k \in 0 .. Len(e) - 1 : e[k + 1] # None
  BY <1>2 DEF Vacancies
<1>4. \A k \in 0 .. Len(e) - 1 : k + 1 \in 1 .. Len(e)
  BY <1>1
<1>5. s # None
  BY StreamTypes
<1>6. 0 .. Len(e2) - 1 = (0 .. Len(e) - 1) \cup {Len(e)}
  BY <1>1
<1>7. KeysOf(e) = 0 .. Len(e) - 1
  BY <1>3 DEF KeysOf
<1>8. \A k \in 0 .. Len(e) - 1 : e2[k + 1] = e[k + 1]
  BY <1>1, <1>4
<1>9. \A k \in 0 .. Len(e2) - 1 : e2[k + 1] # None
  BY <1>1, <1>3, <1>5, <1>6, <1>8
<1>10. KeysOf(e2) = KeysOf(e) \cup {Len(e)}
  BY <1>6, <1>7, <1>9 DEF KeysOf
<1>11. Vacancies(e2, f)
  BY <1>2, <1>9 DEF Vacancies
<1> QED  BY <1>1, <1>7, <1>8, <1>10, <1>11 DEF e2

\* An insert at the top of the stack.
LEMMA InsertAtHead ==
  ASSUME NEW e \in Seq(Entry), NEW f \in Seq(Nat), NEW s \in Streams, Vacancies(e, f), f # <<>>
  PROVE  LET e2 == [e EXCEPT ![Head(f) + 1] = s]
         IN  /\ e2 \in Seq(Entry) /\ Len(e2) = Len(e) /\ Tail(f) \in Seq(Nat)
             /\ Head(f) \in 0 .. Len(e) - 1 /\ Head(f) \notin KeysOf(e)
             /\ KeysOf(e2) = KeysOf(e) \cup {Head(f)}
             /\ e2[Head(f) + 1] = s
             /\ \A k \in KeysOf(e) : e2[k + 1] = e[k + 1]
             /\ Vacancies(e2, Tail(f))
<1> DEFINE key == Head(f)
           e2 == [e EXCEPT ![key + 1] = s]
           g == Tail(f)
<1>1. /\ g \in Seq(Nat) /\ Len(g) = Len(f) - 1 /\ Len(f) \in Nat /\ Len(f) > 0
      /\ \A i \in 1 .. Len(g) : g[i] = f[i + 1]
      /\ key = f[1]
  BY HeadTailProperties, LenProperties, EmptySeq
<1>2. 1 \in 1 .. Len(f)
  BY <1>1
<1>3. key \in 0 .. Len(e) - 1 /\ e[key + 1] = None
  BY <1>1, <1>2 DEF Vacancies
<1>4. Len(e) \in Nat /\ key + 1 \in 1 .. Len(e)
  BY <1>3, LenProperties
<1>5. /\ e2 \in Seq(Entry) /\ Len(e2) = Len(e)
      /\ \A j \in 1 .. Len(e) : e2[j] = IF j = key + 1 THEN s ELSE e[j]
  BY <1>4, ExceptSeq DEF Entry
<1> HIDE DEF e2, key, g
<1>6. \A k \in 0 .. Len(e) - 1 : k + 1 \in 1 .. Len(e) /\ (k + 1 = key + 1 <=> k = key)
  BY <1>3, <1>4
<1>7. \A k \in 0 .. Len(e) - 1 : e2[k + 1] = IF k = key THEN s ELSE e[k + 1]
  BY <1>5, <1>6
<1>8. s # None
  BY StreamTypes
<1>9. KeysOf(e2) = KeysOf(e) \cup {key}
  BY <1>3, <1>5, <1>7, <1>8 DEF KeysOf
<1>10. \A k \in KeysOf(e) : e2[k + 1] = e[k + 1]
  BY <1>3, <1>7 DEF KeysOf
<1>11. Vacancies(e2, g)
  <2>1. \A i \in 1 .. Len(g) : i + 1 \in 1 .. Len(f) /\ i + 1 # 1
    BY <1>1
  <2>2. ASSUME NEW i \in 1 .. Len(g)
        PROVE  g[i] \in 0 .. Len(e) - 1 /\ g[i] # key /\ e[g[i] + 1] = None
    <3>1. g[i] = f[i + 1] /\ i + 1 \in 1 .. Len(f) /\ i + 1 # 1
      BY <1>1, <2>1
    <3>2. f[i + 1] = f[1] => i + 1 = 1
      BY <1>2, <3>1 DEF Vacancies
    <3>3. f[i + 1] \in 0 .. Len(e) - 1 /\ e[f[i + 1] + 1] = None
      BY <3>1 DEF Vacancies
    <3> QED  BY <1>1, <3>1, <3>2, <3>3
  <2>3. ASSUME NEW i \in 1 .. Len(g), NEW j \in 1 .. Len(g), g[i] = g[j]  PROVE i = j
    <3>1. f[i + 1] = f[j + 1] /\ i + 1 \in 1 .. Len(f) /\ j + 1 \in 1 .. Len(f)
      BY <1>1, <2>1, <2>3
    <3>2. i + 1 = j + 1
      BY <3>1 DEF Vacancies
    <3> QED  BY <3>2
  <2>4. ASSUME NEW k \in 0 .. Len(e) - 1, e2[k + 1] = None  PROVE \E i \in 1 .. Len(g) : g[i] = k
    <3>1. k # key /\ e[k + 1] = None
      BY <1>7, <1>8, <2>4
    <3>2. PICK i \in 1 .. Len(f) : f[i] = k
      BY <3>1 DEF Vacancies
    <3>3. i - 1 \in 1 .. Len(g) /\ (i - 1) + 1 = i
      BY <1>1, <3>1, <3>2
    <3>4. g[i - 1] = k
      BY <1>1, <3>2, <3>3
    <3> QED  BY <3>3, <3>4
  <2> QED  BY <1>5, <1>7, <2>2, <2>3, <2>4 DEF Vacancies
<1>12. s = e2[key + 1] /\ key \notin KeysOf(e)
  BY <1>3, <1>7 DEF KeysOf
<1> QED  BY <1>1, <1>3, <1>5, <1>9, <1>10, <1>11, <1>12 DEF e2, key, g

\* A remove.
LEMMA RemoveKey ==
  ASSUME NEW e \in Seq(Entry), NEW f \in Seq(Nat), NEW key \in KeysOf(e), Vacancies(e, f)
  PROVE  LET e2 == [e EXCEPT ![key + 1] = None]
         IN  /\ e2 \in Seq(Entry) /\ Len(e2) = Len(e) /\ <<key>> \o f \in Seq(Nat)
             /\ KeysOf(e2) = KeysOf(e) \ {key}
             /\ \A k \in KeysOf(e2) : e2[k + 1] = e[k + 1]
             /\ Vacancies(e2, <<key>> \o f)
<1> DEFINE e2 == [e EXCEPT ![key + 1] = None]
           g == <<key>> \o f
<1>1. Len(e) \in Nat /\ key \in 0 .. Len(e) - 1 /\ key + 1 \in 1 .. Len(e) /\ key \in Nat
  BY LenProperties DEF KeysOf
<1>2. /\ e2 \in Seq(Entry) /\ Len(e2) = Len(e)
      /\ \A j \in 1 .. Len(e) : e2[j] = IF j = key + 1 THEN None ELSE e[j]
  BY <1>1, ExceptSeq DEF Entry
<1>3. /\ g \in Seq(Nat) /\ Len(g) = Len(f) + 1 /\ Len(f) \in Nat
      /\ \A i \in 1 .. Len(f) + 1 : g[i] = IF i <= 1 THEN key ELSE f[i - 1]
  <2>1. <<key>> \in Seq(Nat) /\ Len(<<key>>) = 1 /\ <<key>>[1] = key
    BY <1>1
  <2>2. Len(f) \in Nat
    BY LenProperties
  <2>3. /\ g \in Seq(Nat) /\ Len(g) = 1 + Len(f)
        /\ \A i \in 1 .. 1 + Len(f) : g[i] = IF i <= 1 THEN <<key>>[i] ELSE f[i - 1]
    BY <2>1, ConcatProperties
  <2>4. 1 .. Len(f) + 1 = 1 .. 1 + Len(f) /\ \A i \in 1 .. 1 + Len(f) : i <= 1 => i = 1
    BY <2>2
  <2> QED  BY <2>1, <2>2, <2>3, <2>4
<1> HIDE DEF e2, g
<1>4. \A k \in 0 .. Len(e) - 1 : k + 1 \in 1 .. Len(e) /\ (k + 1 = key + 1 <=> k = key)
  BY <1>1
<1>5. \A k \in 0 .. Len(e) - 1 : e2[k + 1] = IF k = key THEN None ELSE e[k + 1]
  BY <1>2, <1>4
<1>6. KeysOf(e2) = KeysOf(e) \ {key}
  BY <1>1, <1>2, <1>5 DEF KeysOf
<1>7. \A k \in KeysOf(e2) : e2[k + 1] = e[k + 1]
  BY <1>5, <1>6 DEF KeysOf
<1>8. Vacancies(e2, g)
  <2>1. \A i \in 1 .. Len(g) : i = 1 \/ i - 1 \in 1 .. Len(f)
    BY <1>3
  <2>2. \A i \in 1 .. Len(g) : g[i] = IF i = 1 THEN key ELSE f[i - 1]
    <3>1. \A i \in 1 .. Len(g) : i \in 1 .. Len(f) + 1 /\ (i <= 1 <=> i = 1)
      BY <1>3
    <3> QED  BY <1>3, <3>1
  <2>3. \A i \in 1 .. Len(f) : f[i] \in 0 .. Len(e) - 1 /\ f[i] # key /\ e[f[i] + 1] = None
    <3>1. \A i \in 1 .. Len(f) : f[i] \in 0 .. Len(e) - 1 /\ e[f[i] + 1] = None
      BY DEF Vacancies
    <3>2. e[key + 1] # None
      BY DEF KeysOf
    <3> QED  BY <3>1, <3>2
  <2>4. ASSUME NEW i \in 1 .. Len(g)  PROVE g[i] \in 0 .. Len(e) - 1 /\ e2[g[i] + 1] = None
    <3>1. g[i] \in 0 .. Len(e) - 1 /\ (g[i] # key => e[g[i] + 1] = None)
      BY <1>1, <2>1, <2>2, <2>3
    <3> QED  BY <1>5, <3>1
  <2>5. ASSUME NEW i \in 1 .. Len(g), NEW j \in 1 .. Len(g), g[i] = g[j]  PROVE i = j
    <3>1. CASE i = 1 \/ j = 1
      BY ZenonT(60), <2>1, <2>2, <2>3, <2>5, <3>1
    <3>2. CASE i # 1 /\ j # 1
      <4>1. i - 1 \in 1 .. Len(f) /\ j - 1 \in 1 .. Len(f) /\ f[i - 1] = f[j - 1]
        BY <2>1, <2>2, <2>5, <3>2
      <4>2. i - 1 = j - 1
        BY <4>1 DEF Vacancies
      <4> QED  BY <4>2
    <3> QED  BY <3>1, <3>2
  <2>6. ASSUME NEW k \in 0 .. Len(e) - 1, e2[k + 1] = None  PROVE \E i \in 1 .. Len(g) : g[i] = k
    <3>1. CASE k = key
      <4>1. 1 \in 1 .. Len(g)
        BY <1>3
      <4> QED  BY <2>2, <3>1, <4>1
    <3>2. CASE k # key
      <4>1. PICK i \in 1 .. Len(f) : f[i] = k
        BY <1>5, <2>6, <3>2 DEF Vacancies
      <4>2. i + 1 \in 1 .. Len(g) /\ i + 1 # 1 /\ (i + 1) - 1 = i
        BY <1>3
      <4> QED  BY <2>2, <4>1, <4>2
    <3> QED  BY <3>1, <3>2
  <2> QED  BY <1>2, <2>4, <2>5, <2>6 DEF Vacancies
<1> QED  BY <1>2, <1>3, <1>6, <1>7, <1>8 DEF e2, g

----------------------------------------------------------------------------
(* Tokens *)

LEMMA TokenType ==
  ASSUME NEW l \in Loops, NEW k \in Nat
  PROVE  Token(l, k) \in Nat /\ Token(l, k) - l * Cap = k
<1>1. l \in Nat /\ Cap \in Nat
  BY StreamTypes, ConstantTypes
<1>2. l * Cap \in Nat
  BY <1>1
<1> DEFINE base == l * Cap
<1> HIDE DEF base
<1>3. base \in Nat => base + k \in Nat /\ (base + k) - base = k
  OBVIOUS
<1> QED  BY <1>2, <1>3 DEF Token, base

\* The tokens of one loop end before those of the next begin.
LEMMA TokenUnique ==
  ASSUME NEW l1 \in Loops, NEW l2 \in Loops, NEW k1 \in 0 .. Cap - 1, NEW k2 \in 0 .. Cap - 1,
         Token(l1, k1) = Token(l2, k2)
  PROVE  l1 = l2 /\ k1 = k2
<1>0. l1 \in Nat /\ l2 \in Nat /\ Cap \in Nat
  BY StreamTypes, ConstantTypes
<1>1. ASSUME NEW a \in Nat, NEW b \in Nat, a < b  PROVE a * Cap + Cap <= b * Cap
  <2>1. (a + 1) * Cap <= b * Cap
    <3>1. b - (a + 1) \in Nat /\ b = (a + 1) + (b - (a + 1))
      BY <1>1
    <3>2. b * Cap = (a + 1) * Cap + (b - (a + 1)) * Cap
      BY <1>0, <3>1
    <3>3. (b - (a + 1)) * Cap \in Nat /\ (a + 1) * Cap \in Nat
      BY <1>0, <3>1
    <3> QED  BY <3>2, <3>3
  <2>2. (a + 1) * Cap = a * Cap + Cap
    BY <1>0
  <2> QED  BY <2>1, <2>2
<1>2. l1 * Cap \in Nat /\ l2 * Cap \in Nat /\ l1 * Cap + k1 = l2 * Cap + k2
  BY <1>0 DEF Token
<1>3. ~(l1 < l2)
  <2>1. l1 < l2 => l1 * Cap + Cap <= l2 * Cap
    BY <1>0, <1>1
  <2> DEFINE x == l1 * Cap
             y == l2 * Cap
  <2> HIDE DEF x, y
  <2>2. ASSUME x \in Nat, y \in Nat, x + k1 = y + k2, x + Cap <= y  PROVE FALSE
    BY <1>0, <2>2
  <2> QED  BY <1>2, <2>1, <2>2 DEF x, y
<1>4. ~(l2 < l1)
  <2>1. l2 < l1 => l2 * Cap + Cap <= l1 * Cap
    BY <1>0, <1>1
  <2> DEFINE x == l1 * Cap
             y == l2 * Cap
  <2> HIDE DEF x, y
  <2>2. ASSUME x \in Nat, y \in Nat, x + k1 = y + k2, y + Cap <= x  PROVE FALSE
    BY <1>0, <2>2
  <2> QED  BY <1>2, <2>1, <2>2 DEF x, y
<1>5. l1 = l2
  BY <1>0, <1>3, <1>4
<1>6. k1 = k2
  <2>1. Token(l1, k1) - l1 * Cap = k1 /\ Token(l2, k2) - l2 * Cap = k2
    BY TokenType
  <2> QED  BY <1>5, <2>1
<1> QED  BY <1>5, <1>6

----------------------------------------------------------------------------
(* Channels *)

StreamKinds == {"established", "connecting", "removed"}

Message == {Stop} \cup [kind : {"established", "connecting"}, stream : Streams]
             \cup [kind : {"removed"}, token : Nat, stream : Streams]
             \cup [kind : {"enable"}, token : Nat]

Arriving(m) == m.kind \in {"established", "connecting"}

Msgs(q) == {q[i] : i \in 1 .. Len(q)}

\* A stream is the subject of one message at most.
Unique(q) ==
  \A i, j \in 1 .. Len(q) :
    q[i].kind \in StreamKinds /\ q[j].kind \in StreamKinds /\ q[i].stream = q[j].stream => i = j

Mentions(q, s) == \E m \in Msgs(q) : m.kind \in StreamKinds /\ m.stream = s

LEMMA MessageTypes ==
  /\ Stop \in Message /\ Stop.kind = "stop"
  /\ \A s \in Streams : /\ Established(s) \in Message /\ Connecting(s) \in Message
                         /\ Established(s).kind = "established" /\ Established(s).stream = s
                         /\ Connecting(s).kind = "connecting" /\ Connecting(s).stream = s
  /\ \A s \in Streams, t \in Nat : /\ Removed(t, s) \in Message /\ Removed(t, s).kind = "removed"
                                   /\ Removed(t, s).stream = s /\ Removed(t, s).token = t
  /\ \A t \in Nat : Enable(t) \in Message /\ Enable(t).kind = "enable"
  BY DEF Message, Stop, Established, Connecting, Removed, Enable

LEMMA MessageCases ==
  /\ \A m \in Message : Arriving(m) => /\ m.stream \in Streams
                                       /\ m \in {Established(m.stream), Connecting(m.stream)}
  /\ \A m \in Message : m.kind = "removed" => m.stream \in Streams /\ m.token \in Nat
  /\ \A m \in Message : m.kind = "enable" => m.token \in Nat
  /\ \A m \in Message : m.kind = "stop" => m = Stop
  BY DEF Message, Arriving, Stop, Established, Connecting

LEMMA MsgsType == ASSUME NEW q \in Seq(Message)  PROVE \A m \in Msgs(q) : m \in Message
  BY ElementOfSeq DEF Msgs

LEMMA MsgsAppend ==
  ASSUME NEW q \in Seq(Message), NEW m \in Message
  PROVE  /\ Append(q, m) \in Seq(Message)
         /\ Msgs(Append(q, m)) = Msgs(q) \cup {m}
         /\ Unique(q) /\ (m.kind \in StreamKinds => ~Mentions(q, m.stream)) => Unique(Append(q, m))
<1> DEFINE a == Append(q, m)
<1>1. /\ a \in Seq(Message) /\ Len(a) = Len(q) + 1 /\ Len(q) \in Nat
      /\ \A i \in 1 .. Len(q) : a[i] = q[i]
      /\ a[Len(q) + 1] = m
  BY AppendProperties, LenProperties
<1> HIDE DEF a
<1>2. \A i \in 1 .. Len(a) : i \in 1 .. Len(q) \/ i = Len(q) + 1
  BY <1>1
<1>3. (\A i \in 1 .. Len(q) : i \in 1 .. Len(a)) /\ Len(q) + 1 \in 1 .. Len(a)
  BY <1>1
<1>4. Msgs(a) = Msgs(q) \cup {m}
  BY <1>1, <1>2, <1>3 DEF Msgs
<1>5. ASSUME Unique(q), m.kind \in StreamKinds => ~Mentions(q, m.stream),
             NEW i \in 1 .. Len(a), NEW j \in 1 .. Len(a),
             a[i].kind \in StreamKinds, a[j].kind \in StreamKinds, a[i].stream = a[j].stream
      PROVE  i = j
  <2>1. CASE i \in 1 .. Len(q) /\ j \in 1 .. Len(q)
    <3>1. a[i] = q[i] /\ a[j] = q[j]
      BY <1>1, <2>1
    <3> QED  BY <1>5, <2>1, <3>1 DEF Unique
  <2>2. CASE i \in 1 .. Len(q) /\ j = Len(q) + 1
    <3>1. a[i] = q[i] /\ a[j] = m /\ q[i] \in Msgs(q)
      BY <1>1, <2>2 DEF Msgs
    <3> QED  BY <1>5, <3>1 DEF Mentions
  <2>3. CASE j \in 1 .. Len(q) /\ i = Len(q) + 1
    <3>1. a[j] = q[j] /\ a[i] = m /\ q[j] \in Msgs(q)
      BY <1>1, <2>3 DEF Msgs
    <3> QED  BY <1>5, <3>1 DEF Mentions
  <2> QED  BY <1>2, <2>1, <2>2, <2>3
<1>6. Unique(q) /\ (m.kind \in StreamKinds => ~Mentions(q, m.stream)) => Unique(a)
  BY <1>5 DEF Unique
<1> QED  BY <1>1, <1>4, <1>6 DEF a

LEMMA MsgsTail ==
  ASSUME NEW q \in Seq(Message), q # <<>>
  PROVE  /\ Head(q) \in Message /\ Tail(q) \in Seq(Message)
         /\ Msgs(q) = Msgs(Tail(q)) \cup {Head(q)}
         /\ Unique(q) => /\ Unique(Tail(q))
                         /\ Head(q).kind \in StreamKinds => ~Mentions(Tail(q), Head(q).stream)
<1> DEFINE r == Tail(q)
           h == Head(q)
<1>1. /\ h \in Message /\ r \in Seq(Message) /\ Len(r) = Len(q) - 1 /\ Len(q) \in Nat /\ Len(q) > 0
      /\ \A i \in 1 .. Len(r) : r[i] = q[i + 1]
      /\ h = q[1]
  BY HeadTailProperties, LenProperties, EmptySeq
<1> HIDE DEF r, h
<1>2. \A i \in 1 .. Len(r) : i + 1 \in 1 .. Len(q) /\ i + 1 # 1
  BY <1>1
<1>3. \A i \in 1 .. Len(q) : i = 1 \/ (i - 1 \in 1 .. Len(r) /\ (i - 1) + 1 = i)
  BY <1>1
<1>4. 1 \in 1 .. Len(q)
  BY <1>1
<1>5. Msgs(q) = Msgs(r) \cup {h}
  <2>1. ASSUME NEW m \in Msgs(r)  PROVE m \in Msgs(q)
    BY <1>1, <1>2 DEF Msgs
  <2>2. ASSUME NEW i \in 1 .. Len(q)  PROVE q[i] = h \/ q[i] \in Msgs(r)
    <3>1. CASE i # 1
      <4>1. r[i - 1] = q[i] /\ i - 1 \in 1 .. Len(r)
        BY <1>1, <1>3, <3>1
      <4> QED  BY <4>1 DEF Msgs
    <3> QED  BY <1>1, <3>1
  <2> QED  BY <1>1, <1>4, <2>1, <2>2 DEF Msgs
<1>6. ASSUME Unique(q)  PROVE Unique(r)
  <2>1. ASSUME NEW i \in 1 .. Len(r), NEW j \in 1 .. Len(r),
               r[i].kind \in StreamKinds, r[j].kind \in StreamKinds, r[i].stream = r[j].stream
        PROVE  i = j
    <3>1. i + 1 = j + 1
      BY <1>1, <1>2, <1>6, <2>1 DEF Unique
    <3> QED  BY <3>1
  <2> QED  BY <2>1 DEF Unique
<1>7. ASSUME Unique(q), h.kind \in StreamKinds, Mentions(r, h.stream)  PROVE FALSE
  <2>1. PICK i \in 1 .. Len(r) : r[i].kind \in StreamKinds /\ r[i].stream = h.stream
    BY <1>7 DEF Mentions, Msgs
  <2>2. i + 1 = 1
    BY <1>1, <1>2, <1>4, <1>7, <2>1 DEF Unique
  <2> QED  BY <1>2, <2>2
<1> QED  BY <1>1, <1>5, <1>6, <1>7 DEF r, h

\* The letters of a shutdown.
LEMMA MsgsStops ==
  ASSUME NEW q \in Seq(Message), NEW n \in Nat
  PROVE  LET a == q \o [i \in 1 .. n |-> Stop]
         IN  /\ a \in Seq(Message)
             /\ \A m \in Msgs(a) : m \in Msgs(q) \/ m = Stop
             /\ \A m \in Msgs(q) : m \in Msgs(a)
             /\ Unique(q) => Unique(a)
<1> DEFINE b == [i \in 1 .. n |-> Stop]
           a == q \o b
<1>1. b \in Seq(Message) /\ Len(b) = n /\ (\A i \in 1 .. n : b[i] = Stop) /\ Len(q) \in Nat
  BY MessageTypes, LenProperties
<1> HIDE DEF b
<1>2. /\ a \in Seq(Message) /\ Len(a) = Len(q) + n
      /\ \A i \in 1 .. Len(q) + n : a[i] = IF i <= Len(q) THEN q[i] ELSE b[i - Len(q)]
  BY <1>1, ConcatProperties
<1> HIDE DEF a
<1>3. \A i \in 1 .. Len(a) : i \in 1 .. Len(q) \/ (~(i <= Len(q)) /\ i - Len(q) \in 1 .. n)
  BY <1>1, <1>2
<1>4. \A i \in 1 .. Len(q) : i \in 1 .. Len(a) /\ i <= Len(q)
  BY <1>1, <1>2
<1>5. \A i \in 1 .. Len(a) : (i \in 1 .. Len(q) /\ a[i] = q[i]) \/ a[i] = Stop
  BY <1>1, <1>2, <1>3, <1>4
<1>6. \A i \in 1 .. Len(q) : a[i] = q[i]
  BY <1>2, <1>4
<1>7. Stop.kind \notin StreamKinds
  BY MessageTypes DEF StreamKinds
<1>8. Unique(q) => Unique(a)
  BY <1>5, <1>7 DEF Unique
<1> QED  BY <1>2, <1>4, <1>5, <1>6, <1>8 DEF a, b, Msgs

----------------------------------------------------------------------------
(* The invariants *)

\* The loop has stream s at key k; message m is in its channel.
Has(l, k, s) == k \in Keys(l) /\ slab[l][k + 1] = s
In(l, m) == m \in Msgs(channel[l])

\* TypeOK without the registrations; the table stays finite.
Types ==
  /\ role \in Roles /\ asks \in BOOLEAN
  /\ accepted \in 0 .. MaxStreams /\ acceptor \in {"on", "down", "dead"}
  /\ letters \in 0 .. MaxLetters /\ requests \in 0 .. MaxRequests
  /\ connected \subseteq Streams /\ failed \subseteq Streams /\ established \subseteq Streams
  /\ channel \in [Loops -> Seq(Message)]
  /\ phase \in [Loops -> {"io", "drain", "dead", "no peer"}]
  /\ reported \in [Loops -> SUBSET Streams]
  /\ slab \in [Loops -> Seq(Entry)] /\ free \in [Loops -> Seq(Nat)] /\ capacity \in [Loops -> Nat]
  /\ pending \in [Loops -> SUBSET Nat]
  /\ registered \subseteq Streams /\ reading \subseteq registered
  /\ DOMAIN shared \subseteq Nat /\ IsFiniteSet(DOMAIN shared)
  /\ \A t \in DOMAIN shared : shared[t] \in Loops
  /\ poisoned \in BOOLEAN

Slabs == \A l \in Loops : Vacancies(slab[l], free[l])

\* Only connections are registered.
Regs == \A s \in registered : \E l \in Loops, k \in Nat : Has(l, k, s)

\* A stream is in one place at a time: on its way to one loop, in one message,
\* or at one key of one loop.  Those that have not come yet are nowhere.
Places ==
  /\ \A l1, l2 \in Loops, k1, k2 \in Nat, s \in Streams :
       Has(l1, k1, s) /\ Has(l2, k2, s) => l1 = l2 /\ k1 = k2
  /\ \A l1, l2 \in Loops, m \in Message, k \in Nat :
       In(l2, m) /\ Arriving(m) => ~Has(l1, k, m.stream)
  /\ \A l1, l2 \in Loops, m1, m2 \in Message :
       In(l1, m1) /\ In(l2, m2) /\ Arriving(m1) /\ Arriving(m2) /\ m1.stream = m2.stream => l1 = l2
  /\ \A l \in Loops : Unique(channel[l])
  /\ \A l \in Loops, k \in Nat, s \in Streams : Has(l, k, s) => s <= accepted
  /\ \A l \in Loops, m \in Message :
       In(l, m) /\ Arriving(m) => m.stream <= accepted /\ m.stream \notin established
  /\ \A s \in established : s <= accepted

\* What a Removed names is the connection of its stream, which has been set up;
\* it may be registered again by a message before, in the drain only.
Leaving(l, m) ==
  \E k \in Nat :
    /\ Has(l, k, m.stream) /\ m.token = Token(l, k) /\ m.stream \in established
    /\ m.stream \in registered /\ phase[l] = "io" => m.stream \in reported[l]

Leaves == \A l \in Loops, m \in Message : In(l, m) /\ m.kind = "removed" => Leaving(l, m)

\* A server has no connecting streams, and a connector no letters.
RoleKept ==
  /\ role = "server" => /\ registered \subseteq reading
                        /\ \A l \in Loops, m \in Message : In(l, m) => m.kind # "connecting"
  /\ role = "connector" => letters = 0 /\ \A l \in Loops : ~In(l, Stop)

\* PendingAgrees, key by key.
Pendings ==
  \A l \in Loops, t \in Nat :
    t \in pending[l] <=>
      \E k \in Nat, s \in Streams : Has(l, k, s) /\ t = Token(l, k) /\ s \notin established

Inv == Types /\ Slabs /\ Regs /\ Places /\ Leaves /\ RoleKept /\ Pendings

----------------------------------------------------------------------------
(* What the steps of a loop do to its slab and its channel *)

LEMMA HasTypes ==
  ASSUME Types, NEW l \in Loops, NEW k, NEW s, Has(l, k, s)
  PROVE  k \in Nat /\ k \in 0 .. Len(slab[l]) - 1 /\ s \in Streams
<1>1. slab[l] \in Seq(Entry) /\ k \in 0 .. Len(slab[l]) - 1 /\ slab[l][k + 1] = s /\ s # None
  BY DEF Types, Has, Keys
<1>2. k + 1 \in 1 .. Len(slab[l]) /\ k \in Nat
  BY <1>1, LenProperties
<1>3. s \in Entry
  BY <1>1, <1>2, ElementOfSeq
<1> QED  BY <1>1, <1>2, <1>3 DEF Entry

LEMMA InTypes == ASSUME Types, NEW l \in Loops, NEW m, In(l, m)  PROVE m \in Message
  BY MsgsType DEF Types, In

LEMMA InsertEffect ==
  ASSUME Types, Slabs, NEW l \in Loops, NEW s \in Streams, Insert(l, VacantKey(l), s)
  PROVE  /\ slab' \in [Loops -> Seq(Entry)] /\ free' \in [Loops -> Seq(Nat)]
         /\ capacity' \in [Loops -> Nat]
         /\ Slabs'
         /\ VacantKey(l) \in Nat /\ VacantKey(l) \notin Keys(l)
         /\ \A l2 \in Loops, k \in Nat, x \in Streams :
              Has(l2, k, x)' <=> Has(l2, k, x) \/ (l2 = l /\ k = VacantKey(l) /\ x = s)
<1> DEFINE e == slab[l]
           f == free[l]
           key == VacantKey(l)
<1>1. e \in Seq(Entry) /\ f \in Seq(Nat) /\ Vacancies(e, f) /\ Len(e) \in Nat
  BY LenProperties DEF Types, Slabs
<1>2. Keys(l) = KeysOf(e) /\ Keys(l)' = KeysOf(slab'[l])
  BY DEF Keys, KeysOf
<1>3. \A l2 \in Loops : l2 # l => slab'[l2] = slab[l2] /\ free'[l2] = free[l2]
  BY DEF Insert, Types
<1>4. /\ slab'[l] \in Seq(Entry) /\ free'[l] \in Seq(Nat) /\ Vacancies(slab'[l], free'[l])
      /\ key \in Nat /\ key \notin KeysOf(e)
      /\ KeysOf(slab'[l]) = KeysOf(e) \cup {key}
      /\ slab'[l][key + 1] = s
      /\ \A k \in KeysOf(e) : slab'[l][k + 1] = e[k + 1]
  <2>1. CASE f = <<>>
    <3>1. key = Len(e)
      BY <2>1 DEF VacantKey
    <3>2. slab'[l] = Append(e, s) /\ free'[l] = f
      BY <3>1 DEF Insert, Types
    <3>3. key \notin 0 .. Len(e) - 1
      BY <1>1, <3>1
    <3>4. /\ Append(e, s) \in Seq(Entry)
          /\ KeysOf(e) = 0 .. Len(e) - 1
          /\ KeysOf(Append(e, s)) = KeysOf(e) \cup {Len(e)}
          /\ Append(e, s)[Len(e) + 1] = s
          /\ \A k \in KeysOf(e) : Append(e, s)[k + 1] = e[k + 1]
          /\ Vacancies(Append(e, s), f)
      BY ZenonT(60), <1>1, <2>1, InsertAtEnd
    <3> HIDE DEF e, f, key
    <3> QED  BY <1>1, <3>1, <3>2, <3>3, <3>4
  <2>2. CASE f # <<>>
    <3>1. key = Head(f)
      BY <2>2 DEF VacantKey
    <3>2. key \in 0 .. Len(e) - 1
      BY SMTT(30), <1>1, <2>2, <3>1, InsertAtHead, StreamTypes
    <3>3. key # Len(e) /\ key \in Nat
      BY <1>1, <3>2
    <3>4. slab'[l] = [e EXCEPT ![key + 1] = s] /\ free'[l] = Tail(f)
      BY <3>3 DEF Insert, Types
    <3> DEFINE e2 == [e EXCEPT ![Head(f) + 1] = s]
    <3>5. /\ e2 \in Seq(Entry) /\ Tail(f) \in Seq(Nat)
          /\ Head(f) \notin KeysOf(e)
          /\ KeysOf(e2) = KeysOf(e) \cup {Head(f)}
          /\ e2[Head(f) + 1] = s
          /\ \A k \in KeysOf(e) : e2[k + 1] = e[k + 1]
          /\ Vacancies(e2, Tail(f))
      BY <1>1, <2>2, InsertAtHead
    <3>6. slab'[l] = e2
      BY <3>1, <3>4
    <3> HIDE DEF e, f, key, e2
    <3> QED  BY <3>1, <3>3, <3>4, <3>5, <3>6
  <2> QED  BY <2>1, <2>2
<1>5. slab' \in [Loops -> Seq(Entry)] /\ free' \in [Loops -> Seq(Nat)]
  BY <1>3, <1>4 DEF Insert, Types
<1>6. capacity' \in [Loops -> Nat]
  <2>1. capacity \in [Loops -> Nat]
    BY DEF Types
  <2>2. Grown(capacity[l]) \in Nat
    BY <2>1 DEF Grown
  <2> QED  BY <2>1, <2>2 DEF Insert
<1>7. Slabs'
  BY <1>3, <1>4 DEF Slabs
<1>8. ASSUME NEW l2 \in Loops, NEW k \in Nat, NEW x \in Streams
      PROVE  Has(l2, k, x)' <=> Has(l2, k, x) \/ (l2 = l /\ k = key /\ x = s)
  <2>1. CASE l2 # l
    BY <1>3, <2>1 DEF Has, Keys
  <2>2. CASE l2 = l
    BY <1>2, <1>4, <2>2 DEF Has
  <2> QED  BY <2>1, <2>2
<1> QED  BY <1>2, <1>4, <1>5, <1>6, <1>7, <1>8

LEMMA RemoveEffect ==
  ASSUME Types, Slabs, NEW l \in Loops, NEW key, NEW s, Has(l, key, s),
         slab' = [slab EXCEPT ![l][key + 1] = None],
         free' = [free EXCEPT ![l] = <<key>> \o @]
  PROVE  /\ slab' \in [Loops -> Seq(Entry)] /\ free' \in [Loops -> Seq(Nat)]
         /\ Slabs'
         /\ \A l2 \in Loops, k \in Nat, x \in Streams :
              Has(l2, k, x)' <=> Has(l2, k, x) /\ ~(l2 = l /\ k = key)
<1> DEFINE e == slab[l]
           f == free[l]
<1>1. e \in Seq(Entry) /\ f \in Seq(Nat) /\ Vacancies(e, f) /\ key \in KeysOf(e)
  BY DEF Types, Slabs, Has, Keys, KeysOf
<1>2. Keys(l) = KeysOf(e) /\ Keys(l)' = KeysOf(slab'[l])
  BY DEF Keys, KeysOf
<1>3. \A l2 \in Loops : l2 # l => slab'[l2] = slab[l2] /\ free'[l2] = free[l2]
  BY DEF Types
<1>4. slab'[l] = [e EXCEPT ![key + 1] = None] /\ free'[l] = <<key>> \o f
  BY DEF Types
<1>5. /\ slab'[l] \in Seq(Entry) /\ free'[l] \in Seq(Nat) /\ Vacancies(slab'[l], free'[l])
      /\ KeysOf(slab'[l]) = KeysOf(e) \ {key}
      /\ \A k \in KeysOf(slab'[l]) : slab'[l][k + 1] = e[k + 1]
  <2> DEFINE e2 == [e EXCEPT ![key + 1] = None]
  <2>1. /\ e2 \in Seq(Entry) /\ <<key>> \o f \in Seq(Nat)
        /\ KeysOf(e2) = KeysOf(e) \ {key}
        /\ \A k \in KeysOf(e2) : e2[k + 1] = e[k + 1]
        /\ Vacancies(e2, <<key>> \o f)
    BY <1>1, RemoveKey
  <2>2. slab'[l] = e2
    BY <1>4
  <2> HIDE DEF e, f, e2
  <2> QED  BY <1>4, <2>1, <2>2
<1>6. slab' \in [Loops -> Seq(Entry)] /\ free' \in [Loops -> Seq(Nat)]
  BY <1>3, <1>5 DEF Types
<1>7. Slabs'
  BY <1>3, <1>5 DEF Slabs
<1>8. ASSUME NEW l2 \in Loops, NEW k \in Nat, NEW x \in Streams
      PROVE  Has(l2, k, x)' <=> Has(l2, k, x) /\ ~(l2 = l /\ k = key)
  <2>1. CASE l2 # l
    BY <1>3, <2>1 DEF Has, Keys
  <2>2. CASE l2 = l
    BY <1>2, <1>5, <2>2 DEF Has
  <2> QED  BY <2>1, <2>2
<1> QED  BY <1>6, <1>7, <1>8

LEMMA SendEffect ==
  ASSUME Types, NEW l \in Loops, NEW msg \in Message, Send(l, msg)
  PROVE  /\ channel' \in [Loops -> Seq(Message)]
         /\ \A l2 \in Loops, m \in Message : In(l2, m)' <=> In(l2, m) \/ (l2 = l /\ m = msg)
         /\ (\A l2 \in Loops : Unique(channel[l2]))
            /\ (msg.kind \in StreamKinds => ~Mentions(channel[l], msg.stream))
              => \A l2 \in Loops : Unique(channel'[l2])
<1>1. channel[l] \in Seq(Message) /\ channel'[l] = Append(channel[l], msg)
  BY DEF Types, Send
<1>2. \A l2 \in Loops : l2 # l => channel'[l2] = channel[l2]
  BY DEF Types, Send
<1>3. /\ channel'[l] \in Seq(Message) /\ Msgs(channel'[l]) = Msgs(channel[l]) \cup {msg}
      /\ Unique(channel[l]) /\ (msg.kind \in StreamKinds => ~Mentions(channel[l], msg.stream))
           => Unique(channel'[l])
  BY <1>1, MsgsAppend
<1>4. channel' \in [Loops -> Seq(Message)]
  BY <1>2, <1>3 DEF Types, Send
<1>5. \A l2 \in Loops, m \in Message : In(l2, m)' <=> In(l2, m) \/ (l2 = l /\ m = msg)
  BY <1>2, <1>3 DEF In
<1> QED  BY <1>2, <1>3, <1>4, <1>5

LEMMA TakeEffect ==
  ASSUME Types, NEW l \in Loops, channel[l] # <<>>, channel' = [channel EXCEPT ![l] = Tail(@)]
  PROVE  LET h == Head(channel[l])
         IN  /\ channel' \in [Loops -> Seq(Message)]
             /\ h \in Message /\ In(l, h)
             /\ \A l2 \in Loops, m \in Message : In(l2, m)' => In(l2, m)
             /\ \A l2 \in Loops, m \in Message : In(l2, m) => In(l2, m)' \/ (l2 = l /\ m = h)
             /\ (\A l2 \in Loops : Unique(channel[l2])) =>
                  /\ \A l2 \in Loops : Unique(channel'[l2])
                  /\ h.kind \in StreamKinds =>
                       \A m \in Message : In(l, m)' /\ m.kind \in StreamKinds => m.stream # h.stream
<1> DEFINE h == Head(channel[l])
<1>1. channel[l] \in Seq(Message) /\ channel'[l] = Tail(channel[l])
  BY DEF Types
<1>2. \A l2 \in Loops : l2 # l => channel'[l2] = channel[l2]
  BY DEF Types
<1>3. /\ h \in Message /\ channel'[l] \in Seq(Message)
      /\ Msgs(channel[l]) = Msgs(channel'[l]) \cup {h}
      /\ Unique(channel[l]) => /\ Unique(channel'[l])
                               /\ h.kind \in StreamKinds => ~Mentions(channel'[l], h.stream)
  BY <1>1, MsgsTail
<1>4. channel' \in [Loops -> Seq(Message)]
  BY <1>2, <1>3 DEF Types
<1> HIDE DEF h
<1>5. In(l, h) /\ \A l2 \in Loops, m \in Message : In(l2, m)' => In(l2, m)
  BY <1>2, <1>3 DEF In
<1>6. \A l2 \in Loops, m \in Message : In(l2, m) => In(l2, m)' \/ (l2 = l /\ m = h)
  BY <1>2, <1>3 DEF In
<1>7. ASSUME \A l2 \in Loops : Unique(channel[l2])
      PROVE  \A l2 \in Loops : Unique(channel'[l2])
  BY <1>2, <1>3, <1>7
<1>8. ASSUME \A l2 \in Loops : Unique(channel[l2]), h.kind \in StreamKinds,
             NEW m \in Message, In(l, m)', m.kind \in StreamKinds
      PROVE  m.stream # h.stream
  BY <1>3, <1>8 DEF In, Mentions
<1> QED  BY <1>3, <1>4, <1>5, <1>6, <1>7, <1>8 DEF h

----------------------------------------------------------------------------
(* Every step keeps the invariant *)

LEMMA HasSame == ASSUME slab' = slab, NEW l, NEW k, NEW s  PROVE Has(l, k, s)' <=> Has(l, k, s)
  BY DEF Has, Keys

LEMMA InSame == ASSUME channel' = channel, NEW l, NEW m  PROVE In(l, m)' <=> In(l, m)
  BY DEF In

LEMMA SlabsSame == ASSUME Slabs, slab' = slab, free' = free  PROVE Slabs'
  BY DEF Slabs

\* No connection comes, and no stream.
LEMMA PlacesStay ==
  ASSUME Places,
         \A l \in Loops, k \in Nat, s \in Streams : Has(l, k, s)' => Has(l, k, s),
         \A l \in Loops, m \in Message : In(l, m)' /\ Arriving(m) => In(l, m),
         \A l \in Loops : Unique(channel'[l]),
         established' = established, accepted' = accepted
  PROVE  Places'
<1>1. \A l1, l2 \in Loops, m \in Message, k \in Nat :
        In(l2, m)' /\ Arriving(m) => ~Has(l1, k, m.stream)'
  BY MessageCases DEF Places
<1>2. \A l1, l2 \in Loops, k1, k2 \in Nat, s \in Streams :
        Has(l1, k1, s)' /\ Has(l2, k2, s)' => l1 = l2 /\ k1 = k2
  BY DEF Places
<1>3. \A l1, l2 \in Loops, m1, m2 \in Message :
        In(l1, m1)' /\ In(l2, m2)' /\ Arriving(m1) /\ Arriving(m2) /\ m1.stream = m2.stream => l1 = l2
  BY DEF Places
<1>4. \A l \in Loops, k \in Nat, s \in Streams : Has(l, k, s)' => s <= accepted'
  BY DEF Places
<1>5. \A l \in Loops, m \in Message :
        In(l, m)' /\ Arriving(m) => m.stream <= accepted' /\ m.stream \notin established'
  BY DEF Places
<1>6. \A s \in established' : s <= accepted'
  BY DEF Places
<1> QED  BY <1>1, <1>2, <1>3, <1>4, <1>5, <1>6 DEF Places

\* No Removed is sent, and what was leaving may do so still.
LEMMA LeavesStay ==
  ASSUME Leaves,
         \A l \in Loops, m \in Message : In(l, m)' /\ m.kind = "removed" => In(l, m),
         \A l \in Loops, k \in Nat, s \in Streams : Has(l, k, s) => Has(l, k, s)',
         established \subseteq established', registered' \subseteq registered,
         \A l \in Loops : phase'[l] = "io" => phase[l] = "io" /\ reported[l] \subseteq reported'[l]
  PROVE  Leaves'
<1> SUFFICES ASSUME NEW l \in Loops, NEW m \in Message, In(l, m)', m.kind = "removed"
             PROVE  Leaving(l, m)'
  BY DEF Leaves
<1>1. m.stream \in Streams /\ Leaving(l, m)
  BY MessageCases DEF Leaves
<1>2. PICK k \in Nat : /\ Has(l, k, m.stream) /\ m.token = Token(l, k) /\ m.stream \in established
                       /\ m.stream \in registered /\ phase[l] = "io" => m.stream \in reported[l]
  BY <1>1 DEF Leaving
<1>3. Has(l, k, m.stream)' /\ m.stream \in established'
  BY <1>1, <1>2
<1>4. m.stream \in registered' /\ phase'[l] = "io" => m.stream \in reported'[l]
  BY <1>2
<1>5. m.token = Token(l, k)'
  BY <1>2 DEF Token
<1> QED  BY <1>2, <1>3, <1>4, <1>5 DEF Leaving

LEMMA PendingsStay ==
  ASSUME Pendings, pending' = pending, established' = established,
         \A l \in Loops, k \in Nat, s \in Streams :
           s \notin established => (Has(l, k, s)' <=> Has(l, k, s))
  PROVE  Pendings'
<1>1. \A l, k : Token(l, k)' = Token(l, k)
  BY DEF Token
<1> QED  BY <1>1 DEF Pendings

LEMMA RegsStay ==
  ASSUME Regs, registered' \subseteq registered, slab' = slab
  PROVE  Regs'
  BY HasSame DEF Regs

LEMMA RoleStays ==
  ASSUME RoleKept, role' = role, letters' = letters,
         reading' = reading, registered' = registered,
         \A l \in Loops, m \in Message : In(l, m)' => In(l, m) \/ m.kind = "enable"
  PROVE  RoleKept'
  BY MessageTypes DEF RoleKept

LEMMA UniqueSame == ASSUME Places, channel' = channel  PROVE \A l \in Loops : Unique(channel'[l])
  BY DEF Places

PeerDecides(s) == PeerConnects(s) \/ PeerFails(s)

\* Steps of others than the loops, and the ends of the two phases of a loop.
LEMMA OutsideKeeps ==
  ASSUME Inv, DeadLetter \/ \E s \in Streams : PeerDecides(s)
  PROVE  Inv'
<1>1. /\ UNCHANGED <<role, asks, accepted, requests, channel, phase, reported, slab, free, capacity>>
      /\ UNCHANGED <<reading, registered, pending, established, shared, poisoned>>
  BY DEF DeadLetter, PeerDecides, PeerConnects, PeerFails, loopVars, slabVars, ioVars, setupVars, sharedVars
<1>2. letters' \in 0 .. MaxLetters /\ (role = "connector" => letters' = letters)
  <2>1. letters \in 0 .. MaxLetters
    BY DEF Inv, Types
  <2>2. CASE DeadLetter
    <3>1. letters < MaxLetters /\ letters' = letters + 1 /\ role = "server"
      BY <2>2 DEF DeadLetter
    <3> QED  BY <2>1, <3>1, ConstantTypes
  <2>3. CASE \E s \in Streams : PeerDecides(s)
    BY <2>1, <2>3 DEF PeerDecides, PeerConnects, PeerFails
  <2> QED  BY <2>2, <2>3
<1>3. acceptor' = acceptor /\ connected' \subseteq Streams /\ failed' \subseteq Streams
  BY DEF DeadLetter, PeerDecides, PeerConnects, PeerFails, Inv, Types
<1>4. Types'
  <2> USE DEF Inv
  <2> QED  BY <1>1, <1>2, <1>3 DEF Types
<1>5. Slabs' /\ Regs'
  BY <1>1, SlabsSame, RegsStay DEF Inv
<1>6. Places'
  BY <1>1, PlacesStay, HasSame, InSame, UniqueSame DEF Inv
<1>7. Leaves' /\ Pendings'
  BY <1>1, LeavesStay, PendingsStay, HasSame, InSame DEF Inv
<1>8. RoleKept'
  BY <1>1, <1>2, InSame DEF Inv, RoleKept
<1> QED  BY <1>4, <1>5, <1>6, <1>7, <1>8 DEF Inv

LEMMA ShutdownKeeps == ASSUME Inv, Shutdown  PROVE Inv'
<1> USE DEF Inv
<1>1. /\ UNCHANGED <<role, asks, accepted, requests, phase, reported, slab, free, capacity>>
      /\ UNCHANGED <<connected, failed>>
      /\ UNCHANGED <<reading, registered, pending, established, shared, poisoned>>
  BY DEF Shutdown, slabVars, ioVars, setupVars, sharedVars
<1>2. role = "server" /\ letters' \in 0 .. MaxLetters /\ acceptor' \in {"on", "down", "dead"}
  <2>1. letters \in 0 .. MaxLetters /\ letters > 0 /\ letters' = letters - 1
    BY DEF Shutdown, Types
  <2>2. role # "connector" /\ role \in {"server", "connector"}
    <3>1. role \in Roles
      BY DEF Types
    <3> QED  BY <2>1, <3>1, DispatcherAssumption DEF RoleKept
  <2>3. acceptor' \in {"on", "down", "dead"}
    BY DEF Shutdown, Types
  <2> QED  BY <2>1, <2>2, <2>3, ConstantTypes
<1>3. /\ channel' \in [Loops -> Seq(Message)]
      /\ \A l \in Loops, m \in Message : In(l, m)' => In(l, m) \/ m = Stop
      /\ \A l \in Loops : Unique(channel'[l])
  <2>1. CASE channel' = channel
    BY <2>1, InSame, UniqueSame DEF Types
  <2>2. CASE channel' = Stops
    <3>1. ASSUME NEW l \in Loops
          PROVE  /\ channel'[l] \in Seq(Message) /\ Unique(channel'[l])
                 /\ \A m \in Message : In(l, m)' => In(l, m) \/ m = Stop
      <4> DEFINE n == Cardinality({t \in DOMAIN shared : shared[t] = l})
      <4>1. n \in Nat
        <5>1. IsFiniteSet({t \in DOMAIN shared : shared[t] = l})
          BY FS_Subset DEF Types
        <5> QED  BY <5>1, FS_CardinalityType
      <4>2. channel'[l] = channel[l] \o [i \in 1 .. n |-> Stop]
        BY <2>2 DEF Stops
      <4>3. channel[l] \in Seq(Message) /\ Unique(channel[l])
        BY DEF Types, Places
      <4> HIDE DEF n
      <4>4. /\ channel'[l] \in Seq(Message)
            /\ \A m \in Msgs(channel'[l]) : m \in Msgs(channel[l]) \/ m = Stop
            /\ Unique(channel'[l])
        BY <4>1, <4>2, <4>3, MsgsStops
      <4> QED  BY <4>4 DEF In
    <3>2. channel' = [l \in Loops |-> channel'[l]]
      BY <2>2 DEF Stops
    <3> QED  BY <3>1, <3>2
  <2> QED  BY <2>1, <2>2 DEF Shutdown
<1>4. Types'
  BY <1>1, <1>2, <1>3 DEF Types
<1>5. Slabs' /\ Regs'
  BY <1>1, SlabsSame, RegsStay
<1>6. \A l \in Loops, m \in Message : In(l, m)' /\ m.kind \in StreamKinds => In(l, m)
  BY <1>3, MessageTypes DEF StreamKinds
<1>7. Places'
  BY <1>1, <1>3, <1>6, PlacesStay, HasSame DEF Arriving, StreamKinds
<1>8. Leaves' /\ Pendings'
  BY <1>1, <1>6, LeavesStay, PendingsStay, HasSame DEF StreamKinds
<1>9. RoleKept'
  BY <1>1, <1>2, <1>3, MessageTypes DEF RoleKept
<1> QED  BY <1>4, <1>5, <1>7, <1>8, <1>9

LEMMA RequestKeeps == ASSUME Inv, NEW l \in Loops, NEW t \in Nat, Request(l, t)  PROVE Inv'
<1> USE DEF Inv
<1>1. /\ UNCHANGED <<role, asks, accepted, acceptor, letters, connected, failed, phase, reported>>
      /\ UNCHANGED <<slab, free, capacity, reading, registered, pending, established, shared, poisoned>>
  BY DEF Request, acceptVars, slabVars, ioVars, setupVars, sharedVars
<1>2. requests' \in 0 .. MaxRequests
  <2>1. requests \in 0 .. MaxRequests /\ requests < MaxRequests /\ requests' = requests + 1
    BY DEF Request, Types
  <2> QED  BY <2>1, ConstantTypes
<1>3. Enable(t) \in Message /\ Enable(t).kind = "enable" /\ Enable(t).kind \notin StreamKinds
  BY MessageTypes DEF StreamKinds
<1>4. /\ channel' \in [Loops -> Seq(Message)]
      /\ \A l2 \in Loops, m \in Message : In(l2, m)' => In(l2, m) \/ m.kind = "enable"
      /\ \A l2 \in Loops : Unique(channel'[l2])
  <2>1. \A l2 \in Loops : Unique(channel[l2])
    BY DEF Places
  <2>2. Send(l, Enable(t))
    BY DEF Request
  <2> QED  BY <1>3, <2>1, <2>2, SendEffect
<1>5. Types'
  BY <1>1, <1>2, <1>4 DEF Types
<1>6. Slabs' /\ Regs'
  BY <1>1, SlabsSame, RegsStay
<1>7. Places'
  BY <1>1, <1>4, PlacesStay, HasSame DEF Arriving
<1>8. Leaves' /\ Pendings'
  BY <1>1, <1>4, LeavesStay, PendingsStay, HasSame
<1>9. RoleKept'
  BY <1>1, <1>4, RoleStays
<1> QED  BY <1>5, <1>6, <1>7, <1>8, <1>9

LEMMA EventsDoneKeeps == ASSUME Inv, NEW l \in Loops, EventsDone(l)  PROVE Inv'
<1> USE DEF Inv
<1>1. /\ UNCHANGED <<role, asks, accepted, acceptor, letters, connected, failed, requests, channel>>
      /\ UNCHANGED <<slab, free, capacity, reading, registered, pending, established, shared, poisoned>>
  BY DEF EventsDone, acceptVars, slabVars, ioVars, setupVars, sharedVars
<1>2. /\ phase' \in [Loops -> {"io", "drain", "dead", "no peer"}] /\ reported' \in [Loops -> SUBSET Streams]
      /\ \A l2 \in Loops : phase'[l2] = "io" => phase[l2] = "io" /\ reported[l2] \subseteq reported'[l2]
  BY DEF EventsDone, Types
<1>3. Types'
  BY <1>1, <1>2 DEF Types
<1>4. Slabs' /\ Regs'
  BY <1>1, SlabsSame, RegsStay
<1>5. Places'
  BY <1>1, PlacesStay, HasSame, InSame, UniqueSame
<1>6. Leaves' /\ Pendings'
  BY <1>1, <1>2, LeavesStay, PendingsStay, HasSame, InSame
<1>7. RoleKept'
  BY <1>1, RoleStays, InSame
<1> QED  BY <1>3, <1>4, <1>5, <1>6, <1>7

LEMMA DrainEmptyKeeps == ASSUME Inv, NEW l \in Loops, DrainEmpty(l)  PROVE Inv'
<1> USE DEF Inv
<1>1. /\ UNCHANGED <<role, asks, accepted, acceptor, letters, connected, failed, requests, channel, reported>>
      /\ UNCHANGED <<slab, free, capacity, reading, registered, pending, established, shared, poisoned>>
  BY DEF DrainEmpty, acceptVars, slabVars, ioVars, setupVars, sharedVars
<1>2. /\ phase' \in [Loops -> {"io", "drain", "dead", "no peer"}]
      /\ \A l2 \in Loops : l2 # l => phase'[l2] = phase[l2]
  BY DEF DrainEmpty, Types
<1>3. Types'
  BY <1>1, <1>2 DEF Types
<1>4. Slabs' /\ Regs'
  BY <1>1, SlabsSame, RegsStay
<1>5. Places'
  BY <1>1, PlacesStay, HasSame, InSame, UniqueSame
<1>6. Leaves'
  <2>1. \A m \in Message : ~In(l, m)
    <3>1. Len(channel[l]) = 0
      BY EmptySeq DEF DrainEmpty
    <3> QED  BY <3>1 DEF In, Msgs
  <2>2. \A l2 \in Loops, m \in Message : In(l2, m)' => In(l2, m) /\ l2 # l
    BY <1>1, <2>1, InSame
  <2>3. \A l2 \in Loops, m \in Message : Leaving(l2, m) /\ l2 # l => Leaving(l2, m)'
    BY <1>1, <1>2 DEF Leaving, Has, Keys, Token
  <2> QED  BY <2>2, <2>3 DEF Leaves
<1>7. Pendings'
  BY <1>1, PendingsStay, HasSame
<1>8. RoleKept'
  BY <1>1, RoleStays, InSame
<1> QED  BY <1>3, <1>4, <1>5, <1>6, <1>7, <1>8

\* A stream that has come is not the subject of a message any more, unless it
\* is leaving.
LEMMA NotMentioned ==
  ASSUME Inv, NEW l \in Loops, NEW s \in Streams,
         \A l1 \in Loops, m \in Message : In(l1, m) /\ Arriving(m) => m.stream # s,
         \A m \in Message : In(l, m) /\ m.kind = "removed" => m.stream # s
  PROVE  ~Mentions(channel[l], s)
<1>1. \A m \in Msgs(channel[l]) : m \in Message
  BY MsgsType DEF Inv, Types
<1> QED  BY <1>1 DEF Mentions, In, Arriving, StreamKinds

LEMMA HandOverKeeps == ASSUME Inv, Accept \/ Connect  PROVE Inv'
<1> USE DEF Inv
<1> DEFINE s == accepted + 1
           l == NextLoop
<1>1. /\ UNCHANGED <<role, asks, letters, requests, phase, reported, slab, free, capacity>>
      /\ UNCHANGED <<failed, reading, registered, pending, established, shared, poisoned>>
      /\ accepted < MaxStreams /\ accepted' = s
  BY DEF Accept, Connect, HandOver, slabVars, ioVars, setupVars, sharedVars
<1>2. accepted \in Nat /\ s \in Streams /\ accepted' \in 0 .. MaxStreams /\ l \in Loops
  <2>1. accepted \in 0 .. MaxStreams
    BY DEF Types
  <2>2. accepted \in Nat /\ s \in Streams /\ s \in 0 .. MaxStreams
    BY <1>1, <2>1, ConstantTypes DEF Streams
  <2>3. l \in 0 .. PoolSize - 1
    BY <2>2, ConstantTypes DEF NextLoop
  <2> QED  BY <1>1, <2>2, <2>3 DEF Loops
<1>3. /\ connected' \subseteq Streams /\ acceptor' \in {"on", "down", "dead"}
      /\ \E msg \in {Established(s), Connecting(s)} :
           /\ Send(l, msg) \/ channel' = channel
           /\ msg = Connecting(s) => role = "connector"
  <2>1. CASE Accept
    <3>1. Established(s) # Connecting(s)
      BY <1>2, MessageTypes
    <3> QED  BY <1>2, <2>1, <3>1 DEF Accept, HandOver, Types
  <2>2. CASE Connect
    BY <1>2, <2>2 DEF Connect, HandOver, Types
  <2> QED  BY <2>1, <2>2
<1>4. PICK msg \in {Established(s), Connecting(s)} :
           /\ Send(l, msg) \/ channel' = channel
           /\ msg = Connecting(s) => role = "connector"
  BY <1>3
<1> HIDE DEF s, l
<1>5. /\ msg \in Message /\ Arriving(msg) /\ msg.stream = s
      /\ msg.kind \in {"established", "connecting"}
      /\ msg.kind = "connecting" => role = "connector"
  BY <1>2, <1>4, MessageTypes DEF Arriving
<1>6. /\ \A l1 \in Loops, k \in Nat : ~Has(l1, k, s)
      /\ \A l1 \in Loops, m \in Message : In(l1, m) /\ Arriving(m) => m.stream # s
      /\ s \notin established
      /\ \A l1 \in Loops, m \in Message : In(l1, m) /\ m.kind = "removed" => m.stream # s
      /\ \A x \in Nat : x <= accepted => x <= s
  <2>1. \A x \in Nat : x <= accepted => x # s /\ x <= s
    BY <1>2 DEF s
  <2>2. \A x \in Streams : x \in Nat
    BY StreamTypes
  <2>3. \A l1 \in Loops, k \in Nat : ~Has(l1, k, s)
    BY <1>2, <2>1, <2>2 DEF Places
  <2>4. \A l1 \in Loops, m \in Message : In(l1, m) /\ Arriving(m) => m.stream # s
    BY <1>2, <2>1, <2>2, MessageCases DEF Places
  <2>5. s \notin established
    BY <1>2, <2>1, <2>2 DEF Places
  <2>6. \A l1 \in Loops, m \in Message : In(l1, m) /\ m.kind = "removed" => m.stream # s
    BY <2>5 DEF Leaves, Leaving
  <2> QED  BY <2>1, <2>3, <2>4, <2>5, <2>6
<1>7. /\ channel' \in [Loops -> Seq(Message)]
      /\ \A l2 \in Loops, m \in Message : In(l2, m)' => In(l2, m) \/ (l2 = l /\ m = msg)
      /\ \A l2 \in Loops : Unique(channel'[l2])
  <2>1. CASE Send(l, msg)
    <3>1. ~Mentions(channel[l], s)
      BY <1>2, <1>6, NotMentioned
    <3>2. \A l2 \in Loops : Unique(channel[l2])
      BY DEF Places
    <3> QED  BY <1>2, <1>5, <2>1, <3>1, <3>2, SendEffect
  <2>2. CASE channel' = channel
    BY <2>2, InSame, UniqueSame DEF Types
  <2> QED  BY <1>4, <2>1, <2>2
<1>8. Types'
  BY <1>1, <1>2, <1>3, <1>7 DEF Types
<1>9. Slabs' /\ Regs'
  BY <1>1, SlabsSame, RegsStay
<1>10. Places'
  <2>0. \A l1, k, x : Has(l1, k, x)' <=> Has(l1, k, x)
    BY <1>1, HasSame
  <2>1. \A l1, l2 \in Loops, k1, k2 \in Nat, x \in Streams :
          Has(l1, k1, x)' /\ Has(l2, k2, x)' => l1 = l2 /\ k1 = k2
    BY <2>0 DEF Places
  <2>2. \A l1, l2 \in Loops, m \in Message, k \in Nat :
          In(l2, m)' /\ Arriving(m) => ~Has(l1, k, m.stream)'
    BY <1>5, <1>6, <1>7, <2>0 DEF Places
  <2>3. \A l1, l2 \in Loops, m1, m2 \in Message :
          In(l1, m1)' /\ In(l2, m2)' /\ Arriving(m1) /\ Arriving(m2) /\ m1.stream = m2.stream
            => l1 = l2
    BY <1>5, <1>6, <1>7 DEF Places
  <2>4. \A l1 \in Loops, k \in Nat, x \in Streams : Has(l1, k, x)' => x <= accepted'
    BY <1>1, <1>6, <2>0, StreamTypes DEF Places
  <2>5. \A l1 \in Loops, m \in Message :
          In(l1, m)' /\ Arriving(m) => m.stream <= accepted' /\ m.stream \notin established'
    <3>1. s <= accepted'
      BY <1>1, <1>2, StreamTypes
    <3> QED  BY <1>1, <1>5, <1>6, <1>7, <3>1, MessageCases, StreamTypes DEF Places
  <2>6. \A x \in established' : x <= accepted'
    BY <1>1, <1>6, StreamTypes DEF Places, Types
  <2> QED  BY <1>7, <2>1, <2>2, <2>3, <2>4, <2>5, <2>6 DEF Places
<1>11. \A l2 \in Loops, m \in Message : In(l2, m)' /\ m.kind = "removed" => In(l2, m)
  BY <1>5, <1>7
<1>12. Leaves' /\ Pendings'
  BY <1>1, <1>11, LeavesStay, PendingsStay, HasSame
<1>13. RoleKept'
  <2>1. \A l2 \in Loops, m \in Message :
          In(l2, m)' => In(l2, m) \/ (m.kind # "stop" /\ (m.kind = "connecting" => role # "server"))
    BY <1>5, <1>7
  <2> QED  BY <1>1, <2>1, MessageTypes DEF RoleKept
<1> QED  BY <1>8, <1>9, <1>10, <1>12, <1>13

\* What EnableIo and DisableIo do to the registrations.
LEMMA EnableEffect ==
  ASSUME Inv, NEW l \in Loops, NEW k \in Nat, NEW s \in Streams, Has(l, k, s), slab' = slab,
         EnableIo(l, s)
  PROVE  /\ phase' \in [Loops -> {"io", "drain", "dead", "no peer"}]
         /\ \A l2 \in Loops : phase'[l2] \in {phase[l2], "dead", "no peer"}
         /\ registered' \subseteq Streams /\ reading' \subseteq registered'
         /\ registered' \subseteq registered \cup {s}
         /\ registered \subseteq reading => registered' \subseteq reading'
         /\ Regs'
<1> USE DEF Inv
<1>1. /\ phase' \in [Loops -> {"io", "drain", "dead", "no peer"}]
      /\ \A l2 \in Loops : phase'[l2] \in {phase[l2], "dead", "no peer"}
  BY DEF EnableIo, Dies, Types
<1>2. /\ registered' \subseteq Streams /\ reading' \subseteq registered'
      /\ registered' \subseteq registered \cup {s}
      /\ registered \subseteq reading => registered' \subseteq reading'
  BY DEF EnableIo, ioVars, Types
<1>3. Regs'
  BY <1>2, HasSame DEF Regs
<1> QED  BY <1>1, <1>2, <1>3

LEMMA PendingReadyKeeps ==
  ASSUME Inv, NEW l \in Loops, NEW k \in Nat, NEW s \in Streams, PendingReady(l, k, s)
  PROVE  Inv'
<1> USE DEF Inv
<1>1. /\ UNCHANGED <<role, asks, accepted, acceptor, letters, connected, failed, requests, channel>>
      /\ UNCHANGED <<slab, free, capacity, shared, poisoned>>
      /\ Has(l, k, s) /\ Token(l, k) \in pending[l]
      /\ pending' = [pending EXCEPT ![l] = @ \ {Token(l, k)}]
      /\ established' = established \cup {s}
      /\ reported' = [reported EXCEPT ![l] = @ \cup {s}]
  BY DEF PendingReady, Ready, Has, acceptVars, slabVars, sharedVars
<1>2. s \notin established
  <2>1. Token(l, k) \in Nat /\ \A k2 \in Nat : Token(l, k2) = Token(l, k) => k2 = k
    BY TokenType
  <2>2. PICK k2 \in Nat, x \in Streams :
          Has(l, k2, x) /\ Token(l, k) = Token(l, k2) /\ x \notin established
    BY <1>1, <2>1 DEF Pendings
  <2>3. k2 = k /\ x = s
    BY <1>1, <2>1, <2>2 DEF Has
  <2> QED  BY <2>2, <2>3
<1>3. /\ phase' \in [Loops -> {"io", "drain", "dead", "no peer"}]
      /\ \A l2 \in Loops : phase'[l2] \in {phase[l2], "dead", "no peer"}
      /\ registered' \subseteq Streams /\ reading' \subseteq registered'
      /\ registered' \subseteq registered \cup {s}
      /\ registered \subseteq reading => registered' \subseteq reading'
      /\ Regs'
  <2>1. CASE asks
    <3>1. EnableIo(l, s)
      BY <2>1 DEF PendingReady
    <3> QED  BY <1>1, <3>1, EnableEffect
  <2>2. CASE ~asks
    <3>1. UNCHANGED <<reading, registered, phase>>
      BY <2>2 DEF PendingReady, ioVars
    <3> QED  BY <1>1, <3>1, RegsStay DEF Types
  <2> QED  BY <2>1, <2>2
<1>4. /\ pending' \in [Loops -> SUBSET Nat] /\ reported' \in [Loops -> SUBSET Streams]
      /\ established' \subseteq Streams
      /\ \A l2 \in Loops : reported[l2] \subseteq reported'[l2]
  BY <1>1 DEF Types
<1>5. Types'
  BY <1>1, <1>3, <1>4 DEF Types
<1>6. Slabs'
  BY <1>1, SlabsSame
<1>7. Places'
  <2>0. /\ \A l1, k1, x : Has(l1, k1, x)' <=> Has(l1, k1, x)
        /\ \A l1, m : In(l1, m)' <=> In(l1, m)
    BY <1>1, HasSame, InSame
  <2>1. \A l1 \in Loops, m \in Message : In(l1, m) /\ Arriving(m) => m.stream # s
    BY <1>1 DEF Places
  <2>2. s <= accepted'
    BY <1>1 DEF Places
  <2>3. \A l1 \in Loops, m \in Message :
          In(l1, m)' /\ Arriving(m) => m.stream <= accepted' /\ m.stream \notin established'
    BY <1>1, <2>0, <2>1 DEF Places
  <2>4. \A x \in established' : x <= accepted'
    BY <1>1, <2>2 DEF Places
  <2>5. \A l1 \in Loops : Unique(channel'[l1])
    BY <1>1, UniqueSame
  <2>6. \A l1, l2 \in Loops, k1, k2 \in Nat, x \in Streams :
          Has(l1, k1, x)' /\ Has(l2, k2, x)' => l1 = l2 /\ k1 = k2
    BY <2>0 DEF Places
  <2>7. \A l1, l2 \in Loops, m \in Message, k1 \in Nat :
          In(l2, m)' /\ Arriving(m) => ~Has(l1, k1, m.stream)'
    BY <2>0 DEF Places
  <2>8. \A l1, l2 \in Loops, m1, m2 \in Message :
          In(l1, m1)' /\ In(l2, m2)' /\ Arriving(m1) /\ Arriving(m2) /\ m1.stream = m2.stream
            => l1 = l2
    BY <2>0 DEF Places
  <2>9. \A l1 \in Loops, k1 \in Nat, x \in Streams : Has(l1, k1, x)' => x <= accepted'
    BY <1>1, <2>0 DEF Places
  <2> QED  BY <2>3, <2>4, <2>5, <2>6, <2>7, <2>8, <2>9 DEF Places
<1>8. Leaves'
  <2> SUFFICES ASSUME NEW l2 \in Loops, NEW m \in Message, In(l2, m)', m.kind = "removed"
               PROVE  Leaving(l2, m)'
    BY DEF Leaves
  <2>1. Leaving(l2, m)
    BY <1>1, InSame DEF Leaves
  <2>2. PICK k2 \in Nat : /\ Has(l2, k2, m.stream) /\ m.token = Token(l2, k2)
                          /\ m.stream \in established
                          /\ m.stream \in registered /\ phase[l2] = "io" => m.stream \in reported[l2]
    BY <2>1 DEF Leaving
  <2>3. m.stream # s
    BY <1>2, <2>2
  <2>4. m.stream \in registered' /\ phase'[l2] = "io" => m.stream \in reported'[l2]
    BY <1>3, <1>4, <2>2, <2>3
  <2>5. Has(l2, k2, m.stream)' /\ m.token = Token(l2, k2)' /\ m.stream \in established'
    BY <1>1, <2>2, HasSame DEF Token
  <2> QED  BY <2>4, <2>5 DEF Leaving
<1>9. RoleKept'
  BY <1>1, <1>3, InSame DEF RoleKept
<1>10. Pendings'
  <2> SUFFICES ASSUME NEW l2 \in Loops, NEW t \in Nat
               PROVE  t \in pending'[l2] <=>
                        \E k2 \in Nat, x \in Streams :
                          Has(l2, k2, x)' /\ t = Token(l2, k2)' /\ x \notin established'
    BY DEF Pendings
  <2>0. \A k2, x : (Has(l2, k2, x)' <=> Has(l2, k2, x)) /\ Token(l2, k2)' = Token(l2, k2)
    BY <1>1, HasSame DEF Token
  <2>1. t \in pending'[l2] <=> t \in pending[l2] /\ ~(l2 = l /\ t = Token(l, k))
    BY <1>1 DEF Types
  <2>2. t \in pending[l2] <=>
          \E k2 \in Nat, x \in Streams : Has(l2, k2, x) /\ t = Token(l2, k2) /\ x \notin established
    BY DEF Pendings
  <2>3. \A k2 \in Nat, x \in Streams :
          Has(l2, k2, x) => (x = s <=> l2 = l /\ Token(l2, k2) = Token(l, k))
    <3>1. \A k2 \in Nat : Token(l, k2) = Token(l, k) => k2 = k
      BY TokenType
    <3>2. \A k2 \in Nat, x \in Streams : Has(l, k2, x) /\ k2 = k => x = s
      BY <1>1 DEF Has
    <3>3. \A k2 \in Nat, x \in Streams : Has(l2, k2, x) /\ x = s => l2 = l /\ k2 = k
      BY <1>1 DEF Places
    <3> QED  BY <3>1, <3>2, <3>3
  <2> QED  BY <1>1, <2>0, <2>1, <2>2, <2>3
<1> QED  BY <1>3, <1>5, <1>6, <1>7, <1>8, <1>9, <1>10

LEMMA DisableEffect ==
  ASSUME Inv, NEW streams, slab' = slab, DisableIo(streams)
  PROVE  /\ registered' \subseteq registered /\ reading' \subseteq registered'
         /\ registered \subseteq reading =>
              registered' \subseteq reading' /\ \A s \in streams : s \notin registered'
         /\ Regs'
<1> USE DEF Inv
<1>1. registered' \subseteq registered
  BY DEF DisableIo
<1>2. Regs'
  BY <1>1, RegsStay
<1> QED  BY <1>1, <1>2 DEF DisableIo, Types

LEMMA StreamEndsKeeps ==
  ASSUME Inv, NEW l \in Loops, NEW k \in Nat, NEW s \in Streams, StreamEnds(l, k, s)
  PROVE  Inv'
<1> USE DEF Inv
<1>1. /\ UNCHANGED <<role, asks, accepted, acceptor, letters, connected, failed, requests, phase>>
      /\ UNCHANGED <<slab, free, capacity, pending, established, shared, poisoned>>
      /\ Has(l, k, s) /\ Token(l, k) \notin pending[l]
      /\ phase[l] = "io" /\ s \in registered /\ s \notin reported[l]
      /\ reported' = [reported EXCEPT ![l] = @ \cup {s}]
      /\ DisableIo({s}) /\ Send(l, Removed(Token(l, k), s))
  BY DEF StreamEnds, Ready, Has, acceptVars, slabVars, setupVars, sharedVars
<1>2. s \in established
  <2>1. Token(l, k) \in Nat
    BY TokenType
  <2> QED  BY <1>1, <2>1 DEF Pendings
<1> DEFINE msg == Removed(Token(l, k), s)
<1>3. msg \in Message /\ msg.kind = "removed" /\ msg.stream = s /\ msg.token = Token(l, k)
  BY TokenType, MessageTypes
<1> HIDE DEF msg
<1>4. /\ registered' \subseteq registered /\ reading' \subseteq registered' /\ Regs'
      /\ registered \subseteq reading => registered' \subseteq reading'
  BY <1>1, DisableEffect
<1>5. /\ channel' \in [Loops -> Seq(Message)]
      /\ \A l2 \in Loops, m \in Message : In(l2, m)' => In(l2, m) \/ (l2 = l /\ m = msg)
      /\ \A l2 \in Loops : Unique(channel'[l2])
  <2>1. \A l1 \in Loops, m \in Message : In(l1, m) /\ Arriving(m) => m.stream # s
    BY <1>1 DEF Places
  <2>2. \A m \in Message : In(l, m) /\ m.kind = "removed" => m.stream # s
    BY <1>1 DEF Leaves, Leaving
  <2>3. ~Mentions(channel[l], s)
    BY <2>1, <2>2, NotMentioned
  <2>4. \A l2 \in Loops : Unique(channel[l2])
    BY DEF Places
  <2>5. Send(l, msg)
    BY <1>1 DEF msg
  <2> QED  BY <1>3, <2>3, <2>4, <2>5, SendEffect
<1>6. /\ reported' \in [Loops -> SUBSET Streams] /\ s \in reported'[l]
      /\ \A l2 \in Loops : reported[l2] \subseteq reported'[l2]
  BY <1>1 DEF Types
<1>7. Types'
  BY <1>1, <1>4, <1>5, <1>6 DEF Types
<1>8. Slabs'
  BY <1>1, SlabsSame
<1>9. Places'
  <2>1. \A l2 \in Loops, m \in Message : In(l2, m)' /\ Arriving(m) => In(l2, m)
    BY <1>3, <1>5 DEF Arriving
  <2> QED  BY <1>1, <1>5, <2>1, PlacesStay, HasSame
<1>10. Leaves'
  <2> SUFFICES ASSUME NEW l2 \in Loops, NEW m \in Message, In(l2, m)', m.kind = "removed"
               PROVE  Leaving(l2, m)'
    BY DEF Leaves
  <2>1. CASE In(l2, m)
    <3>1. PICK k2 \in Nat : /\ Has(l2, k2, m.stream) /\ m.token = Token(l2, k2)
                            /\ m.stream \in established
                            /\ m.stream \in registered /\ phase[l2] = "io" => m.stream \in reported[l2]
      BY <2>1 DEF Leaves, Leaving
    <3>2. Has(l2, k2, m.stream)' /\ m.token = Token(l2, k2)' /\ m.stream \in established'
      BY <1>1, <3>1, HasSame DEF Token
    <3>3. m.stream \in registered' /\ phase'[l2] = "io" => m.stream \in reported'[l2]
      BY <1>1, <1>4, <1>6, <3>1
    <3> QED  BY <3>2, <3>3 DEF Leaving
  <2>2. CASE l2 = l /\ m = msg
    <3>1. Has(l2, k, m.stream)' /\ m.token = Token(l2, k)' /\ m.stream \in established'
      BY <1>1, <1>2, <1>3, <2>2, HasSame DEF Token
    <3>2. m.stream \in reported'[l2]
      BY <1>3, <1>6, <2>2
    <3> QED  BY <3>1, <3>2 DEF Leaving
  <2> QED  BY <1>5, <2>1, <2>2
<1>11. RoleKept'
  <2>1. \A l2 \in Loops, m \in Message : In(l2, m)' => In(l2, m) \/ m.kind = "removed"
    BY <1>3, <1>5
  <2> QED  BY <1>1, <1>4, <2>1, MessageTypes DEF RoleKept
<1>12. Pendings'
  BY <1>1, PendingsStay, HasSame
<1> QED  BY <1>4, <1>7, <1>8, <1>9, <1>10, <1>11, <1>12

\* The handler of the message that is next.
LEMMA TakesEffect ==
  ASSUME Inv, NEW l \in Loops, NEW kind, Takes(l, kind), Taken(l)
  PROVE  LET h == Head(channel[l])
         IN  /\ UNCHANGED <<role, asks, accepted, acceptor, letters, connected, failed, requests, reported>>
             /\ phase[l] = "drain" /\ h.kind = kind
             /\ channel' \in [Loops -> Seq(Message)]
             /\ h \in Message /\ In(l, h)
             /\ \A l2 \in Loops, m \in Message : In(l2, m)' => In(l2, m)
             /\ \A l2 \in Loops : Unique(channel'[l2])
             /\ h.kind \in StreamKinds =>
                  \A m \in Message : In(l, m)' /\ m.kind \in StreamKinds => m.stream # h.stream
<1>1. channel[l] # <<>> /\ channel' = [channel EXCEPT ![l] = Tail(@)]
  BY DEF Takes, Taken
<1>2. \A l2 \in Loops : Unique(channel[l2])
  BY DEF Inv, Places
<1>3. UNCHANGED <<role, asks, accepted, acceptor, letters, connected, failed, requests, reported>>
  BY DEF Taken, acceptVars
<1>4. phase[l] = "drain" /\ Head(channel[l]).kind = kind
  BY DEF Takes
<1> QED  BY <1>1, <1>2, <1>3, <1>4, TakeEffect DEF Inv

LEMMA HandleEnableKeeps == ASSUME Inv, NEW l \in Loops, HandleEnable(l)  PROVE Inv'
<1> USE DEF Inv
<1>1. /\ UNCHANGED <<role, asks, accepted, acceptor, letters, connected, failed, requests, reported>>
      /\ phase[l] = "drain"
      /\ channel' \in [Loops -> Seq(Message)]
      /\ \A l2 \in Loops, m \in Message : In(l2, m)' => In(l2, m)
      /\ \A l2 \in Loops : Unique(channel'[l2])
  BY TakesEffect DEF HandleEnable
<1>2. UNCHANGED <<slab, free, capacity, pending, established, shared, poisoned>>
  BY DEF HandleEnable, slabVars, setupVars, sharedVars
<1>3. /\ phase' \in [Loops -> {"io", "drain", "dead", "no peer"}]
      /\ \A l2 \in Loops : phase'[l2] \in {phase[l2], "dead", "no peer"}
      /\ registered' \subseteq Streams /\ reading' \subseteq registered'
      /\ registered \subseteq reading => registered' \subseteq reading'
      /\ Regs'
      /\ \A s \in registered' : s \in registered \/ \E k \in Nat : Has(l, k, s)
  <2> DEFINE key == Head(channel[l]).token - l * Cap
             s == slab[l][key + 1]
  <2>1. CASE key \in Keys(l)
    <3>1. EnableIo(l, s) /\ Has(l, key, s)
      BY <2>1 DEF HandleEnable, Has
    <3>2. key \in Nat /\ s \in Streams
      BY <3>1, HasTypes
    <3> HIDE DEF key, s
    <3> QED  BY <1>2, <3>1, <3>2, EnableEffect
  <2>2. CASE key \notin Keys(l)
    <3>1. UNCHANGED <<reading, registered, phase>>
      BY <2>2 DEF HandleEnable, ioVars
    <3> QED  BY <1>2, <3>1, RegsStay DEF Types
  <2> QED  BY <2>1, <2>2
<1>4. Types'
  BY <1>1, <1>2, <1>3 DEF Types
<1>5. Slabs'
  BY <1>2, SlabsSame
<1>6. Places'
  BY <1>1, <1>2, PlacesStay, HasSame
<1>7. Leaves'
  <2> SUFFICES ASSUME NEW l2 \in Loops, NEW m \in Message, In(l2, m)', m.kind = "removed"
               PROVE  Leaving(l2, m)'
    BY DEF Leaves
  <2>1. m.stream \in Streams /\ Leaving(l2, m)
    BY <1>1, MessageCases DEF Leaves
  <2>2. PICK k2 \in Nat : /\ Has(l2, k2, m.stream) /\ m.token = Token(l2, k2)
                          /\ m.stream \in established
                          /\ m.stream \in registered /\ phase[l2] = "io" => m.stream \in reported[l2]
    BY <2>1 DEF Leaving
  <2>3. Has(l2, k2, m.stream)' /\ m.token = Token(l2, k2)' /\ m.stream \in established'
    BY <1>2, <2>2, HasSame DEF Token
  <2>4. m.stream \in registered' /\ phase'[l2] = "io" => m.stream \in reported'[l2]
    <3>1. phase'[l2] = "io" => phase[l2] = "io" /\ l2 # l
      BY <1>1, <1>3
    <3>2. l2 # l => \A k \in Nat : ~Has(l, k, m.stream)
      BY <2>1, <2>2 DEF Places
    <3>3. l2 # l /\ m.stream \in registered' => m.stream \in registered
      BY <1>3, <3>2
    <3> QED  BY <1>1, <2>2, <3>1, <3>3
  <2> QED  BY <2>3, <2>4 DEF Leaving
<1>8. RoleKept'
  <2>1. \A l2 \in Loops : In(l2, Stop)' => In(l2, Stop)
    BY <1>1, MessageTypes
  <2> QED  BY <1>1, <1>3, <2>1 DEF RoleKept
<1>9. Pendings'
  BY <1>2, PendingsStay, HasSame
<1> QED  BY <1>3, <1>4, <1>5, <1>6, <1>7, <1>8, <1>9

LEMMA HandleStopKeeps == ASSUME Inv, NEW l \in Loops, HandleStop(l)  PROVE Inv'
<1> USE DEF Inv
<1>1. /\ UNCHANGED <<role, asks, accepted, acceptor, letters, connected, failed, requests, reported>>
      /\ Head(channel[l]) \in Message /\ In(l, Head(channel[l])) /\ Head(channel[l]).kind = "stop"
      /\ channel' \in [Loops -> Seq(Message)]
      /\ \A l2 \in Loops, m \in Message : In(l2, m)' => In(l2, m)
      /\ \A l2 \in Loops : Unique(channel'[l2])
  BY TakesEffect DEF HandleStop
<1>2. /\ UNCHANGED <<slab, free, capacity, pending, established, shared, poisoned>>
      /\ phase' = [phase EXCEPT ![l] = "io"] /\ DisableIo(Connections(l))
  BY DEF HandleStop, slabVars, setupVars, sharedVars
<1>3. phase' \in [Loops -> {"io", "drain", "dead", "no peer"}] /\ \A l2 \in Loops : l2 # l => phase'[l2] = phase[l2]
  BY <1>2 DEF Types
<1>4. registered \subseteq reading
  <2>1. In(l, Stop)
    BY <1>1, MessageCases
  <2>2. role \in {"server", "connector"}
    BY DispatcherAssumption DEF Types
  <2> QED  BY <2>1, <2>2 DEF RoleKept
<1>5. /\ registered' \subseteq registered /\ reading' \subseteq registered' /\ Regs'
      /\ registered' \subseteq reading'
      /\ \A s \in Connections(l) : s \notin registered'
  BY <1>2, <1>4, DisableEffect
<1>6. Types'
  BY <1>1, <1>2, <1>3, <1>5 DEF Types
<1>7. Slabs'
  BY <1>2, SlabsSame
<1>8. Places'
  BY <1>1, <1>2, PlacesStay, HasSame
<1>9. Leaves'
  <2> SUFFICES ASSUME NEW l2 \in Loops, NEW m \in Message, In(l2, m)', m.kind = "removed"
               PROVE  Leaving(l2, m)'
    BY DEF Leaves
  <2>1. Leaving(l2, m)
    BY <1>1 DEF Leaves
  <2>2. PICK k2 \in Nat : /\ Has(l2, k2, m.stream) /\ m.token = Token(l2, k2)
                          /\ m.stream \in established
                          /\ m.stream \in registered /\ phase[l2] = "io" => m.stream \in reported[l2]
    BY <2>1 DEF Leaving
  <2>3. Has(l2, k2, m.stream)' /\ m.token = Token(l2, k2)' /\ m.stream \in established'
    BY <1>2, <2>2, HasSame DEF Token
  <2>4. l2 = l => m.stream \notin registered'
    BY <1>5, <2>2 DEF Has, Connections
  <2>5. m.stream \in registered' /\ phase'[l2] = "io" => m.stream \in reported'[l2]
    BY <1>1, <1>3, <1>5, <2>2, <2>4
  <2> QED  BY <2>3, <2>5 DEF Leaving
<1>10. RoleKept'
  BY <1>1, <1>5, MessageTypes DEF RoleKept
<1>11. Pendings'
  BY <1>2, PendingsStay, HasSame
<1> QED  BY <1>5, <1>6, <1>7, <1>8, <1>9, <1>10, <1>11

\* The table and the phases, where the connections come and go.
LEMMA TableEffect ==
  ASSUME Types, NEW l \in Loops, NEW token \in Nat, Dispatch(l, token) \/ Forget(l, token)
  PROVE  /\ DOMAIN shared' \subseteq Nat /\ IsFiniteSet(DOMAIN shared')
         /\ \A t \in DOMAIN shared' : shared'[t] \in Loops
         /\ poisoned' \in BOOLEAN
         /\ phase' \in [Loops -> {"io", "drain", "dead", "no peer"}]
         /\ \A l2 \in Loops : phase'[l2] \in {phase[l2], "dead", "no peer"}
<1>0. Dies(l) \/ LogsPeer(l) \/ UNCHANGED phase =>
        /\ phase' \in [Loops -> {"io", "drain", "dead", "no peer"}]
        /\ \A l2 \in Loops : phase'[l2] \in {phase[l2], "dead", "no peer"}
  BY DEF Dies, LogsPeer, Types
<1>1. CASE UNCHANGED <<shared, poisoned>> /\ Dies(l)
  BY <1>0, <1>1 DEF Types
<1>2. CASE Dies(l) /\ poisoned' = TRUE /\ UNCHANGED shared
  BY <1>0, <1>2 DEF Types
<1>3. CASE /\ shared' = [t \in DOMAIN shared \cup {token} |-> IF t = token THEN l ELSE shared[t]]
           /\ UNCHANGED <<phase, poisoned>>
  <2>1. IsFiniteSet(DOMAIN shared')
    BY <1>3, FS_AddElement DEF Types
  <2> QED  BY <1>0, <1>3, <2>1 DEF Types
<1>4. CASE /\ shared' = [t \in DOMAIN shared \ {token} |-> shared[t]]
           /\ UNCHANGED poisoned /\ LogsPeer(l)
  <2>1. IsFiniteSet(DOMAIN shared')
    BY <1>4, FS_Subset DEF Types
  <2> QED  BY <1>0, <1>4, <2>1 DEF Types
<1> QED  BY <1>1, <1>2, <1>3, <1>4 DEF Dispatch, Forget, sharedVars

LEMMA HandleRemovedKeeps == ASSUME Inv, NEW l \in Loops, HandleRemoved(l)  PROVE Inv'
<1> USE DEF Inv
<1> DEFINE h == Head(channel[l])
           s == h.stream
           key == h.token - l * Cap
<1>1. /\ UNCHANGED <<role, asks, accepted, acceptor, letters, connected, failed, requests, reported>>
      /\ h \in Message /\ In(l, h) /\ h.kind = "removed"
      /\ channel' \in [Loops -> Seq(Message)]
      /\ \A l2 \in Loops, m \in Message : In(l2, m)' => In(l2, m)
      /\ \A l2 \in Loops : Unique(channel'[l2])
      /\ \A m \in Message : In(l, m)' /\ m.kind \in StreamKinds => m.stream # s
  BY TakesEffect DEF HandleRemoved, StreamKinds
<1>2. s \in Streams /\ h.token \in Nat /\ key \in Nat /\ Has(l, key, s) /\ s \in established
  <2>1. s \in Streams /\ h.token \in Nat /\ Leaving(l, h)
    BY <1>1, MessageCases DEF Leaves
  <2>2. PICK k \in Nat : Has(l, k, s) /\ h.token = Token(l, k) /\ s \in established
    BY <2>1 DEF Leaving
  <2>3. key = k
    BY <2>2, TokenType
  <2> QED  BY <2>1, <2>2, <2>3
<1>3. /\ UNCHANGED <<capacity, pending, established>>
      /\ slab' = [slab EXCEPT ![l][key + 1] = None]
      /\ free' = [free EXCEPT ![l] = <<key>> \o @]
      /\ reading' = reading \ {s} /\ registered' = registered \ {s}
      /\ Forget(l, h.token)
  BY <1>2 DEF HandleRemoved, setupVars, Drop, Has
<1> HIDE DEF h, s, key
<1>4. /\ slab' \in [Loops -> Seq(Entry)] /\ free' \in [Loops -> Seq(Nat)] /\ Slabs'
      /\ \A l2 \in Loops, k \in Nat, x \in Streams :
           Has(l2, k, x)' <=> Has(l2, k, x) /\ ~(l2 = l /\ k = key)
  BY <1>2, <1>3, RemoveEffect
<1>5. /\ DOMAIN shared' \subseteq Nat /\ IsFiniteSet(DOMAIN shared')
      /\ \A t \in DOMAIN shared' : shared'[t] \in Loops
      /\ poisoned' \in BOOLEAN
      /\ phase' \in [Loops -> {"io", "drain", "dead", "no peer"}]
      /\ \A l2 \in Loops : phase'[l2] \in {phase[l2], "dead", "no peer"}
  BY <1>2, <1>3, TableEffect
<1>6. registered' \subseteq Streams /\ reading' \subseteq registered'
  BY <1>3 DEF Types
<1>7. Types'
  BY <1>1, <1>3, <1>4, <1>5, <1>6 DEF Types
<1>8. \A l2 \in Loops, k \in Nat, x \in Streams : Has(l2, k, x) /\ x # s => Has(l2, k, x)'
  <2>1. \A x \in Streams : Has(l, key, x) => x = s
    BY <1>2 DEF Has
  <2> QED  BY <1>4, <2>1
<1>9. Regs'
  BY <1>3, <1>8 DEF Regs, Types
<1>10. Places'
  BY <1>1, <1>3, <1>4, PlacesStay
<1>11. Leaves'
  <2> SUFFICES ASSUME NEW l2 \in Loops, NEW m \in Message, In(l2, m)', m.kind = "removed"
               PROVE  Leaving(l2, m)'
    BY DEF Leaves
  <2>1. m.stream \in Streams /\ Leaving(l2, m)
    BY <1>1, MessageCases DEF Leaves
  <2>2. PICK k2 \in Nat : /\ Has(l2, k2, m.stream) /\ m.token = Token(l2, k2)
                          /\ m.stream \in established
                          /\ m.stream \in registered /\ phase[l2] = "io" => m.stream \in reported[l2]
    BY <2>1 DEF Leaving
  <2>3. m.stream # s
    <3>1. CASE l2 = l
      BY <1>1, <3>1 DEF StreamKinds
    <3>2. CASE l2 # l
      BY SMTT(30), <1>2, <2>1, <2>2, <3>2 DEF Places
    <3> QED  BY <3>1, <3>2
  <2>4. Has(l2, k2, m.stream)' /\ m.token = Token(l2, k2)' /\ m.stream \in established'
    BY <1>3, <1>8, <2>1, <2>2, <2>3 DEF Token
  <2>5. m.stream \in registered' /\ phase'[l2] = "io" => m.stream \in reported'[l2]
    <3>1. phase'[l2] = "io" => phase[l2] = "io"
      BY <1>5
    <3> QED  BY <1>1, <1>3, <2>2, <3>1
  <2> QED  BY <2>4, <2>5 DEF Leaving
<1>12. RoleKept'
  <2>1. registered \subseteq reading => registered' \subseteq reading'
    BY <1>3
  <2> QED  BY <1>1, <2>1, MessageTypes DEF RoleKept
<1>13. Pendings'
  <2>1. \A l2 \in Loops, k \in Nat, x \in Streams :
          x \notin established => (Has(l2, k, x)' <=> Has(l2, k, x))
    BY <1>2, <1>4, <1>8
  <2> QED  BY <1>3, <2>1, PendingsStay
<1> QED  BY <1>4, <1>7, <1>9, <1>10, <1>11, <1>12, <1>13

----------------------------------------------------------------------------
(* A stream comes to its loop *)

Arrives(l, s) ==
  /\ \E kind \in {"established", "connecting"} : Takes(l, kind)
  /\ Taken(l)
  /\ s = Head(channel[l]).stream

LEMMA ArrivesEffect ==
  ASSUME Inv, NEW l \in Loops, NEW s, Arrives(l, s)
  PROVE  /\ UNCHANGED <<role, asks, accepted, acceptor, letters, connected, failed, requests, reported>>
         /\ s \in Streams /\ s \notin established /\ s <= accepted
         /\ phase[l] = "drain"
         /\ \E h \in Message : In(l, h) /\ Arriving(h) /\ h.stream = s
         /\ \A l1 \in Loops, k \in Nat : ~Has(l1, k, s)
         /\ channel' \in [Loops -> Seq(Message)]
         /\ \A l2 \in Loops, m \in Message : In(l2, m)' => In(l2, m)
         /\ \A l2 \in Loops : Unique(channel'[l2])
         /\ \A l2 \in Loops, m \in Message : In(l2, m)' /\ Arriving(m) => m.stream # s
<1> USE DEF Inv
<1> DEFINE h == Head(channel[l])
<1>1. PICK kind \in {"established", "connecting"} : Takes(l, kind)
  BY DEF Arrives
<1>2. /\ UNCHANGED <<role, asks, accepted, acceptor, letters, connected, failed, requests, reported>>
      /\ phase[l] = "drain" /\ h.kind = kind
      /\ channel' \in [Loops -> Seq(Message)]
      /\ h \in Message /\ In(l, h)
      /\ \A l2 \in Loops, m \in Message : In(l2, m)' => In(l2, m)
      /\ \A l2 \in Loops : Unique(channel'[l2])
      /\ h.kind \in StreamKinds =>
           \A m \in Message : In(l, m)' /\ m.kind \in StreamKinds => m.stream # h.stream
  BY <1>1, TakesEffect DEF Arrives
<1>3. Arriving(h) /\ h.kind \in StreamKinds /\ s = h.stream /\ s \in Streams
  <2>1. Arriving(h) /\ h.kind \in StreamKinds /\ s = h.stream
    BY <1>1, <1>2 DEF Arriving, StreamKinds, Arrives
  <2> QED  BY <1>2, <2>1, MessageCases
<1> HIDE DEF h
<1>4. s \notin established /\ s <= accepted /\ \A l1 \in Loops, k \in Nat : ~Has(l1, k, s)
  BY <1>2, <1>3 DEF Places
<1>5. ASSUME NEW l2 \in Loops, NEW m \in Message, In(l2, m)', Arriving(m)  PROVE m.stream # s
  <2>1. m.kind \in StreamKinds
    BY <1>5 DEF Arriving, StreamKinds
  <2>2. CASE l2 = l
    BY <1>2, <1>3, <1>5, <2>1, <2>2
  <2>3. CASE l2 # l
    BY <1>2, <1>3, <1>5, <2>3 DEF Places
  <2> QED  BY <2>2, <2>3
<1> QED  BY <1>2, <1>3, <1>4, <1>5

\* Whatever is done with its registration and its setup, a stream that is new
\* in its loop is in one place, and disturbs nobody.
LEMMA ArrivalKeeps ==
  ASSUME Inv, NEW l \in Loops, NEW s, Arrives(l, s),
         Insert(l, VacantKey(l), s), Dispatch(l, Token(l, VacantKey(l))),
         registered \subseteq registered', registered' \subseteq registered \cup {s},
         reading' \subseteq registered',
         role = "server" /\ registered \subseteq reading => registered' \subseteq reading',
         established' \in {established, established \cup {s}},
         pending' \in [Loops -> SUBSET Nat]
  PROVE  /\ Types' /\ Slabs' /\ Regs' /\ Places' /\ Leaves' /\ RoleKept'
         /\ VacantKey(l) \in Nat /\ s \in Streams /\ s \notin established
         /\ \A l1 \in Loops, k \in Nat : ~Has(l1, k, s)
         /\ \A l2 \in Loops, k \in Nat, x \in Streams :
              Has(l2, k, x)' <=> Has(l2, k, x) \/ (l2 = l /\ k = VacantKey(l) /\ x = s)
<1> USE DEF Inv
<1>1. /\ UNCHANGED <<role, asks, accepted, acceptor, letters, connected, failed, requests, reported>>
      /\ s \in Streams /\ s \notin established /\ s <= accepted
      /\ phase[l] = "drain"
      /\ \A l1 \in Loops, k \in Nat : ~Has(l1, k, s)
      /\ channel' \in [Loops -> Seq(Message)]
      /\ \A l2 \in Loops, m \in Message : In(l2, m)' => In(l2, m)
      /\ \A l2 \in Loops : Unique(channel'[l2])
      /\ \A l2 \in Loops, m \in Message : In(l2, m)' /\ Arriving(m) => m.stream # s
  BY ArrivesEffect
<1> DEFINE v == VacantKey(l)
<1>2. /\ slab' \in [Loops -> Seq(Entry)] /\ free' \in [Loops -> Seq(Nat)]
      /\ capacity' \in [Loops -> Nat]
      /\ Slabs' /\ v \in Nat
      /\ \A l2 \in Loops, k \in Nat, x \in Streams :
           Has(l2, k, x)' <=> Has(l2, k, x) \/ (l2 = l /\ k = v /\ x = s)
  BY <1>1, InsertEffect
<1>3. /\ DOMAIN shared' \subseteq Nat /\ IsFiniteSet(DOMAIN shared')
      /\ \A t \in DOMAIN shared' : shared'[t] \in Loops
      /\ poisoned' \in BOOLEAN
      /\ phase' \in [Loops -> {"io", "drain", "dead", "no peer"}]
      /\ \A l2 \in Loops : phase'[l2] \in {phase[l2], "dead", "no peer"}
  BY <1>2, TokenType, TableEffect
<1> HIDE DEF v
<1>4. established' \subseteq Streams /\ registered' \subseteq Streams
  BY <1>1 DEF Types
<1>5. Types'
  BY <1>1, <1>2, <1>3, <1>4 DEF Types
<1>6. Regs'
  <2>1. ASSUME NEW x \in registered'  PROVE \E l2 \in Loops, k \in Nat : Has(l2, k, x)'
    <3>1. CASE x = s
      BY <1>1, <1>2, <3>1
    <3>2. CASE x \in registered
      BY <1>2, <3>2 DEF Regs, Types
    <3> QED  BY <3>1, <3>2
  <2> QED  BY <2>1 DEF Regs
<1>7. Places'
  <2>1. \A l1, l2 \in Loops, k1, k2 \in Nat, x \in Streams :
          Has(l1, k1, x)' /\ Has(l2, k2, x)' => l1 = l2 /\ k1 = k2
    <3> SUFFICES ASSUME NEW l1 \in Loops, NEW l2 \in Loops, NEW k1 \in Nat, NEW k2 \in Nat,
                        NEW x \in Streams, Has(l1, k1, x)', Has(l2, k2, x)'
                 PROVE  l1 = l2 /\ k1 = k2
      OBVIOUS
    <3>1. CASE x = s
      <4>1. ~Has(l1, k1, x) /\ ~Has(l2, k2, x)
        BY <1>1, <3>1
      <4> QED  BY <1>2, <4>1
    <3>2. CASE x # s
      <4>1. Has(l1, k1, x) /\ Has(l2, k2, x)
        BY <1>2, <3>2
      <4> QED  BY <4>1 DEF Places
    <3> QED  BY <3>1, <3>2
  <2>2. \A l1, l2 \in Loops, m \in Message, k1 \in Nat :
          In(l2, m)' /\ Arriving(m) => ~Has(l1, k1, m.stream)'
    <3> SUFFICES ASSUME NEW l1 \in Loops, NEW l2 \in Loops, NEW m \in Message, NEW k1 \in Nat,
                        In(l2, m)', Arriving(m)
                 PROVE  ~Has(l1, k1, m.stream)'
      OBVIOUS
    <3>1. m.stream \in Streams /\ m.stream # s /\ In(l2, m)
      BY <1>1, MessageCases
    <3>2. ~Has(l1, k1, m.stream)
      BY <3>1 DEF Places
    <3> QED  BY <1>2, <3>1, <3>2
  <2>3. \A l1, l2 \in Loops, m1, m2 \in Message :
          In(l1, m1)' /\ In(l2, m2)' /\ Arriving(m1) /\ Arriving(m2) /\ m1.stream = m2.stream
            => l1 = l2
    BY <1>1 DEF Places
  <2>4. \A l1 \in Loops, k1 \in Nat, x \in Streams : Has(l1, k1, x)' => x <= accepted'
    BY <1>1, <1>2 DEF Places
  <2>5. \A l1 \in Loops, m \in Message :
          In(l1, m)' /\ Arriving(m) => m.stream <= accepted' /\ m.stream \notin established'
    BY <1>1 DEF Places
  <2>6. \A x \in established' : x <= accepted'
    BY <1>1 DEF Places
  <2> QED  BY <1>1, <2>1, <2>2, <2>3, <2>4, <2>5, <2>6 DEF Places
<1>8. Leaves'
  <2> SUFFICES ASSUME NEW l2 \in Loops, NEW m \in Message, In(l2, m)', m.kind = "removed"
               PROVE  Leaving(l2, m)'
    BY DEF Leaves
  <2>1. m.stream \in Streams /\ Leaving(l2, m)
    BY <1>1, MessageCases DEF Leaves
  <2>2. PICK k2 \in Nat : /\ Has(l2, k2, m.stream) /\ m.token = Token(l2, k2)
                          /\ m.stream \in established
                          /\ m.stream \in registered /\ phase[l2] = "io" => m.stream \in reported[l2]
    BY <2>1 DEF Leaving
  <2>3. Has(l2, k2, m.stream)' /\ m.token = Token(l2, k2)' /\ m.stream \in established'
    BY <1>2, <2>1, <2>2 DEF Token
  <2>4. m.stream \in registered' /\ phase'[l2] = "io" => m.stream \in reported'[l2]
    <3>1. m.stream # s
      BY <1>1, <2>2
    <3>2. phase'[l2] = "io" => phase[l2] = "io"
      BY <1>3
    <3> QED  BY <1>1, <2>2, <3>1, <3>2
  <2> QED  BY <2>3, <2>4 DEF Leaving
<1>9. RoleKept'
  BY <1>1, MessageTypes DEF RoleKept
<1> QED  BY <1>1, <1>2, <1>5, <1>6, <1>7, <1>8, <1>9 DEF v

LEMMA AddConnectionKeeps ==
  ASSUME Inv, NEW l \in Loops, NEW s, Arrives(l, s), AddConnection(l, s)
  PROVE  Inv'
<1> USE DEF Inv
<1>1. /\ Insert(l, VacantKey(l), s) /\ Dispatch(l, Token(l, VacantKey(l)))
      /\ established' = established \cup {s} /\ pending' = pending
      /\ registered \subseteq registered' /\ registered' \subseteq registered \cup {s}
      /\ reading' \subseteq registered'
      /\ registered \subseteq reading => registered' \subseteq reading'
  BY DEF AddConnection, ioVars, Types
<1>2. pending' \in [Loops -> SUBSET Nat]
  BY <1>1 DEF Types
<1>3. /\ Types' /\ Slabs' /\ Regs' /\ Places' /\ Leaves' /\ RoleKept'
      /\ VacantKey(l) \in Nat /\ s \in Streams /\ s \notin established
      /\ \A l1 \in Loops, k \in Nat : ~Has(l1, k, s)
      /\ \A l2 \in Loops, k \in Nat, x \in Streams :
           Has(l2, k, x)' <=> Has(l2, k, x) \/ (l2 = l /\ k = VacantKey(l) /\ x = s)
  BY <1>1, <1>2, ArrivalKeeps
<1>4. Pendings'
  <2>1. \A l2, k : Token(l2, k)' = Token(l2, k)
    BY DEF Token
  <2>2. \A l2 \in Loops, k \in Nat, x \in Streams :
          Has(l2, k, x)' /\ x \notin established' <=> Has(l2, k, x) /\ x \notin established
    BY <1>1, <1>3
  <2> QED  BY <1>1, <2>1, <2>2 DEF Pendings
<1> QED  BY <1>3, <1>4

LEMMA AddConnectingKeeps ==
  ASSUME Inv, NEW l \in Loops, NEW s, Arrives(l, s), AddConnecting(l, s), role # "server"
  PROVE  Inv'
<1> USE DEF Inv
<1> DEFINE v == VacantKey(l)
<1>1. /\ Insert(l, v, s) /\ Dispatch(l, Token(l, v))
      /\ established' = established
      /\ pending' = [pending EXCEPT ![l] = @ \cup {Token(l, v)}]
      /\ registered \subseteq registered' /\ registered' \subseteq registered \cup {s}
      /\ reading' \subseteq registered'
  BY DEF AddConnecting, Types
<1>2. v \in Nat
  BY <1>1, ArrivesEffect, InsertEffect
<1>3. pending' \in [Loops -> SUBSET Nat]
  <2>1. Token(l, v) \in Nat
    BY <1>2, TokenType
  <2> HIDE DEF v
  <2> QED  BY <1>1, <2>1 DEF Types
<1>4. /\ Types' /\ Slabs' /\ Regs' /\ Places' /\ Leaves' /\ RoleKept'
      /\ s \in Streams /\ s \notin established
      /\ \A l1 \in Loops, k \in Nat : ~Has(l1, k, s)
      /\ \A l2 \in Loops, k \in Nat, x \in Streams :
           Has(l2, k, x)' <=> Has(l2, k, x) \/ (l2 = l /\ k = v /\ x = s)
  BY <1>1, <1>3, ArrivalKeeps
<1> HIDE DEF v
<1>5. Pendings'
  <2> SUFFICES ASSUME NEW l2 \in Loops, NEW t \in Nat
               PROVE  t \in pending'[l2] <=>
                        \E k2 \in Nat, x \in Streams :
                          Has(l2, k2, x)' /\ t = Token(l2, k2)' /\ x \notin established'
    BY DEF Pendings
  <2>1. \A k2 : Token(l2, k2)' = Token(l2, k2)
    BY DEF Token
  <2>2. t \in pending'[l2] <=> t \in pending[l2] \/ (l2 = l /\ t = Token(l, v))
    BY <1>1 DEF Types
  <2>3. t \in pending[l2] <=>
          \E k2 \in Nat, x \in Streams : Has(l2, k2, x) /\ t = Token(l2, k2) /\ x \notin established
    BY DEF Pendings
  <2> QED  BY <1>1, <1>2, <1>4, <2>1, <2>2, <2>3
<1> QED  BY <1>4, <1>5

LEMMA RejectKeeps ==
  ASSUME Inv, NEW l \in Loops, NEW s, Arrives(l, s), RejectFails(l) \/ DropsFailed(s)
  PROVE  Inv'
<1> USE DEF Inv
<1>1. /\ UNCHANGED <<role, asks, accepted, acceptor, letters, connected, failed, requests, reported>>
      /\ channel' \in [Loops -> Seq(Message)]
      /\ \A l2 \in Loops, m \in Message : In(l2, m)' => In(l2, m)
      /\ \A l2 \in Loops : Unique(channel'[l2])
  BY ArrivesEffect
<1>2. UNCHANGED <<slab, free, capacity, reading, registered, pending, established, shared, poisoned>>
  BY DEF RejectFails, DropsFailed, slabVars, ioVars, setupVars, sharedVars
<1>3. /\ phase' \in [Loops -> {"io", "drain", "dead", "no peer"}]
      /\ \A l2 \in Loops : phase'[l2] = "io" => phase[l2] = "io"
  BY DEF RejectFails, DropsFailed, Dies, Types
<1>4. Types'
  BY <1>1, <1>2, <1>3 DEF Types
<1>5. Slabs' /\ Regs'
  BY <1>2, SlabsSame, RegsStay
<1>6. Places'
  BY <1>1, <1>2, PlacesStay, HasSame
<1>7. Leaves' /\ Pendings'
  BY <1>1, <1>2, <1>3, LeavesStay, PendingsStay, HasSame
<1>8. RoleKept'
  BY <1>1, <1>2, RoleStays
<1> QED  BY <1>4, <1>5, <1>6, <1>7, <1>8

----------------------------------------------------------------------------
(* The invariant *)

\* The actions of a step, with what their guards say of the key or the stream.
LEMMA NextCases ==
  ASSUME Inv, Next
  PROVE  \/ Accept \/ Connect \/ DeadLetter \/ \E s \in Streams : PeerDecides(s)
         \/ Shutdown
         \/ \E l \in Loops :
              \/ \E t \in Nat : Request(l, t)
              \/ \E k \in Nat, s \in Streams : PendingReady(l, k, s)
              \/ \E k \in Nat, s \in Streams : StreamEnds(l, k, s)
              \/ EventsDone(l)
              \/ \E s : Arrives(l, s) /\ AddConnection(l, s)
              \/ \E s : Arrives(l, s) /\ AddConnecting(l, s) /\ role # "server"
              \/ \E s : Arrives(l, s) /\ RejectFails(l)
              \/ \E s : Arrives(l, s) /\ DropsFailed(s)
              \/ HandleRemoved(l) \/ HandleEnable(l) \/ HandleStop(l) \/ DrainEmpty(l)
<1> USE DEF Inv
<1>1. ASSUME NEW l \in Loops, NEW k \in 0 .. Len(slab[l]) - 1, Request(l, Token(l, k))
      PROVE  \E t \in Nat : Request(l, t)
  <2>1. slab[l] \in Seq(Entry)
    BY DEF Types
  <2>2. k \in Nat
    BY <2>1, LenProperties
  <2> QED  BY <1>1, <2>2, TokenType
<1>2. ASSUME NEW l \in Loops, IoEvent(l)
      PROVE  \/ \E k \in Nat, s \in Streams : PendingReady(l, k, s)
             \/ \E k \in Nat, s \in Streams : StreamEnds(l, k, s)
  <2>1. PICK k \in 0 .. Len(slab[l]) - 1 :
          PendingReady(l, k, slab[l][k + 1]) \/ StreamEnds(l, k, slab[l][k + 1])
    BY <1>2 DEF IoEvent
  <2>2. Has(l, k, slab[l][k + 1])
    BY <2>1 DEF PendingReady, StreamEnds, Ready, Has
  <2>3. k \in Nat /\ slab[l][k + 1] \in Streams
    BY <2>2, HasTypes
  <2> QED  BY <2>1, <2>3
<1>3. ASSUME NEW l \in Loops, HandleEstablished(l)
      PROVE  \/ \E s : Arrives(l, s) /\ AddConnection(l, s)
             \/ \E s : Arrives(l, s) /\ RejectFails(l)
  BY <1>3 DEF HandleEstablished, Arrives
<1>4. ASSUME NEW l \in Loops, HandleConnecting(l)
      PROVE  \/ \E s : Arrives(l, s) /\ AddConnection(l, s)
             \/ \E s : Arrives(l, s) /\ AddConnecting(l, s) /\ role # "server"
             \/ \E s : Arrives(l, s) /\ RejectFails(l)
             \/ \E s : Arrives(l, s) /\ DropsFailed(s)
  <2>1. Arrives(l, Head(channel[l]).stream)
    BY <1>4 DEF HandleConnecting, Arrives
  <2>2. In(l, Head(channel[l])) /\ Head(channel[l]) \in Message /\ Head(channel[l]).kind = "connecting"
    BY <1>4, TakesEffect DEF HandleConnecting
  <2>3. role # "server"
    BY <2>2 DEF RoleKept
  <2> QED  BY <1>4, <2>1, <2>3 DEF HandleConnecting
<1>5. Accept \/ Connect \/ DeadLetter \/ (\E s \in Streams : PeerDecides(s)) \/ Shutdown
        \/ \E l \in Loops : \/ \E k \in 0 .. Len(slab[l]) - 1 : Request(l, Token(l, k))
                            \/ IoEvent(l) \/ LoopStep(l)
  BY DEF Next, PeerDecides
<1> QED  BY <1>1, <1>2, <1>3, <1>4, <1>5 DEF LoopStep

LEMMA InitInv == Init => Inv
<1> SUFFICES ASSUME Init  PROVE Inv
  OBVIOUS
<1>1. \A l \in Loops : channel[l] = <<>> /\ slab[l] = <<>> /\ free[l] = <<>> /\ pending[l] = {}
  BY DEF Init
<1>2. /\ \A l \in Loops : \A m : ~In(l, m)
      /\ \A l \in Loops : \A k, s : ~Has(l, k, s)
  <2>1. \A k \in 0 .. Len(<<>>) - 1 : FALSE
    OBVIOUS
  <2>2. \A i \in 1 .. Len(<<>>) : FALSE
    OBVIOUS
  <2> QED  BY <1>1, <2>1, <2>2 DEF In, Msgs, Has, Keys
<1>3. Types
  <2>1. DOMAIN shared = {} /\ IsFiniteSet(DOMAIN shared)
    BY FS_EmptySet DEF Init
  <2>2. /\ accepted \in 0 .. MaxStreams /\ letters \in 0 .. MaxLetters /\ requests \in 0 .. MaxRequests
    BY ConstantTypes DEF Init
  <2>3. <<>> \in Seq(Message) /\ <<>> \in Seq(Entry) /\ <<>> \in Seq(Nat)
    OBVIOUS
  <2>4. Cap \in Nat
    BY ConstantTypes
  <2> QED  BY <2>1, <2>2, <2>3, <2>4 DEF Init, Types
<1>4. Slabs
  <2>1. Len(<<>>) = 0
    OBVIOUS
  <2> QED  BY <1>1, <2>1 DEF Slabs, Vacancies
<1>5. Regs /\ Leaves /\ RoleKept /\ Pendings
  BY <1>1, <1>2 DEF Init, Regs, Leaves, RoleKept, Pendings
<1>6. Places
  <2>1. \A l \in Loops : Unique(channel[l])
    BY <1>1 DEF Unique
  <2> QED  BY <1>2, <2>1 DEF Init, Places
<1> QED  BY <1>3, <1>4, <1>5, <1>6 DEF Inv

LEMMA StepInv == Inv /\ [Next]_vars => Inv'
<1> SUFFICES ASSUME Inv, [Next]_vars  PROVE Inv'
  OBVIOUS
<1>1. CASE Next
  BY <1>1, NextCases, OutsideKeeps, ShutdownKeeps, RequestKeeps, EventsDoneKeeps, DrainEmptyKeeps,
     HandOverKeeps, PendingReadyKeeps, StreamEndsKeeps, HandleEnableKeeps, HandleStopKeeps,
     HandleRemovedKeeps, AddConnectionKeeps, AddConnectingKeeps, RejectKeeps
<1>2. CASE UNCHANGED vars
  <2> USE DEF Inv
  <2>1. /\ UNCHANGED <<role, asks, accepted, acceptor, letters, connected, failed, requests, channel, phase>>
        /\ UNCHANGED <<reported, slab, free, capacity, reading, registered, pending, established>>
        /\ UNCHANGED <<shared, poisoned>>
    BY <1>2 DEF vars, acceptVars, loopVars, slabVars, ioVars, setupVars, sharedVars
  <2>2. Types'
    BY <2>1 DEF Types
  <2>3. Slabs' /\ Regs'
    BY <2>1, SlabsSame, RegsStay
  <2>4. Places'
    BY <2>1, PlacesStay, HasSame, InSame, UniqueSame
  <2>5. Leaves' /\ Pendings' /\ RoleKept'
    BY <2>1, LeavesStay, PendingsStay, RoleStays, HasSame, InSame
  <2> QED  BY <2>2, <2>3, <2>4, <2>5
<1> QED  BY <1>1, <1>2

THEOREM Invariant == Spec => []Inv
<1> QED  BY InitInv, StepInv, PTL DEF Spec

\* Variables hold what they should.
THEOREM TypeCorrect == Spec => []TypeOK
<1>1. Inv => TypeOK
  <2> SUFFICES ASSUME Inv  PROVE TypeOK
    OBVIOUS
  <2> USE DEF Inv
  <2>1. registered \subseteq UNION {Connections(l) : l \in Loops}
    <3>1. ASSUME NEW s \in registered  PROVE \E l \in Loops : s \in Connections(l)
      BY DEF Regs, Has, Connections
    <3> QED  BY <3>1
  <2> QED  BY <2>1 DEF Types, TypeOK, Message, Entry
<1> QED  BY <1>1, Invariant, PTL

\* The callbacks in pendings are those of the connections not set up yet.
THEOREM PendingsKept == Spec => []PendingAgrees
<1>1. Inv => PendingAgrees
  <2> SUFFICES ASSUME Inv, NEW l \in Loops
               PROVE  pending[l] = {Token(l, k) : k \in {j \in Keys(l) : slab[l][j + 1] \notin established}}
    BY DEF PendingAgrees
  <2> USE DEF Inv
  <2>1. ASSUME NEW t \in pending[l]
        PROVE  \E k \in Keys(l) : slab[l][k + 1] \notin established /\ t = Token(l, k)
    <3>1. t \in Nat
      BY DEF Types
    <3> QED  BY <3>1 DEF Pendings, Has
  <2>2. ASSUME NEW k \in Keys(l), slab[l][k + 1] \notin established
        PROVE  Token(l, k) \in pending[l]
    <3>1. Has(l, k, slab[l][k + 1])
      BY DEF Has
    <3>2. k \in Nat /\ slab[l][k + 1] \in Streams /\ Token(l, k) \in Nat
      BY <3>1, HasTypes, TokenType
    <3> QED  BY <2>2, <3>1, <3>2 DEF Pendings
  <2> QED  BY <2>1, <2>2
<1> QED  BY <1>1, Invariant, PTL

\* A Removed removes the connection of its own stream, even where tokens are
\* used again and even in a slab that has outgrown its tokens.
THEOREM OwnRemoved == Spec => RemovesItsOwn
<1>1. ASSUME Inv, NEW l \in Loops, HandleRemoved(l)
      PROVE  /\ Head(channel[l]).token - l * Cap \in Keys(l)
             /\ slab[l][Head(channel[l]).token - l * Cap + 1] = Head(channel[l]).stream
  <2> DEFINE h == Head(channel[l])
  <2>1. h \in Message /\ In(l, h) /\ h.kind = "removed"
    BY <1>1, TakesEffect DEF HandleRemoved
  <2>2. PICK k \in Nat : Has(l, k, h.stream) /\ h.token = Token(l, k)
    BY <1>1, <2>1 DEF Inv, Leaves, Leaving
  <2>3. h.token - l * Cap = k
    BY <2>2, TokenType
  <2> QED  BY <2>2, <2>3 DEF Has
<1>2. Inv => [\A l \in Loops : HandleRemoved(l) =>
                LET msg == Head(channel[l])
                IN  msg.token - l * Cap \in Keys(l)
                    /\ slab[l][msg.token - l * Cap + 1] = msg.stream]_vars
  BY <1>1
<1> QED  BY <1>2, Invariant, PTL DEF RemovesItsOwn

----------------------------------------------------------------------------
(* Loops with room for all of their connections *)

Limits ==
  /\ \A l \in Loops : Cardinality(Open(l)) <= MaxOpen
  /\ \A l \in Loops : Len(slab[l]) <= Cap /\ Cap <= capacity[l]

\* SharedAgrees, entry by entry, and for loops that are no more as well.
Sharing ==
  /\ ~poisoned
  /\ \A l \in Loops, t \in DOMAIN shared :
       shared[t] = l => \E k \in Nat, s \in Streams : Has(l, k, s) /\ t = Token(l, k)
  /\ \A l \in Loops, k \in Nat, s \in Streams :
       Has(l, k, s) => Token(l, k) \in DOMAIN shared /\ shared[Token(l, k)] = l

Strong == Inv /\ Limits /\ Sharing /\ EndsOnlyWithoutPeer

OpenMeaning ==
  \A l \in Loops : \A x :
    x \in Open(l) <=>
      /\ x \in Streams
      /\ \/ \E k \in Nat : Has(l, k, x)
         \/ \E m \in Message : In(l, m) /\ Arriving(m) /\ m.stream = x

LEMMA OpenMembers == Types => OpenMeaning
<1> SUFFICES ASSUME Types, NEW l \in Loops, NEW x
             PROVE  x \in Open(l) <=>
                      /\ x \in Streams
                      /\ \/ \E k \in Nat : Has(l, k, x)
                         \/ \E m \in Message : In(l, m) /\ Arriving(m) /\ m.stream = x
  BY DEF OpenMeaning
<1>1. x \in Connections(l) <=> x \in Streams /\ \E k \in Nat : Has(l, k, x)
  BY HasTypes DEF Connections, Has
<1>2. ASSUME x \in Streams
      PROVE  Queued(l, x) <=> \E m \in Message : In(l, m) /\ Arriving(m) /\ m.stream = x
  <2>1. DOMAIN channel[l] = 1 .. Len(channel[l])
    BY LenProperties DEF Types
  <2>2. Queued(l, x) <=> \E m \in Msgs(channel[l]) : m \in {Established(x), Connecting(x)}
    BY <2>1 DEF Queued, Msgs
  <2>3. \A m \in Message : m \in {Established(x), Connecting(x)} <=> Arriving(m) /\ m.stream = x
    BY <1>2, MessageTypes, MessageCases DEF Arriving
  <2> QED  BY <2>2, <2>3, InTypes DEF In
<1> QED  BY <1>1, <1>2 DEF Open

LEMMA OpenFinite ==
  ASSUME Types, NEW l \in Loops
  PROVE  IsFiniteSet(Open(l)) /\ Cardinality(Open(l)) \in Nat
<1>1. IsFiniteSet(Streams)
  BY ConstantTypes, FS_Interval DEF Streams
<1>2. Open(l) \subseteq Streams
  BY OpenMembers DEF OpenMeaning
<1> QED  BY <1>1, <1>2, FS_Subset, FS_CardinalityType

OpenCounts == \A l \in Loops : Cardinality(Open(l)) \in Nat

LEMMA OpenNat == Types => OpenCounts
  BY OpenFinite DEF OpenCounts

LEMMA OpenShrinks ==
  ASSUME Types, Types', NEW l \in Loops,
         \A k \in Nat, x \in Streams :
           Has(l, k, x)' => Has(l, k, x) \/ \E m \in Message : In(l, m) /\ Arriving(m) /\ m.stream = x,
         \A m \in Message : In(l, m)' /\ Arriving(m) => In(l, m)
  PROVE  Cardinality(Open(l)') <= Cardinality(Open(l))
<1>1. OpenMeaning'
  BY OpenMembers, PTL
<1>2. Open(l)' \subseteq Open(l)
  BY <1>1, OpenMembers DEF OpenMeaning
<1> QED  BY <1>2, OpenFinite, FS_Subset

\* Keys stay below the offset of the next loop, so tokens do not clash.
LEMMA KeyLimit ==
  ASSUME Types, Limits, NEW l \in Loops, NEW k, NEW s, Has(l, k, s)
  PROVE  k \in 0 .. Cap - 1
<1>1. k \in Nat /\ k \in 0 .. Len(slab[l]) - 1 /\ Len(slab[l]) <= Cap
  BY HasTypes DEF Limits
<1>2. Len(slab[l]) \in Nat
  BY LenProperties DEF Types
<1> QED  BY <1>1, <1>2, ConstantTypes

\* A loop to which a stream is on its way has fewer connections than MaxOpen.
LEMMA KeysFewer ==
  ASSUME Inv, Limits, NEW l \in Loops, NEW s \in Open(l), \A k \in Nat : ~Has(l, k, s)
  PROVE  Cardinality(Keys(l)) \in Nat /\ Cardinality(Keys(l)) < MaxOpen
<1> USE DEF Inv
<1> DEFINE T == Open(l) \ {s}
           g == [k \in Keys(l) |-> slab[l][k + 1]]
<1>1. IsFiniteSet(Open(l)) /\ Cardinality(Open(l)) \in Nat /\ Cardinality(Open(l)) <= MaxOpen
  BY OpenFinite DEF Limits
<1>2. IsFiniteSet(T) /\ Cardinality(T) = Cardinality(Open(l)) - 1
  BY <1>1, FS_RemoveElement
<1>3. \A k \in Keys(l) : Has(l, k, g[k]) /\ k \in Nat /\ g[k] \in Streams
  <2>1. \A k \in Keys(l) : Has(l, k, g[k])
    BY DEF Has
  <2> QED  BY <2>1, HasTypes
<1>4. g \in [Keys(l) -> T]
  <2>1. \A k \in Keys(l) : g[k] \in T
    BY <1>3, OpenMembers DEF OpenMeaning
  <2> QED  BY <2>1
<1>5. \A a, b \in Keys(l) : g[a] = g[b] => a = b
  BY <1>3 DEF Places
<1> HIDE DEF g, T
<1>6. g \in Injection(Keys(l), T)
  BY <1>4, <1>5, Fun_IsInj
<1>7. IsFiniteSet(Keys(l)) /\ Cardinality(Keys(l)) <= Cardinality(T)
  BY <1>2, <1>6, FS_Injection
<1>8. Cardinality(Keys(l)) \in Nat
  BY <1>7, FS_CardinalityType
<1> QED  BY <1>1, <1>2, <1>7, <1>8, ConstantTypes

LEMMA InsertLimits ==
  ASSUME Inv, Limits, MaxOpen <= Cap, NEW l \in Loops, NEW s \in Open(l),
         \A k \in Nat : ~Has(l, k, s), Insert(l, VacantKey(l), s)
  PROVE  /\ VacantKey(l) \in 0 .. Cap - 1
         /\ \A l2 \in Loops : Len(slab'[l2]) <= Cap /\ Cap <= capacity'[l2]
<1> USE DEF Inv
<1>1. s \in Streams
  BY OpenMembers DEF OpenMeaning
<1>2. /\ slab[l] \in Seq(Entry) /\ Len(slab[l]) \in Nat /\ Len(slab[l]) <= Cap
      /\ free[l] \in Seq(Nat) /\ capacity[l] \in Nat /\ Cap <= capacity[l]
      /\ Vacancies(slab[l], free[l])
  BY LenProperties DEF Types, Limits, Slabs
<1>3. Cap \in Nat /\ MaxOpen \in Nat
  BY ConstantTypes
<1>4. \A l2 \in Loops : l2 # l => slab'[l2] = slab[l2] /\ capacity'[l2] = capacity[l2]
  BY DEF Insert, Types
<1>5. VacantKey(l) \in 0 .. Cap - 1 /\ Len(slab'[l]) \in Nat /\ Len(slab'[l]) <= Cap
  <2>1. CASE free[l] = <<>>
    <3>1. Keys(l) = 0 .. Len(slab[l]) - 1
      BY <1>1, <1>2, <2>1, InsertAtEnd DEF Keys, KeysOf
    <3>2. Cardinality(0 .. Len(slab[l]) - 1) = Len(slab[l])
      BY SMTT(30), <1>2, FS_Interval
    <3>3. Cardinality(Keys(l)) < MaxOpen
      BY KeysFewer
    <3>4. Len(slab[l]) < Cap
      BY <1>2, <1>3, <3>1, <3>2, <3>3
    <3>5. VacantKey(l) = Len(slab[l])
      BY <2>1 DEF VacantKey
    <3>6. slab'[l] = Append(slab[l], s)
      BY <3>5 DEF Insert, Types
    <3>7. Len(slab'[l]) = Len(slab[l]) + 1
      BY <1>1, <1>2, <2>1, <3>6, InsertAtEnd
    <3> QED  BY <1>2, <1>3, <3>4, <3>5, <3>7
  <2>2. CASE free[l] # <<>>
    <3>1. VacantKey(l) = Head(free[l])
      BY <2>2 DEF VacantKey
    <3>2. Head(free[l]) \in 0 .. Len(slab[l]) - 1
      BY <1>1, <1>2, <2>2, InsertAtHead
    <3>3. VacantKey(l) # Len(slab[l])
      BY <1>2, <3>1, <3>2
    <3>4. slab'[l] = [slab[l] EXCEPT ![VacantKey(l) + 1] = s]
      BY <3>3 DEF Insert, Types
    <3>5. Len(slab'[l]) = Len(slab[l])
      BY <1>1, <1>2, <2>2, <3>1, <3>4, InsertAtHead
    <3> QED  BY <1>2, <1>3, <3>1, <3>2, <3>5
  <2> QED  BY <2>1, <2>2
<1>6. Cap <= capacity'[l]
  <2>1. ~(Len(slab'[l]) > capacity[l])
    BY <1>2, <1>3, <1>5
  <2>2. capacity'[l] = capacity[l]
    BY <2>1 DEF Insert, Types
  <2> QED  BY <1>2, <2>2
<1> QED  BY <1>4, <1>5, <1>6 DEF Limits

\* Steps in which no connection comes or goes, and no loop of a server ends.
LEMMA QuietKeeps ==
  ASSUME Strong, Inv', slab' = slab, capacity' = capacity, shared' = shared, poisoned' = poisoned,
         role' = role,
         \A l \in Loops, m \in Message : In(l, m)' /\ Arriving(m) => In(l, m),
         role = "server" => \A l \in Loops : phase'[l] = "dead" => phase[l] = "dead"
  PROVE  Strong'
<1> USE DEF Inv
<1>1. Limits'
  <2>1. ASSUME NEW l \in Loops  PROVE Cardinality(Open(l)') <= MaxOpen
    <3>1. Cardinality(Open(l)') <= Cardinality(Open(l))
      BY HasSame, OpenShrinks DEF Strong
    <3>2. Cardinality(Open(l)) <= MaxOpen /\ Cardinality(Open(l)) \in Nat
      BY OpenFinite DEF Strong, Limits
    <3>3. Cardinality(Open(l)') \in Nat
      <4>1. Types'
        OBVIOUS
      <4>2. OpenCounts'
        BY <4>1, OpenNat, PTL
      <4> QED  BY <4>2 DEF OpenCounts
    <3> QED  BY <3>1, <3>2, <3>3, ConstantTypes
  <2> QED  BY <2>1 DEF Strong, Limits
<1>2. Sharing'
  BY HasSame DEF Strong, Sharing, Token
<1>3. EndsOnlyWithoutPeer'
  BY DEF Strong, EndsOnlyWithoutPeer
<1> QED  BY <1>1, <1>2, <1>3 DEF Strong

LEMMA EnableKills ==
  ASSUME Inv, role = "server", NEW l \in Loops, NEW s, EnableIo(l, s)
  PROVE  phase' = phase
  BY DEF Inv, RoleKept, EnableIo

LEMMA QuietSteps ==
  ASSUME Strong, Inv',
         \/ DeadLetter \/ (\E s \in Streams : PeerDecides(s)) \/ Shutdown
         \/ \E l \in Loops :
              \/ \E t \in Nat : Request(l, t)
              \/ \E k \in Nat, s \in Streams : PendingReady(l, k, s)
              \/ \E k \in Nat, s \in Streams : StreamEnds(l, k, s)
              \/ EventsDone(l) \/ HandleEnable(l) \/ HandleStop(l) \/ DrainEmpty(l)
         \/ UNCHANGED vars
  PROVE  Strong'
<1> USE DEF Inv
<1>0. Inv
  BY DEF Strong
<1>1. UNCHANGED <<slab, capacity, shared, poisoned, role>>
  <2>1. CASE DeadLetter \/ (\E s \in Streams : PeerDecides(s)) \/ Shutdown \/ UNCHANGED vars
    BY <2>1 DEF DeadLetter, PeerDecides, PeerConnects, PeerFails, Shutdown, vars, acceptVars, slabVars, sharedVars
  <2>2. CASE \E l \in Loops : (\E t \in Nat : Request(l, t)) \/ EventsDone(l) \/ DrainEmpty(l)
    BY <2>2 DEF Request, EventsDone, DrainEmpty, acceptVars, slabVars, sharedVars
  <2>3. CASE \E l \in Loops, k \in Nat, s \in Streams : PendingReady(l, k, s) \/ StreamEnds(l, k, s)
    BY <2>3 DEF PendingReady, StreamEnds, Ready, acceptVars, slabVars, sharedVars
  <2>4. CASE \E l \in Loops : HandleEnable(l) \/ HandleStop(l)
    BY <2>4 DEF HandleEnable, HandleStop, Taken, acceptVars, slabVars, sharedVars
  <2> QED  BY <2>1, <2>2, <2>3, <2>4
<1>2. ASSUME NEW l \in Loops, HandleEnable(l) \/ HandleStop(l)
      PROVE  /\ \A l2 \in Loops, m \in Message : In(l2, m)' => In(l2, m)
             /\ role = "server" => \A l2 \in Loops : phase'[l2] = "dead" => phase[l2] = "dead"
  <2>1. \A l2 \in Loops, m \in Message : In(l2, m)' => In(l2, m)
    BY <1>0, <1>2, TakesEffect DEF HandleEnable, HandleStop
  <2>2. CASE HandleEnable(l)
    BY <1>0, <2>1, <2>2, EnableKills DEF HandleEnable, ioVars
  <2>3. CASE HandleStop(l)
    BY <2>1, <2>3 DEF HandleStop, Types, Strong
  <2> QED  BY <1>2, <2>2, <2>3
<1>3. \A l \in Loops, m \in Message : In(l, m)' /\ Arriving(m) => In(l, m)
  <2>1. CASE DeadLetter \/ (\E s \in Streams : PeerDecides(s)) \/ UNCHANGED vars
    <3>1. channel' = channel
      BY <2>1 DEF DeadLetter, PeerDecides, PeerConnects, PeerFails, loopVars, vars
    <3> QED  BY <3>1, InSame
  <2>2. CASE Shutdown
    <3>1. CASE channel' = channel
      BY <3>1, InSame
    <3>2. CASE channel' = Stops
      <4> SUFFICES ASSUME NEW l \in Loops, NEW m \in Message, In(l, m)', Arriving(m)
                   PROVE  In(l, m)
        OBVIOUS
      <4> DEFINE n == Cardinality({t \in DOMAIN shared : shared[t] = l})
      <4>1. n \in Nat
        <5>1. IsFiniteSet({t \in DOMAIN shared : shared[t] = l})
          BY <1>0, FS_Subset DEF Types
        <5> QED  BY <5>1, FS_CardinalityType
      <4>2. channel'[l] = channel[l] \o [i \in 1 .. n |-> Stop]
        BY <3>2 DEF Stops
      <4>3. channel[l] \in Seq(Message)
        BY <1>0 DEF Types
      <4> HIDE DEF n
      <4>4. \A x \in Msgs(channel'[l]) : x \in Msgs(channel[l]) \/ x = Stop
        BY <4>1, <4>2, <4>3, MsgsStops
      <4> QED  BY <4>4, MessageTypes DEF In, Arriving
    <3> QED  BY <2>2, <3>1, <3>2 DEF Shutdown
  <2>3. ASSUME NEW l \in Loops, NEW msg \in Message, Send(l, msg), ~Arriving(msg)
        PROVE  \A l2 \in Loops, m \in Message : In(l2, m)' /\ Arriving(m) => In(l2, m)
    BY <1>0, <2>3, SendEffect
  <2>4. CASE \E l \in Loops, t \in Nat : Request(l, t)
    BY <2>3, <2>4, MessageTypes DEF Request, Arriving
  <2>5. CASE \E l \in Loops, k \in Nat, s \in Streams : StreamEnds(l, k, s)
    BY <2>3, <2>5, MessageTypes, TokenType DEF StreamEnds, Arriving
  <2>6. CASE \E l \in Loops : \/ \E k \in Nat, s \in Streams : PendingReady(l, k, s)
                              \/ EventsDone(l) \/ DrainEmpty(l)
    <3>1. channel' = channel
      BY <2>6 DEF PendingReady, EventsDone, DrainEmpty
    <3> QED  BY <3>1, InSame
  <2>7. CASE \E l \in Loops : HandleEnable(l) \/ HandleStop(l)
    BY <1>2, <2>7
  <2> QED  BY <2>1, <2>2, <2>4, <2>5, <2>6, <2>7
<1>4. role = "server" => \A l \in Loops : phase'[l] = "dead" => phase[l] = "dead"
  <2>1. CASE DeadLetter \/ (\E s \in Streams : PeerDecides(s)) \/ UNCHANGED vars \/ Shutdown
    BY <2>1 DEF DeadLetter, PeerDecides, PeerConnects, PeerFails, Shutdown, loopVars, vars
  <2>2. CASE \E l \in Loops, t \in Nat : Request(l, t)
    BY <2>2 DEF Request
  <2>3. CASE \E l \in Loops, k \in Nat, s \in Streams : StreamEnds(l, k, s)
    BY <2>3 DEF StreamEnds
  <2>4. CASE \E l \in Loops, k \in Nat, s \in Streams : PendingReady(l, k, s)
    BY <1>0, <2>4, EnableKills DEF PendingReady
  <2>5. CASE \E l \in Loops : EventsDone(l) \/ DrainEmpty(l)
    BY <1>0, <2>5 DEF EventsDone, DrainEmpty, Types
  <2>6. CASE \E l \in Loops : HandleEnable(l) \/ HandleStop(l)
    BY <1>2, <2>6
  <2> QED  BY <2>1, <2>2, <2>3, <2>4, <2>5, <2>6
<1> QED  BY <1>1, <1>3, <1>4, QuietKeeps

LEMMA ArrivalStrong ==
  ASSUME Strong, Inv', MaxOpen <= Cap, NEW l \in Loops, NEW s, Arrives(l, s),
         Insert(l, VacantKey(l), s), Dispatch(l, Token(l, VacantKey(l)))
  PROVE  Strong' /\ Token(l, VacantKey(l)) \notin DOMAIN shared /\ VacantKey(l) \in 0 .. Cap - 1
<1> USE DEF Inv
<1> DEFINE v == VacantKey(l)
           token == Token(l, v)
<1>1. /\ Inv /\ Limits /\ Sharing /\ EndsOnlyWithoutPeer
  BY DEF Strong
<1>2. /\ role' = role /\ s \in Streams
      /\ \E h \in Message : In(l, h) /\ Arriving(h) /\ h.stream = s
      /\ \A l1 \in Loops, k \in Nat : ~Has(l1, k, s)
      /\ \A l2 \in Loops, m \in Message : In(l2, m)' => In(l2, m)
  BY <1>1, ArrivesEffect
<1>3. s \in Open(l)
  BY <1>1, <1>2, OpenMembers DEF OpenMeaning
<1>4. /\ v \in 0 .. Cap - 1
      /\ \A l2 \in Loops : Len(slab'[l2]) <= Cap /\ Cap <= capacity'[l2]
  BY <1>1, <1>2, <1>3, InsertLimits
<1>5. /\ v \in Nat /\ v \notin Keys(l)
      /\ \A l2 \in Loops, k \in Nat, x \in Streams :
           Has(l2, k, x)' <=> Has(l2, k, x) \/ (l2 = l /\ k = v /\ x = s)
  BY <1>1, <1>2, InsertEffect
<1>6. \A l2 \in Loops, k \in Nat, x \in Streams : Has(l2, k, x) => Token(l2, k) # token
  <2> SUFFICES ASSUME NEW l2 \in Loops, NEW k \in Nat, NEW x \in Streams, Has(l2, k, x),
                      Token(l2, k) = token
               PROVE  FALSE
    OBVIOUS
  <2>1. k \in 0 .. Cap - 1
    BY <1>1, KeyLimit
  <2>2. l2 = l /\ k = v
    BY <1>4, <2>1, TokenUnique
  <2> QED  BY <1>5, <2>2 DEF Has
<1> HIDE DEF v
<1>7. token \notin DOMAIN shared
  <2>1. ASSUME token \in DOMAIN shared  PROVE FALSE
    <3>1. shared[token] \in Loops
      BY <1>1, <2>1 DEF Types
    <3>2. PICK k \in Nat, x \in Streams : Has(shared[token], k, x) /\ token = Token(shared[token], k)
      BY <1>1, <2>1, <3>1 DEF Sharing
    <3> QED  BY <1>6, <3>1, <3>2
  <2> QED  BY <2>1
<1>8. /\ shared' = [t \in DOMAIN shared \cup {token} |-> IF t = token THEN l ELSE shared[t]]
      /\ phase' = phase /\ poisoned' = poisoned
  BY <1>1, <1>7 DEF Dispatch, Sharing, v
<1> HIDE DEF token
<1>9. Limits'
  <2>1. ASSUME NEW l2 \in Loops  PROVE Cardinality(Open(l2)') <= MaxOpen
    <3>1. Cardinality(Open(l2)') <= Cardinality(Open(l2))
      BY <1>1, <1>2, <1>5, OpenShrinks
    <3>2. Cardinality(Open(l2)) <= MaxOpen /\ Cardinality(Open(l2)) \in Nat
      BY <1>1, OpenFinite DEF Limits
    <3>3. Cardinality(Open(l2)') \in Nat
      <4>1. Types'
        OBVIOUS
      <4>2. OpenCounts'
        BY <4>1, OpenNat, PTL
      <4> QED  BY <4>2 DEF OpenCounts
    <3> QED  BY <3>1, <3>2, <3>3, ConstantTypes
  <2> QED  BY <1>4, <2>1 DEF Limits
<1>10. Sharing'
  <2>1. \A l2 \in Loops, t \in DOMAIN shared' :
          shared'[t] = l2 => \E k \in Nat, x \in Streams : Has(l2, k, x)' /\ t = Token(l2, k)
    <3> SUFFICES ASSUME NEW l2 \in Loops, NEW t \in DOMAIN shared', shared'[t] = l2
                 PROVE  \E k \in Nat, x \in Streams : Has(l2, k, x)' /\ t = Token(l2, k)
      OBVIOUS
    <3>1. CASE t = token
      <4>1. l2 = l /\ t = Token(l, v)
        BY <1>8, <3>1 DEF token
      <4>2. PICK k \in Nat : k = v
        BY <1>5
      <4>3. Has(l, k, s)'
        BY <1>2, <1>5, <4>2
      <4> QED  BY <1>2, <4>1, <4>2, <4>3
    <3>2. CASE t # token
      <4>1. t \in DOMAIN shared /\ shared[t] = l2
        BY <1>8, <3>2
      <4>2. PICK k \in Nat, x \in Streams : Has(l2, k, x) /\ t = Token(l2, k)
        BY <1>1, <4>1 DEF Sharing
      <4> QED  BY <1>5, <4>2
    <3> QED  BY <3>1, <3>2
  <2>2. \A l2 \in Loops, k \in Nat, x \in Streams :
          Has(l2, k, x)' => Token(l2, k) \in DOMAIN shared' /\ shared'[Token(l2, k)] = l2
    <3> SUFFICES ASSUME NEW l2 \in Loops, NEW k \in Nat, NEW x \in Streams, Has(l2, k, x)'
                 PROVE  Token(l2, k) \in DOMAIN shared' /\ shared'[Token(l2, k)] = l2
      OBVIOUS
    <3>1. CASE Has(l2, k, x)
      <4>1. Token(l2, k) # token
        BY <1>6, <3>1 DEF token
      <4>2. Token(l2, k) \in DOMAIN shared /\ shared[Token(l2, k)] = l2
        BY <1>1, <3>1 DEF Sharing
      <4> QED  BY <1>8, <4>1, <4>2
    <3>2. CASE l2 = l /\ k = v
      BY <1>8, <3>2 DEF token
    <3> QED  BY <1>5, <3>1, <3>2
  <2>3. \A l2, k : Token(l2, k)' = Token(l2, k)
    BY DEF Token
  <2>4. ~poisoned'
    BY <1>1, <1>8 DEF Sharing
  <2> QED  BY <2>1, <2>2, <2>3, <2>4 DEF Sharing, Token
<1>11. EndsOnlyWithoutPeer'
  BY <1>1, <1>2, <1>8 DEF EndsOnlyWithoutPeer
<1> QED  BY <1>4, <1>7, <1>9, <1>10, <1>11 DEF Strong, token, v

\* A stream that is dropped changes nothing but the channel it was in.
LEMMA DropStrong ==
  ASSUME Strong, Inv', NEW l \in Loops, NEW s, Arrives(l, s), DropsFailed(s)
  PROVE  Strong'
<1>1. /\ role' = role
      /\ \A l2 \in Loops, m \in Message : In(l2, m)' => In(l2, m)
  BY ArrivesEffect DEF Strong
<1>2. UNCHANGED <<phase, slab, capacity, shared, poisoned>>
  BY DEF DropsFailed, slabVars, sharedVars
<1> QED  BY <1>1, <1>2, QuietKeeps

\* A slab of a loop that is to get a stream is never full.
LEMMA NoReject ==
  ASSUME Strong, MaxOpen <= Cap, NEW l \in Loops, NEW s, Arrives(l, s), RejectFails(l)
  PROVE  FALSE
<1> USE DEF Inv
<1>1. Inv /\ Limits
  BY DEF Strong
<1>2. /\ s \in Open(l) /\ \A k \in Nat : ~Has(l, k, s)
  BY <1>1, ArrivesEffect, OpenMembers DEF OpenMeaning
<1>3. Cardinality(Keys(l)) \in Nat /\ Cardinality(Keys(l)) < MaxOpen
  BY <1>1, <1>2, KeysFewer
<1>4. Cardinality(Keys(l)) = capacity[l] /\ Cap <= capacity[l]
  BY <1>1 DEF RejectFails, Limits
<1> QED  BY <1>3, <1>4, ConstantTypes

LEMMA HandOverStrong ==
  ASSUME Strong, Inv', Accept \/ Connect
  PROVE  Strong'
<1> USE DEF Inv
<1>1. Inv /\ Limits /\ Sharing /\ EndsOnlyWithoutPeer
  BY DEF Strong
<1> DEFINE s == accepted + 1
           l == NextLoop
<1>2. /\ UNCHANGED <<role, phase, slab, capacity, shared, poisoned>>
      /\ Cardinality(Open(l)) < MaxOpen /\ accepted < MaxStreams
  BY DEF Accept, Connect, HandOver, slabVars, sharedVars
<1>3. s \in Streams /\ l \in Loops
  <2>1. accepted \in 0 .. MaxStreams
    BY <1>1 DEF Types
  <2>2. accepted \in Nat /\ s \in Streams
    BY <1>2, <2>1, ConstantTypes DEF Streams
  <2>3. l \in 0 .. PoolSize - 1
    BY <2>2, ConstantTypes DEF NextLoop
  <2> QED  BY <2>2, <2>3 DEF Loops
<1>4. \E msg \in {Established(s), Connecting(s)} : Send(l, msg) \/ channel' = channel
  BY DEF Accept, Connect, HandOver
<1> HIDE DEF s, l
<1>5. \A l2 \in Loops, m \in Message : In(l2, m)' => In(l2, m) \/ (l2 = l /\ (Arriving(m) => m.stream = s))
  <2>1. PICK msg \in {Established(s), Connecting(s)} : Send(l, msg) \/ channel' = channel
    BY <1>4
  <2>2. msg \in Message /\ msg.stream = s
    BY <1>3, <2>1, MessageTypes
  <2>3. CASE Send(l, msg)
    BY <1>1, <1>3, <2>2, <2>3, SendEffect
  <2>4. CASE channel' = channel
    BY <2>4, InSame
  <2> QED  BY <2>1, <2>3, <2>4
<1>6. Limits'
  <2>0. OpenMeaning /\ OpenMeaning' /\ OpenCounts'
    <3>1. Types /\ Types'
      BY <1>1
    <3> QED  BY <3>1, OpenMembers, OpenNat, PTL
  <2>1. ASSUME NEW l2 \in Loops  PROVE Cardinality(Open(l2)') <= MaxOpen
    <3>1. IsFiniteSet(Open(l2)) /\ Cardinality(Open(l2)) \in Nat /\ Cardinality(Open(l2)) <= MaxOpen
      BY <1>1, OpenFinite DEF Limits
    <3>2. Cardinality(Open(l2)') \in Nat
      BY <2>0 DEF OpenCounts
    <3>3. CASE l2 # l
      <4>1. Open(l2)' \subseteq Open(l2)
        BY <1>2, <1>5, <2>0, <3>3, HasSame DEF OpenMeaning
      <4>2. Cardinality(Open(l2)') <= Cardinality(Open(l2))
        BY <3>1, <4>1, FS_Subset
      <4> QED  BY <3>1, <3>2, <4>2, ConstantTypes
    <3>4. CASE l2 = l
      <4>1. Open(l2)' \subseteq Open(l2) \cup {s}
        BY <1>2, <1>5, <2>0, HasSame DEF OpenMeaning
      <4>2. /\ IsFiniteSet(Open(l2) \cup {s})
            /\ Cardinality(Open(l2) \cup {s}) \in {Cardinality(Open(l2)), Cardinality(Open(l2)) + 1}
        BY <3>1, FS_AddElement
      <4>3. Cardinality(Open(l2)') <= Cardinality(Open(l2) \cup {s})
        BY <4>1, <4>2, FS_Subset
      <4>4. Cardinality(Open(l2)) < MaxOpen
        BY <1>2, <3>4
      <4> QED  BY <3>1, <3>2, <4>2, <4>3, <4>4, ConstantTypes
    <3> QED  BY <3>3, <3>4
  <2> QED  BY <1>1, <1>2, <2>1 DEF Limits
<1>7. Sharing'
  BY <1>1, <1>2, HasSame DEF Sharing, Token
<1>8. EndsOnlyWithoutPeer'
  BY <1>1, <1>2 DEF EndsOnlyWithoutPeer
<1> QED  BY <1>6, <1>7, <1>8 DEF Strong

LEMMA RemovedStrong ==
  ASSUME Strong, Inv', NEW l \in Loops, HandleRemoved(l)
  PROVE  Strong'
<1> USE DEF Inv
<1>1. Inv /\ Limits /\ Sharing /\ EndsOnlyWithoutPeer
  BY DEF Strong
<1> DEFINE h == Head(channel[l])
           s == h.stream
           key == h.token - l * Cap
<1>2. /\ role' = role /\ h \in Message /\ In(l, h) /\ h.kind = "removed"
      /\ \A l2 \in Loops, m \in Message : In(l2, m)' => In(l2, m)
  BY <1>1, TakesEffect DEF HandleRemoved, StreamKinds
<1>3. key \in Nat /\ h.token = Token(l, key) /\ Has(l, key, s)
  <2>1. PICK k \in Nat : Has(l, k, s) /\ h.token = Token(l, k)
    BY <1>1, <1>2 DEF Leaves, Leaving
  <2>2. key = k
    BY <2>1, TokenType
  <2> QED  BY <2>1, <2>2
<1>4. /\ capacity' = capacity
      /\ slab' = [slab EXCEPT ![l][key + 1] = None]
      /\ free' = [free EXCEPT ![l] = <<key>> \o @]
      /\ Forget(l, h.token)
  BY <1>3 DEF HandleRemoved, Has
<1> DEFINE token == h.token
<1> HIDE DEF h, s, key
<1>5. \A l2 \in Loops, k \in Nat, x \in Streams :
        Has(l2, k, x)' <=> Has(l2, k, x) /\ ~(l2 = l /\ k = key)
  BY <1>1, <1>3, <1>4, RemoveEffect
<1>6. /\ shared' = [t \in DOMAIN shared \ {token} |-> shared[t]]
      /\ LogsPeer(l) /\ poisoned' = poisoned
  BY <1>1, <1>4 DEF Forget, Sharing
<1> HIDE DEF token
<1>7. token = Token(l, key)
  BY <1>3 DEF token
<1>8. Limits'
  <2>1. ASSUME NEW l2 \in Loops
        PROVE  Cardinality(Open(l2)') <= MaxOpen /\ Len(slab'[l2]) = Len(slab[l2])
    <3>1. Cardinality(Open(l2)') <= Cardinality(Open(l2))
      BY <1>1, <1>2, <1>5, OpenShrinks
    <3>2. Cardinality(Open(l2)) <= MaxOpen /\ Cardinality(Open(l2)) \in Nat
      BY <1>1, OpenFinite DEF Limits
    <3>3. Cardinality(Open(l2)') \in Nat
      <4>1. Types'
        OBVIOUS
      <4>2. OpenCounts'
        BY <4>1, OpenNat, PTL
      <4> QED  BY <4>2 DEF OpenCounts
    <3>4. Len(slab'[l2]) = Len(slab[l2])
      <4>1. slab[l] \in Seq(Entry) /\ free[l] \in Seq(Nat) /\ Vacancies(slab[l], free[l])
        BY <1>1 DEF Types, Slabs
      <4>2. key \in KeysOf(slab[l])
        BY <1>3 DEF Has, Keys, KeysOf
      <4>3. Len([slab[l] EXCEPT ![key + 1] = None]) = Len(slab[l])
        BY <4>1, <4>2, RemoveKey
      <4> QED  BY <1>1, <1>4, <4>3 DEF Types
    <3> QED  BY <3>1, <3>2, <3>3, <3>4, ConstantTypes
  <2> QED  BY <1>1, <1>4, <2>1 DEF Limits
<1>9. Sharing'
  <2>1. ASSUME NEW l2 \in Loops, NEW t \in DOMAIN shared', shared'[t] = l2
        PROVE  \E k \in Nat, x \in Streams : Has(l2, k, x)' /\ t = Token(l2, k)
    <3>1. shared[t] = l2 /\ t \in DOMAIN shared /\ t # token
      BY <1>6, <2>1
    <3>2. PICK k \in Nat, x \in Streams : Has(l2, k, x) /\ t = Token(l2, k)
      BY <1>1, <3>1 DEF Sharing
    <3>3. Has(l2, k, x)'
      BY <1>5, <1>7, <3>1, <3>2
    <3> QED  BY <3>2, <3>3
  <2>2. ASSUME NEW l2 \in Loops, NEW k \in Nat, NEW x \in Streams, Has(l2, k, x)'
        PROVE  Token(l2, k) \in DOMAIN shared' /\ shared'[Token(l2, k)] = l2
    <3>1. Has(l2, k, x) /\ ~(l2 = l /\ k = key)
      BY <1>5, <2>2
    <3>2. k \in 0 .. Cap - 1 /\ key \in 0 .. Cap - 1
      BY <1>1, <1>3, <3>1, KeyLimit
    <3>3. Token(l2, k) # token
      BY <1>7, <3>1, <3>2, TokenUnique
    <3>4. Token(l2, k) \in DOMAIN shared /\ shared[Token(l2, k)] = l2
      BY <1>1, <3>1 DEF Sharing
    <3> QED  BY <1>6, <3>3, <3>4
  <2>3. \A l2, k : Token(l2, k)' = Token(l2, k)
    BY DEF Token
  <2>4. ~poisoned'
    BY <1>1, <1>6 DEF Sharing
  <2> QED  BY <2>1, <2>2, <2>3, <2>4 DEF Sharing, Token
<1>10. EndsOnlyWithoutPeer'
  BY <1>1, <1>2, <1>6 DEF EndsOnlyWithoutPeer, LogsPeer, Types
<1> QED  BY <1>8, <1>9, <1>10 DEF Strong

LEMMA InitStrong == Init => Strong
<1> SUFFICES ASSUME Init  PROVE Strong
  OBVIOUS
<1>1. Inv /\ Types
  BY InitInv DEF Inv
<1>2. \A l \in Loops : channel[l] = <<>> /\ slab[l] = <<>> /\ capacity[l] = Cap
  BY DEF Init
<1>3. /\ \A l \in Loops : \A m : ~In(l, m)
      /\ \A l \in Loops : \A k, s : ~Has(l, k, s)
  <2>1. \A k \in 0 .. Len(<<>>) - 1 : FALSE
    OBVIOUS
  <2>2. \A i \in 1 .. Len(<<>>) : FALSE
    OBVIOUS
  <2> QED  BY <1>2, <2>1, <2>2 DEF In, Msgs, Has, Keys
<1>4. Limits
  <2>1. \A l \in Loops : Open(l) = {}
    BY <1>1, <1>3, OpenMembers DEF OpenMeaning
  <2>2. Len(<<>>) = 0
    OBVIOUS
  <2> QED  BY <1>2, <2>1, <2>2, FS_EmptySet, ConstantTypes DEF Limits
<1>5. Sharing /\ EndsOnlyWithoutPeer
  BY <1>3 DEF Init, Sharing, EndsOnlyWithoutPeer
<1> QED  BY <1>1, <1>4, <1>5 DEF Strong

LEMMA StepStrong ==
  ASSUME MaxOpen <= Cap
  PROVE  Strong /\ [Next]_vars => Strong'
<1> SUFFICES ASSUME Strong, [Next]_vars  PROVE Strong'
  OBVIOUS
<1>1. Inv /\ Inv'
  BY StepInv DEF Strong
<1>2. ASSUME NEW l \in Loops, NEW s, Arrives(l, s), AddConnection(l, s) \/ AddConnecting(l, s)
      PROVE  Strong'
  BY <1>1, <1>2, ArrivalStrong DEF AddConnection, AddConnecting
<1>3. CASE Next
  BY <1>1, <1>2, <1>3, NextCases, QuietSteps, HandOverStrong, RemovedStrong, NoReject,
     DropStrong
<1>4. CASE UNCHANGED vars
  BY <1>1, <1>4, QuietSteps
<1> QED  BY <1>3, <1>4

\* With room for all that a loop can have at a time, a loop of a server ends
\* only for want of a peer to log, and the table agrees with the slabs.
THEOREM StrongInvariant == ASSUME MaxOpen <= Cap  PROVE Spec => []Strong
<1> QED  BY InitStrong, StepStrong, PTL DEF Spec

\* A pool that never has more streams in a loop than max_connections_per, which
\* the code does not see to, loses a loop only where remove_connection unwraps
\* the address of a peer that is gone: not to a token in use, a poisoned lock or
\* a vacant key, and not because another loop has ended.
THEOREM LoopsEndOnlyWithoutPeer == ASSUME MaxOpen <= Cap  PROVE Spec => []EndsOnlyWithoutPeer
<1>1. Strong => EndsOnlyWithoutPeer
  BY DEF Strong
<1> QED  BY <1>1, StrongInvariant, PTL

THEOREM SharedKept == ASSUME MaxOpen <= Cap  PROVE Spec => []SharedAgrees
<1>1. Strong => SharedAgrees
  <2> SUFFICES ASSUME Strong, NEW l \in Loops
               PROVE  {t \in DOMAIN shared : shared[t] = l} = Tokens(l)
    BY DEF SharedAgrees
  <2>1. Types /\ Sharing
    BY DEF Strong, Inv
  <2>2. ASSUME NEW t \in DOMAIN shared, shared[t] = l  PROVE t \in Tokens(l)
    BY <2>1, <2>2 DEF Sharing, Tokens, Has
  <2>3. ASSUME NEW k \in Keys(l)
        PROVE  Token(l, k) \in DOMAIN shared /\ shared[Token(l, k)] = l
    <3>1. Has(l, k, slab[l][k + 1])
      BY DEF Has
    <3>2. k \in Nat /\ slab[l][k + 1] \in Streams
      BY <2>1, <3>1, HasTypes
    <3> QED  BY <2>1, <3>1, <3>2 DEF Sharing
  <2> QED  BY <2>2, <2>3 DEF Tokens
<1> QED  BY <1>1, StrongInvariant, PTL

----------------------------------------------------------------------------
(* The pool as one table of streams *)

Known == established \cup UNION {Connections(l) : l \in Loops}

\* The refinement mapping, key by key.
TableMeaning ==
  /\ \A l \in Loops, k \in Nat, s \in Streams, t \in Nat :
       Has(l, k, s) /\ t = Token(l, k) => t \in AllTokens /\ Holder(t) = s
  /\ \A t \in AllTokens : \E l \in Loops, k \in Nat, s \in Streams : Has(l, k, s) /\ t = Token(l, k)
  /\ \A x \in Streams : x \in Known <=> x \in established \/ \E l \in Loops, k \in Nat : Has(l, k, x)
  /\ Known \subseteq Streams

LEMMA TableMapped == Strong => TableMeaning
<1> SUFFICES ASSUME Strong  PROVE TableMeaning
  OBVIOUS
<1>0. Inv /\ Limits /\ Types
  BY DEF Strong, Inv
<1>1. ASSUME NEW l \in Loops, NEW k \in Nat, NEW s \in Streams, Has(l, k, s)
      PROVE  Token(l, k) \in AllTokens /\ Holder(Token(l, k)) = s
  <2>1. \A l2 \in Loops : \A k2 \in Keys(l2) : Token(l, k) = Token(l2, k2) => slab[l2][k2 + 1] = s
    <3> SUFFICES ASSUME NEW l2 \in Loops, NEW k2 \in Keys(l2), Token(l, k) = Token(l2, k2)
                 PROVE  slab[l2][k2 + 1] = s
      OBVIOUS
    <3>1. k \in 0 .. Cap - 1 /\ k2 \in 0 .. Cap - 1
      BY <1>0, <1>1, KeyLimit DEF Has
    <3>2. l2 = l /\ k2 = k
      BY <3>1, TokenUnique
    <3> QED  BY <1>1, <3>2 DEF Has
  <2>2. k \in Keys(l) /\ slab[l][k + 1] = s
    BY <1>1 DEF Has
  <2>3. Token(l, k) \in AllTokens
    BY <2>2 DEF AllTokens, Tokens
  <2> DEFINE Picked(x) == \E l2 \in Loops : \E k2 \in Keys(l2) :
                            Token(l, k) = Token(l2, k2) /\ x = slab[l2][k2 + 1]
  <2>4. Picked(s) /\ \A x \in Streams : Picked(x) => x = s
    BY <2>1, <2>2
  <2>5. Holder(Token(l, k)) = CHOOSE x \in Streams : Picked(x)
    BY DEF Holder
  <2> HIDE DEF Picked
  <2>6. (CHOOSE x \in Streams : Picked(x)) = s
    BY <2>4
  <2> QED  BY <2>3, <2>5, <2>6
<1>2. \A t \in AllTokens : \E l \in Loops, k \in Nat, s \in Streams : Has(l, k, s) /\ t = Token(l, k)
  <2> SUFFICES ASSUME NEW t \in AllTokens
               PROVE  \E l \in Loops, k \in Nat, s \in Streams : Has(l, k, s) /\ t = Token(l, k)
    OBVIOUS
  <2>1. PICK l \in Loops : t \in Tokens(l)
    BY DEF AllTokens
  <2>2. PICK k \in Keys(l) : t = Token(l, k)
    BY <2>1 DEF Tokens
  <2>3. Has(l, k, slab[l][k + 1])
    BY DEF Has
  <2> QED  BY <1>0, <2>2, <2>3, HasTypes
<1>3. ASSUME NEW x  PROVE x \in Known <=> x \in established \/ \E l \in Loops, k \in Nat : Has(l, k, x)
  <2>1. \A l \in Loops : x \in Connections(l) <=> \E k \in Nat : Has(l, k, x)
    BY <1>0, HasTypes DEF Connections, Has
  <2>2. x \in Known <=> x \in established \/ \E l \in Loops : x \in Connections(l)
    BY DEF Known
  <2> QED  BY <2>1, <2>2
<1>4. Known \subseteq Streams
  BY <1>0, <1>3, HasTypes DEF Types
<1> QED  BY <1>1, <1>2, <1>3, <1>4 DEF TableMeaning

LEMMA TableTokens ==
  ASSUME NEW l \in Loops, NEW k \in 0 .. Cap - 1
  PROVE  Token(l, k) \in 0 .. PoolSize * Cap - 1
<1>1. l \in Nat /\ l <= PoolSize - 1 /\ Cap \in Nat /\ PoolSize \in Nat
  BY ConstantTypes, StreamTypes DEF Loops
<1>2. l * Cap + Cap <= PoolSize * Cap
  <2>1. PoolSize - (l + 1) \in Nat /\ PoolSize = (l + 1) + (PoolSize - (l + 1))
    BY <1>1
  <2>2. PoolSize * Cap = (l + 1) * Cap + (PoolSize - (l + 1)) * Cap
    BY <1>1, <2>1
  <2>3. (PoolSize - (l + 1)) * Cap \in Nat /\ (l + 1) * Cap = l * Cap + Cap /\ (l + 1) * Cap \in Nat
    BY <1>1, <2>1
  <2> QED  BY <2>2, <2>3
<1>3. l * Cap \in Nat /\ PoolSize * Cap \in Nat
  BY <1>1
<1> DEFINE a == l * Cap
           b == PoolSize * Cap
<1> HIDE DEF a, b
<1>4. a \in Nat /\ b \in Nat /\ a + Cap <= b => a + k \in 0 .. b - 1
  BY <1>1
<1> QED  BY <1>2, <1>3, <1>4 DEF a, b, Token

\* A connection comes.
LEMMA TableOpens ==
  ASSUME TableMeaning, TableMeaning', NEW l \in Loops, NEW v \in 0 .. Cap - 1, NEW s \in Streams,
         \A l1 \in Loops, k \in Nat : ~Has(l1, k, s),
         \A l2 \in Loops, k \in Nat, x \in Streams :
           Has(l2, k, x)' <=> Has(l2, k, x) \/ (l2 = l /\ k = v /\ x = s),
         Token(l, v) \notin AllTokens, s \notin established,
         established' \in {established, established \cup {s}}
  PROVE  Table!Open(s, Token(l, v))
<1> DEFINE u == Token(l, v)
<1>1. \A l2, k : Token(l2, k)' = Token(l2, k)
  BY DEF Token
<1>2. v \in Nat
  BY ConstantTypes
<1>3. /\ \A l2 \in Loops, k \in Nat, x \in Streams, t \in Nat :
           Has(l2, k, x)' /\ t = Token(l2, k) => t \in AllTokens' /\ Holder(t)' = x
      /\ \A t \in AllTokens' :
           \E l2 \in Loops, k \in Nat, x \in Streams : Has(l2, k, x)' /\ t = Token(l2, k)
      /\ \A x \in Streams : x \in Known' <=> x \in established' \/ \E l2 \in Loops, k \in Nat : Has(l2, k, x)'
  BY <1>1 DEF TableMeaning
<1>4. Has(l, v, s)' /\ u \in Nat
  BY <1>2, TokenType
<1> HIDE DEF u
<1>5. u = Token(l, v)
  BY DEF u
<1>6. s \notin Known /\ u \notin AllTokens
  BY <1>5 DEF TableMeaning
<1>7. Known' = Known \cup {s}
  <2>1. \A x \in Streams : x \in Known' <=> x \in Known \/ x = s
    BY <1>2, <1>3, <1>4 DEF TableMeaning
  <2> QED  BY <2>1 DEF TableMeaning
<1>8. \A t \in AllTokens' : t = u \/ (t \in AllTokens /\ Holder(t)' = Holder(t))
  <2> SUFFICES ASSUME NEW t \in AllTokens', t # u  PROVE t \in AllTokens /\ Holder(t)' = Holder(t)
    OBVIOUS
  <2>1. PICK l2 \in Loops, k \in Nat, x \in Streams : Has(l2, k, x)' /\ t = Token(l2, k)
    BY <1>3
  <2>2. Has(l2, k, x) /\ t \in Nat
    BY <1>5, <2>1, TokenType
  <2> QED  BY <1>3, <2>1, <2>2 DEF TableMeaning
<1>9. \A t \in AllTokens : t \in AllTokens'
  <2> SUFFICES ASSUME NEW t \in AllTokens  PROVE t \in AllTokens'
    OBVIOUS
  <2>1. PICK l2 \in Loops, k \in Nat, x \in Streams : Has(l2, k, x) /\ t = Token(l2, k)
    BY DEF TableMeaning
  <2>2. Has(l2, k, x)' /\ t \in Nat
    BY <2>1, TokenType
  <2> QED  BY <1>3, <2>1, <2>2
<1>10. u \in AllTokens' /\ Holder(u)' = s
  BY <1>3, <1>4, <1>5, <1>2
<1>11. AllTokens' = AllTokens \cup {u}
  BY <1>8, <1>9, <1>10
<1>12. [t \in AllTokens' |-> Holder(t)'] =
         [t \in AllTokens \cup {u} |-> IF t = u THEN s ELSE [w \in AllTokens |-> Holder(w)][t]]
  BY <1>6, <1>8, <1>10, <1>11
<1> QED  BY <1>6, <1>7, <1>12 DEF Table!Open, Known, u

\* A connection goes.
LEMMA TableCloses ==
  ASSUME TableMeaning, TableMeaning', Types, Limits,
         NEW l \in Loops, NEW key \in Nat, NEW s \in Streams,
         Has(l, key, s), s \in established, established' = established,
         \A l2 \in Loops, k \in Nat, x \in Streams :
           Has(l2, k, x)' <=> Has(l2, k, x) /\ ~(l2 = l /\ k = key),
         \A x \in Streams : (\E l2 \in Loops, k \in Nat : Has(l2, k, x)) /\ x # s
                              => \E l2 \in Loops, k \in Nat : Has(l2, k, x)'
  PROVE  Table!Close(Token(l, key))
<1> DEFINE u == Token(l, key)
<1>1. \A l2, k : Token(l2, k)' = Token(l2, k)
  BY DEF Token
<1>2. u \in Nat
  BY TokenType
<1> HIDE DEF u
<1>3. /\ \A l2 \in Loops, k \in Nat, x \in Streams, t \in Nat :
           Has(l2, k, x)' /\ t = Token(l2, k) => t \in AllTokens' /\ Holder(t)' = x
      /\ \A t \in AllTokens' :
           \E l2 \in Loops, k \in Nat, x \in Streams : Has(l2, k, x)' /\ t = Token(l2, k)
      /\ \A x \in Streams : x \in Known' <=> x \in established' \/ \E l2 \in Loops, k \in Nat : Has(l2, k, x)'
  BY <1>1 DEF TableMeaning
<1>4. u = Token(l, key) /\ u \in AllTokens /\ Holder(u) = s
  BY <1>2 DEF u, TableMeaning
<1>5. \A t \in AllTokens' : t \in AllTokens /\ t # u /\ Holder(t)' = Holder(t)
  <2> SUFFICES ASSUME NEW t \in AllTokens'  PROVE t \in AllTokens /\ t # u /\ Holder(t)' = Holder(t)
    OBVIOUS
  <2>1. PICK l2 \in Loops, k \in Nat, x \in Streams : Has(l2, k, x)' /\ t = Token(l2, k)
    BY <1>3
  <2>2. Has(l2, k, x) /\ ~(l2 = l /\ k = key) /\ t \in Nat
    BY <2>1, TokenType
  <2>3. k \in 0 .. Cap - 1 /\ key \in 0 .. Cap - 1
    BY <2>2, KeyLimit
  <2>4. t # u
    BY <1>4, <2>1, <2>2, <2>3, TokenUnique
  <2> QED  BY <1>3, <2>1, <2>2, <2>4 DEF TableMeaning
<1>6. \A t \in AllTokens : t # u => t \in AllTokens'
  <2> SUFFICES ASSUME NEW t \in AllTokens, t # u  PROVE t \in AllTokens'
    OBVIOUS
  <2>1. PICK l2 \in Loops, k \in Nat, x \in Streams : Has(l2, k, x) /\ t = Token(l2, k)
    BY DEF TableMeaning
  <2>2. Has(l2, k, x)' /\ t \in Nat
    BY <1>4, <2>1, TokenType
  <2> QED  BY <1>3, <2>1, <2>2
<1>7. AllTokens' = AllTokens \ {u}
  BY <1>5, <1>6
<1>8. Known' = Known
  <2>1. \A x \in Streams : x \in Known' <=> x \in Known
    BY <1>3 DEF TableMeaning
  <2> QED  BY <2>1 DEF TableMeaning
<1>9. [t \in AllTokens' |-> Holder(t)'] = [t \in AllTokens \ {u} |-> [w \in AllTokens |-> Holder(w)][t]]
  BY <1>5, <1>7
<1> QED  BY <1>4, <1>8, <1>9 DEF Table!Close, Known, u

\* No connection comes or goes; one may be set up.
LEMMA TableStays ==
  ASSUME TableMeaning, TableMeaning',
         \A l \in Loops, k \in Nat, x \in Streams : Has(l, k, x)' <=> Has(l, k, x)
  PROVE  /\ [t \in AllTokens' |-> Holder(t)'] = [t \in AllTokens |-> Holder(t)]
         /\ \A l \in Loops, k \in Nat, x \in Streams :
              Has(l, k, x) /\ established' = established \cup {x} => Known' = Known
         /\ established' = established => Known' = Known
<1>1. \A l2, k : Token(l2, k)' = Token(l2, k)
  BY DEF Token
<1>2. /\ \A l2 \in Loops, k \in Nat, x \in Streams, t \in Nat :
           Has(l2, k, x)' /\ t = Token(l2, k) => t \in AllTokens' /\ Holder(t)' = x
      /\ \A t \in AllTokens' :
           \E l2 \in Loops, k \in Nat, x \in Streams : Has(l2, k, x)' /\ t = Token(l2, k)
      /\ \A x \in Streams : x \in Known' <=> x \in established' \/ \E l2 \in Loops, k \in Nat : Has(l2, k, x)'
      /\ Known' \subseteq Streams
  BY <1>1 DEF TableMeaning
<1>3. \A t \in AllTokens' : t \in AllTokens /\ Holder(t)' = Holder(t)
  <2> SUFFICES ASSUME NEW t \in AllTokens'  PROVE t \in AllTokens /\ Holder(t)' = Holder(t)
    OBVIOUS
  <2>1. PICK l2 \in Loops, k \in Nat, x \in Streams : Has(l2, k, x)' /\ t = Token(l2, k)
    BY <1>2
  <2>2. Has(l2, k, x) /\ t \in Nat
    BY <2>1, TokenType
  <2> QED  BY <1>2, <2>1, <2>2 DEF TableMeaning
<1>4. \A t \in AllTokens : t \in AllTokens'
  <2> SUFFICES ASSUME NEW t \in AllTokens  PROVE t \in AllTokens'
    OBVIOUS
  <2>1. PICK l2 \in Loops, k \in Nat, x \in Streams : Has(l2, k, x) /\ t = Token(l2, k)
    BY DEF TableMeaning
  <2>2. Has(l2, k, x)' /\ t \in Nat
    BY <2>1, TokenType
  <2> QED  BY <1>2, <2>1, <2>2
<1>5. AllTokens' = AllTokens
  BY <1>3, <1>4
<1>6. ASSUME established' = established  PROVE Known' = Known
  <2>1. \A x \in Streams : x \in Known' <=> x \in Known
    BY <1>2, <1>6 DEF TableMeaning
  <2> QED  BY <1>2, <2>1 DEF TableMeaning
<1>7. ASSUME NEW l \in Loops, NEW k \in Nat, NEW s \in Streams, Has(l, k, s),
             established' = established \cup {s}
      PROVE  Known' = Known
  <2>1. \A x \in Streams : x \in Known' <=> x \in Known
    BY <1>2, <1>7 DEF TableMeaning
  <2> QED  BY <1>2, <2>1 DEF TableMeaning
<1> QED  BY <1>3, <1>5, <1>6, <1>7

LEMMA TableStep ==
  ASSUME MaxOpen <= Cap
  PROVE  Strong /\ Strong' /\ TableMeaning /\ TableMeaning' /\ [Next]_vars
           => [Table!Next]_(Table!tableVars)
<1> SUFFICES ASSUME Strong, Strong', TableMeaning, TableMeaning', [Next]_vars
             PROVE  Table!Next \/ UNCHANGED Table!tableVars
  OBVIOUS
<1>0. Inv /\ Inv' /\ Types /\ Limits
  BY DEF Strong, Inv
<1>1. ASSUME slab' = slab, established' = established  PROVE UNCHANGED Table!tableVars
  <2>1. /\ [t \in AllTokens' |-> Holder(t)'] = [t \in AllTokens |-> Holder(t)]
        /\ Known' = Known
    BY <1>1, HasSame, TableStays
  <2> QED  BY <1>1, <2>1 DEF Table!tableVars, Known
<1>2. ASSUME NEW l \in Loops, NEW s, Arrives(l, s), AddConnection(l, s) \/ AddConnecting(l, s)
      PROVE  Table!Next
  <2>1. PICK v : v = VacantKey(l)
    OBVIOUS
  <2>2. Insert(l, VacantKey(l), s) /\ Dispatch(l, Token(l, VacantKey(l)))
    BY <1>2 DEF AddConnection, AddConnecting
  <2>3. v \in 0 .. Cap - 1 /\ v \in Nat
    BY <1>0, <1>2, <2>1, <2>2, ArrivalStrong, ConstantTypes
  <2>4. s \in Streams /\ s \notin established /\ \A l1 \in Loops, k \in Nat : ~Has(l1, k, s)
    BY <1>0, <1>2, ArrivesEffect
  <2>5. /\ v \notin Keys(l)
        /\ \A l2 \in Loops, k \in Nat, x \in Streams :
             Has(l2, k, x)' <=> Has(l2, k, x) \/ (l2 = l /\ k = v /\ x = s)
    BY <1>0, <2>1, <2>2, <2>4, InsertEffect DEF Inv
  <2>6. established' \in {established, established \cup {s}}
    BY <1>2 DEF AddConnection, AddConnecting
  <2>7. Token(l, v) \notin AllTokens
    <3> SUFFICES ASSUME Token(l, v) \in AllTokens  PROVE FALSE
      OBVIOUS
    <3>1. PICK l2 \in Loops, k \in Nat, x \in Streams : Has(l2, k, x) /\ Token(l, v) = Token(l2, k)
      BY DEF TableMeaning
    <3>2. k \in 0 .. Cap - 1
      BY <1>0, <3>1, KeyLimit
    <3>3. l2 = l /\ k = v
      BY <2>3, <3>1, <3>2, TokenUnique
    <3> QED  BY <2>5, <3>1, <3>3 DEF Has
  <2>8. Table!Open(s, Token(l, v))
    BY <2>3, <2>4, <2>5, <2>6, <2>7, TableOpens
  <2>9. Token(l, v) \in 0 .. PoolSize * Cap - 1
    BY <2>3, TableTokens
  <2> QED  BY <2>4, <2>8, <2>9 DEF Table!Next
<1>3. ASSUME NEW l \in Loops, HandleRemoved(l)  PROVE Table!Next
  <2> DEFINE h == Head(channel[l])
             s == h.stream
  <2>1. h \in Message /\ In(l, h) /\ h.kind = "removed"
    BY <1>0, <1>3, TakesEffect DEF HandleRemoved, StreamKinds
  <2>2. s \in Streams
    BY <2>1, MessageCases
  <2>3. PICK k \in Nat : Has(l, k, s) /\ h.token = Token(l, k) /\ s \in established
    BY <1>0, <2>1 DEF Inv, Leaves, Leaving
  <2>4. h.token - l * Cap = k
    BY <2>3, TokenType
  <2>5. /\ slab' = [slab EXCEPT ![l][k + 1] = None]
        /\ free' = [free EXCEPT ![l] = <<k>> \o @]
        /\ established' = established
    BY <1>3, <2>3, <2>4 DEF HandleRemoved, Has, setupVars
  <2>6. PICK x \in Streams : x = s
    BY <2>2
  <2> HIDE DEF h, s
  <2>7. \A l2 \in Loops, k2 \in Nat, y \in Streams :
          Has(l2, k2, y)' <=> Has(l2, k2, y) /\ ~(l2 = l /\ k2 = k)
    BY <1>0, <2>3, <2>5, RemoveEffect DEF Inv
  <2>8. \A y \in Streams : (\E l2 \in Loops, k2 \in Nat : Has(l2, k2, y)) /\ y # x
                             => \E l2 \in Loops, k2 \in Nat : Has(l2, k2, y)'
    BY <2>3, <2>6, <2>7 DEF Has
  <2>9. Table!Close(Token(l, k))
    BY <1>0, <2>3, <2>5, <2>6, <2>7, <2>8, TableCloses
  <2>10. Token(l, k) \in AllTokens
    BY <2>2, <2>3, TokenType DEF TableMeaning
  <2> QED  BY <2>9, <2>10 DEF Table!Next
<1>4. ASSUME NEW l \in Loops, NEW k \in Nat, NEW s \in Streams, PendingReady(l, k, s)
      PROVE  Table!Next
  <2>1. /\ slab' = slab /\ established' = established \cup {s}
        /\ Has(l, k, s) /\ Token(l, k) \in pending[l]
    BY <1>4 DEF PendingReady, Ready, Has, slabVars
  <2>2. Token(l, k) \in Nat /\ \A k2 \in Nat : Token(l, k2) = Token(l, k) => k2 = k
    BY TokenType
  <2>3. s \notin established
    <3>1. PICK k2 \in Nat, x \in Streams :
            Has(l, k2, x) /\ Token(l, k) = Token(l, k2) /\ x \notin established
      BY <1>0, <2>1, <2>2 DEF Inv, Pendings
    <3>2. k2 = k /\ x = s
      BY <2>1, <2>2, <3>1 DEF Has
    <3> QED  BY <3>1, <3>2
  <2>4. /\ [t \in AllTokens' |-> Holder(t)'] = [t \in AllTokens |-> Holder(t)]
        /\ Known' = Known
    BY <2>1, HasSame, TableStays
  <2>5. Token(l, k) \in AllTokens /\ Holder(Token(l, k)) = s
    BY <2>1, <2>2 DEF TableMeaning
  <2>6. Table!SetUp(Token(l, k))
    BY <2>1, <2>3, <2>4, <2>5 DEF Table!SetUp, Known
  <2> QED  BY <2>5, <2>6 DEF Table!Next
<1>5. CASE Next
  <2>1. \/ slab' = slab /\ established' = established
        \/ \E l \in Loops :
             \/ \E k \in Nat, s \in Streams : PendingReady(l, k, s)
             \/ \E s : Arrives(l, s) /\ (AddConnection(l, s) \/ AddConnecting(l, s))
             \/ HandleRemoved(l)
    <3>1. \A l \in Loops : \A s : RejectFails(l) \/ DropsFailed(s)
                                    => slab' = slab /\ established' = established
      BY DEF RejectFails, DropsFailed, slabVars, setupVars
    <3>2. Accept \/ Connect \/ DeadLetter \/ (\E s \in Streams : PeerDecides(s)) \/ Shutdown
            => slab' = slab /\ established' = established
      BY DEF Accept, Connect, HandOver, DeadLetter, PeerDecides, PeerConnects, PeerFails, Shutdown, slabVars, setupVars
    <3>3. ASSUME NEW l \in Loops,
                 \/ \E t \in Nat : Request(l, t)
                 \/ \E k \in Nat, s \in Streams : StreamEnds(l, k, s)
                 \/ EventsDone(l) \/ HandleEnable(l) \/ HandleStop(l) \/ DrainEmpty(l)
          PROVE  slab' = slab /\ established' = established
      BY <3>3 DEF Request, StreamEnds, Ready, EventsDone, HandleEnable, HandleStop, DrainEmpty,
                  slabVars, setupVars
    <3> QED  BY <1>0, <1>5, <3>1, <3>2, <3>3, NextCases
  <2> QED  BY <1>1, <1>2, <1>3, <1>4, <2>1
<1>6. CASE UNCHANGED vars
  BY <1>1, <1>6 DEF vars, slabVars, setupVars
<1> QED  BY <1>5, <1>6

LEMMA TableInit == Init => Table!Init
<1> SUFFICES ASSUME Init  PROVE Table!Init
  OBVIOUS
<1>1. \A l \in Loops : Keys(l) = {}
  <2>1. \A k \in 0 .. Len(<<>>) - 1 : FALSE
    OBVIOUS
  <2> QED  BY <2>1 DEF Init, Keys
<1>2. AllTokens = {} /\ UNION {Connections(l) : l \in Loops} = {}
  BY <1>1 DEF AllTokens, Tokens, Connections
<1> QED  BY <1>2 DEF Init, Table!Init

\* The pool is one table of streams, as StreamTable promises.
THEOREM TableImplemented == ASSUME MaxOpen <= Cap  PROVE Spec => ImplementsTable
<1>1. Init => Table!Init
  BY TableInit
<1>2. Strong /\ Strong' /\ TableMeaning /\ TableMeaning' /\ [Next]_vars => [Table!Next]_(Table!tableVars)
  BY TableStep
<1>3. Strong => TableMeaning
  BY TableMapped
<1> QED  BY <1>1, <1>2, <1>3, StrongInvariant, PTL DEF Spec, ImplementsTable, Table!Spec
----------------------------------------------------------------------------
(* Nothing is left behind *)

\* Stream s is in the loop that was chosen for it, or has been set up, or has
\* failed.
Reached(s) ==
  \/ \E m \in Message : In(Chosen(s), m) /\ Arriving(m) /\ m.stream = s
  \/ \E k \in Nat : Has(Chosen(s), k, s)
  \/ s \in established \cup failed

\* The selector watches s, or its loop will hear of its end.
Watched(s) == s \in registered /\ (s \in established => s \in reading)
Leaver(l, s) == \E m \in Message : In(l, m) /\ m.kind = "removed" /\ m.stream = s

AllReached == \A s \in Streams : s <= accepted /\ Alive(Chosen(s)) => Reached(s)

\* Letters are only sent when the listener has been deregistered.
NoStops == acceptor = "on" => \A l \in Loops : ~In(l, Stop)

AllWatched ==
  asks /\ acceptor = "on" =>
    \A l \in Loops, k \in Nat, s \in Streams :
      Alive(l) /\ Has(l, k, s) => Leaver(l, s) \/ Watched(s)

Placed == AllReached /\ NoStops /\ AllWatched

LEMMA ChosenLoop ==
  /\ \A s \in Streams : Chosen(s) \in Loops
  /\ accepted \in Nat => Chosen(accepted + 1) = NextLoop
<1>1. ASSUME NEW s \in Streams  PROVE Chosen(s) \in Loops
  <2>1. s - 1 \in Nat
    BY ConstantTypes DEF Streams
  <2> QED  BY <2>1, ConstantTypes DEF Chosen, Loops
<1>2. ASSUME accepted \in Nat  PROVE Chosen(accepted + 1) = NextLoop
  <2>1. (accepted + 1) - 1 = accepted
    BY <1>2
  <2> QED  BY <2>1 DEF Chosen, NextLoop
<1> QED  BY <1>1, <1>2

\* No step brings a loop back.
LEMMA AliveBefore == ASSUME Inv, Next  PROVE \A l \in Loops : Alive(l)' => Alive(l)
<1>0. phase \in [Loops -> {"io", "drain", "dead", "no peer"}]
  BY DEF Inv, Types
<1>1. CASE Accept \/ Connect \/ DeadLetter \/ (\E s \in Streams : PeerDecides(s)) \/ Shutdown
  BY <1>1 DEF Accept, Connect, HandOver, DeadLetter, PeerDecides, PeerConnects, PeerFails, Shutdown, loopVars, Alive
<1>2. CASE \E l \in Loops : \/ \E t \in Nat : Request(l, t)
                            \/ \E k \in Nat, s \in Streams : StreamEnds(l, k, s)
  BY <1>2 DEF Request, StreamEnds, Alive
<1>3. ASSUME NEW l \in Loops, Dies(l) \/ LogsPeer(l) \/ phase' = phase
      PROVE  \A l2 \in Loops : Alive(l2)' => Alive(l2)
  BY <1>0, <1>3 DEF Dies, LogsPeer, Alive
<1>4. CASE \E l \in Loops, k \in Nat, s \in Streams : PendingReady(l, k, s)
  BY <1>3, <1>4 DEF PendingReady, EnableIo
<1>5. CASE \E l \in Loops : EventsDone(l) \/ HandleStop(l) \/ DrainEmpty(l)
  BY <1>0, <1>5 DEF EventsDone, HandleStop, Takes, DrainEmpty, Alive
<1>6. CASE \E l \in Loops : \E s : \/ AddConnection(l, s) \/ AddConnecting(l, s)
                                     \/ RejectFails(l) \/ DropsFailed(s)
  BY <1>3, <1>6 DEF AddConnection, AddConnecting, RejectFails, DropsFailed, Dispatch
<1>7. CASE \E l \in Loops : HandleRemoved(l) \/ HandleEnable(l)
  BY <1>3, <1>7 DEF HandleRemoved, HandleEnable, Forget, EnableIo
<1> QED  BY <1>1, <1>2, <1>4, <1>5, <1>6, <1>7, NextCases

\* What stays placed: streams on their way and connections, as long as no
\* message of theirs is taken, and their registrations.
LEMMA PlacedStays ==
  ASSUME Placed, asks' = asks,
         \A l \in Loops : Alive(l)' => Alive(l),
         acceptor' = "on" => acceptor = "on" /\ \A l \in Loops : In(l, Stop)' => In(l, Stop),
         \A s \in Streams : s <= accepted' /\ Alive(Chosen(s))' => s <= accepted \/ Reached(s)',
         \A s \in Streams : Alive(Chosen(s))' /\ Reached(s) => Reached(s)',
         asks /\ acceptor' = "on" =>
           \A l \in Loops, k \in Nat, s \in Streams :
             Alive(l)' /\ Has(l, k, s)' =>
               \/ Leaver(l, s)' \/ Watched(s)'
               \/ /\ Has(l, k, s)
                  /\ Leaver(l, s) => Leaver(l, s)'
                  /\ Watched(s) => Watched(s)'
  PROVE  Placed'
<1>1. AllReached'
  BY ChosenLoop DEF Placed, AllReached, Chosen
<1>2. NoStops'
  BY DEF Placed, NoStops
<1>3. AllWatched'
  BY DEF Placed, AllWatched
<1> QED  BY <1>1, <1>2, <1>3 DEF Placed

\* Reached, from what happens to channels and slabs.
LEMMA ReachedStays ==
  ASSUME NEW s \in Streams, Reached(s), established \subseteq established', failed \subseteq failed',
         \A m \in Message : In(Chosen(s), m) /\ Arriving(m) /\ m.stream = s =>
                              s \in failed \/ In(Chosen(s), m)' \/ \E k \in Nat : Has(Chosen(s), k, s)',
         \A k \in Nat : Has(Chosen(s), k, s) => Has(Chosen(s), k, s)' \/ s \in established
  PROVE  Reached(s)'
<1>1. Chosen(s)' = Chosen(s)
  BY DEF Chosen
<1>2. CASE \E m \in Message : In(Chosen(s), m) /\ Arriving(m) /\ m.stream = s
  <2>1. PICK m \in Message : In(Chosen(s), m) /\ Arriving(m) /\ m.stream = s
    BY <1>2
  <2> QED  BY <1>1, <2>1 DEF Reached
<1>3. CASE \E k \in Nat : Has(Chosen(s), k, s)
  BY <1>1, <1>3 DEF Reached
<1> QED  BY <1>2, <1>3 DEF Reached

\* No connection comes, goes, ends or is set up.
LEMMA PlacedGrows ==
  ASSUME Placed, asks' = asks, slab' = slab, failed \subseteq failed',
         registered' = registered, reading' = reading, established' = established,
         \A l \in Loops : Alive(l)' => Alive(l),
         acceptor' = "on" => acceptor = "on" /\ \A l \in Loops : In(l, Stop)' => In(l, Stop),
         \A l \in Loops, m \in Message :
           Alive(l)' /\ In(l, m) /\ m.kind \in StreamKinds => In(l, m)',
         \A s \in Streams : s <= accepted' /\ Alive(Chosen(s))' => s <= accepted \/ Reached(s)'
  PROVE  Placed'
<1>1. \A l, k, s : Has(l, k, s)' <=> Has(l, k, s)
  BY HasSame
<1>2. ASSUME NEW s \in Streams, Alive(Chosen(s))', Reached(s)  PROVE Reached(s)'
  <2>1. Chosen(s) \in Loops
    BY ChosenLoop
  <2>2. \A m \in Message : In(Chosen(s), m) /\ Arriving(m) => In(Chosen(s), m)'
    BY <1>2, <2>1 DEF Arriving, StreamKinds, Chosen
  <2> QED  BY <1>1, <1>2, <2>2, ReachedStays
<1>3. ASSUME NEW l \in Loops, NEW k \in Nat, NEW s \in Streams, Alive(l)', Has(l, k, s)'
      PROVE  /\ Has(l, k, s)
             /\ Leaver(l, s) => Leaver(l, s)'
             /\ Watched(s) => Watched(s)'
  BY <1>1, <1>3 DEF Leaver, Watched, StreamKinds
<1> QED  BY <1>2, <1>3, PlacedStays

LEMMA OutsidePlaced ==
  ASSUME Inv, Placed, \A l \in Loops : Alive(l)' => Alive(l),
         \/ DeadLetter \/ \E s \in Streams : PeerDecides(s)
         \/ \E l \in Loops : EventsDone(l) \/ DrainEmpty(l)
         \/ UNCHANGED vars
  PROVE  Placed'
<1>1. /\ UNCHANGED <<asks, accepted, acceptor, channel, slab, registered, reading, established>>
      /\ failed \subseteq failed'
  BY DEF DeadLetter, PeerDecides, PeerConnects, PeerFails, EventsDone, DrainEmpty, vars, acceptVars, loopVars, slabVars,
         ioVars, setupVars
<1> QED  BY <1>1, InSame, PlacedGrows

LEMMA ShutdownPlaced ==
  ASSUME Inv, Placed, \A l \in Loops : Alive(l)' => Alive(l), Shutdown
  PROVE  Placed'
<1> USE DEF Inv
<1>1. /\ UNCHANGED <<asks, accepted, failed, slab, registered, reading, established>>
      /\ acceptor' # "on"
  BY DEF Shutdown, slabVars, ioVars, setupVars
<1>2. \A l \in Loops, m \in Message : In(l, m) => In(l, m)'
  <2>1. CASE channel' = channel
    BY <2>1, InSame
  <2>2. CASE channel' = Stops
    <3> SUFFICES ASSUME NEW l \in Loops, NEW m \in Message, In(l, m)  PROVE In(l, m)'
      OBVIOUS
    <3> DEFINE n == Cardinality({t \in DOMAIN shared : shared[t] = l})
    <3>1. n \in Nat
      <4>1. IsFiniteSet({t \in DOMAIN shared : shared[t] = l})
        BY FS_Subset DEF Types
      <4> QED  BY <4>1, FS_CardinalityType
    <3>2. channel'[l] = channel[l] \o [i \in 1 .. n |-> Stop]
      BY <2>2 DEF Stops
    <3>3. channel[l] \in Seq(Message)
      BY DEF Types
    <3> HIDE DEF n
    <3>4. \A x \in Msgs(channel[l]) : x \in Msgs(channel'[l])
      BY <3>1, <3>2, <3>3, MsgsStops
    <3> QED  BY <3>4 DEF In
  <2> QED  BY <2>1, <2>2 DEF Shutdown
<1> QED  BY <1>1, <1>2, PlacedGrows

LEMMA RequestPlaced ==
  ASSUME Inv, Placed, \A l \in Loops : Alive(l)' => Alive(l),
         NEW l \in Loops, NEW t \in Nat, Request(l, t)
  PROVE  Placed'
<1>1. UNCHANGED <<asks, accepted, acceptor, failed, slab, registered, reading, established>>
  BY DEF Request, acceptVars, slabVars, ioVars, setupVars
<1>2. \A l2 \in Loops, m \in Message : In(l2, m)' <=> In(l2, m) \/ (l2 = l /\ m = Enable(t))
  BY MessageTypes, SendEffect DEF Request, Inv
<1>3. Stop # Enable(t)
  BY MessageTypes
<1> QED  BY <1>1, <1>2, <1>3, MessageTypes, PlacedGrows

LEMMA HandOverPlaced ==
  ASSUME Inv, Placed, \A l \in Loops : Alive(l)' => Alive(l), Accept \/ Connect
  PROVE  Placed'
<1> USE DEF Inv
<1>1. /\ UNCHANGED <<asks, failed, phase, slab, registered, reading, established>>
      /\ accepted < MaxStreams /\ accepted' = accepted + 1 /\ acceptor = "on"
      /\ \E msg \in {Established(accepted + 1), Connecting(accepted + 1)} :
           IF Alive(NextLoop) THEN Send(NextLoop, msg) ELSE channel' = channel
  BY DEF Accept, Connect, HandOver, slabVars, ioVars, setupVars
<1>2. accepted \in Nat /\ accepted + 1 \in Streams /\ Chosen(accepted + 1) = NextLoop
  <2>1. accepted \in 0 .. MaxStreams
    BY DEF Types
  <2>2. accepted \in Nat /\ accepted + 1 \in Streams
    BY <1>1, <2>1, ConstantTypes DEF Streams
  <2> QED  BY <2>2, ChosenLoop
<1>3. PICK s \in Streams : s = accepted + 1
  BY <1>2
<1>4. PICK l \in Loops : l = Chosen(s)
  BY ChosenLoop
<1>5. PICK msg \in {Established(s), Connecting(s)} :
        IF Alive(l) THEN Send(l, msg) ELSE channel' = channel
  BY <1>1, <1>2, <1>3, <1>4
<1>6. \A x \in Streams : x <= accepted' => x <= accepted \/ x = s
  BY <1>1, <1>2, <1>3, StreamTypes
<1>7. msg \in Message /\ Arriving(msg) /\ msg.stream = s /\ msg # Stop
  BY <1>5, MessageTypes DEF Arriving
<1>8. /\ \A l2 \in Loops, m \in Message : In(l2, m) => In(l2, m)'
      /\ \A l2 \in Loops, m \in Message : In(l2, m)' => In(l2, m) \/ m = msg
      /\ Alive(l) => In(l, msg)'
  <2>1. CASE Alive(l)
    <3>1. Send(l, msg) /\ Types
      BY <1>5, <2>1
    <3>2. \A l2 \in Loops, m \in Message : In(l2, m)' <=> In(l2, m) \/ (l2 = l /\ m = msg)
      BY <1>7, <3>1, SendEffect
    <3> QED  BY <1>7, <3>2
  <2>2. CASE ~Alive(l)
    BY <1>5, <2>2, InSame
  <2> QED  BY <2>1, <2>2
<1>9. Alive(Chosen(s))' => Reached(s)'
  <2>1. Chosen(s)' = l
    BY <1>4 DEF Chosen
  <2>2. Alive(Chosen(s))' => Alive(l)
    BY <1>1, <2>1 DEF Alive
  <2> QED  BY <1>7, <1>8, <2>1, <2>2 DEF Reached
<1>10. \A x \in Streams : x <= accepted' /\ Alive(Chosen(x))' => x <= accepted \/ Reached(x)'
  BY <1>6, <1>9
<1>11. \A l2 \in Loops : In(l2, Stop)' => In(l2, Stop)
  BY <1>7, <1>8, MessageTypes
<1> QED  BY <1>1, <1>8, <1>10, <1>11, PlacedGrows

\* A handler takes nothing but its message.
LEMMA TakesOne ==
  ASSUME Inv, NEW l \in Loops, NEW kind, Takes(l, kind), Taken(l)
  PROVE  \A l2 \in Loops, m \in Message : In(l2, m) => In(l2, m)' \/ (l2 = l /\ m = Head(channel[l]))
<1>1. channel[l] # <<>> /\ channel' = [channel EXCEPT ![l] = Tail(@)]
  BY DEF Takes, Taken
<1> QED  BY <1>1, TakeEffect DEF Inv

LEMMA RejectPlaced ==
  ASSUME Inv, Placed, \A l \in Loops : Alive(l)' => Alive(l),
         NEW l \in Loops, NEW s, Arrives(l, s), RejectFails(l)
  PROVE  Placed'
<1>1. /\ UNCHANGED <<asks, accepted, acceptor, failed, slab, registered, reading, established>>
      /\ ~Alive(l)'
  BY DEF RejectFails, Arrives, Taken, Dies, acceptVars, slabVars, ioVars, setupVars, Alive, Inv, Types
<1>2. \A l2 \in Loops, m \in Message : In(l2, m) => In(l2, m)' \/ l2 = l
  BY TakesOne DEF Arrives
<1>3. \A l2 \in Loops, m \in Message : In(l2, m)' => In(l2, m)
  BY ArrivesEffect
<1> QED  BY <1>1, <1>2, <1>3, MessageTypes, PlacedGrows

\* A stream is dropped only if it has failed.
LEMMA DropPlaced ==
  ASSUME Inv, Placed, \A l \in Loops : Alive(l)' => Alive(l),
         NEW l \in Loops, NEW s, Arrives(l, s), DropsFailed(s)
  PROVE  Placed'
<1> DEFINE h == Head(channel[l])
<1>1. /\ UNCHANGED <<asks, accepted, acceptor, failed>>
      /\ \A l2 \in Loops, m \in Message : In(l2, m)' => In(l2, m)
  BY ArrivesEffect DEF Arrives, Taken, acceptVars
<1>2. UNCHANGED <<slab, registered, reading, established>> /\ s \in failed
  BY DEF DropsFailed, slabVars, ioVars, setupVars
<1>3. /\ \A l2 \in Loops, m \in Message : In(l2, m) => In(l2, m)' \/ m = h
      /\ h.stream = s /\ Arriving(h)
  BY TakesOne DEF Arrives, Takes, Arriving
<1> HIDE DEF h
<1>4. \A l2, k, x : Has(l2, k, x)' <=> Has(l2, k, x)
  BY <1>2, HasSame
<1>5. ASSUME NEW x \in Streams, Reached(x)  PROVE Reached(x)'
  <2>1. \A m \in Message : In(Chosen(x), m) /\ Arriving(m) /\ m.stream = x =>
                             x \in failed \/ In(Chosen(x), m)'
    <3>1. PICK l2 \in Loops : l2 = Chosen(x)
      BY ChosenLoop
    <3> QED  BY <1>2, <1>3, <3>1 DEF Chosen
  <2> QED  BY <1>1, <1>2, <1>4, <1>5, <2>1, ReachedStays
<1>6. AllReached'
  BY <1>1, <1>5, ChosenLoop DEF Placed, AllReached, Chosen
<1>7. NoStops'
  BY <1>1, MessageTypes DEF Placed, NoStops
<1>8. AllWatched'
  <2>1. \A l2 \in Loops, x \in Streams : Leaver(l2, x) => Leaver(l2, x)'
    BY <1>3 DEF Leaver, Arriving
  <2>2. \A x : Watched(x) => Watched(x)'
    BY <1>2 DEF Watched
  <2> QED  BY <1>1, <1>4, <2>1, <2>2 DEF Placed, AllWatched
<1> QED  BY <1>6, <1>7, <1>8 DEF Placed

\* Registrations change, and no connection comes or goes.
LEMMA PlacedWatched ==
  ASSUME Placed, UNCHANGED <<asks, accepted, acceptor, failed, slab>>,
         established \subseteq established',
         \A l \in Loops : Alive(l)' => Alive(l),
         \A l \in Loops : In(l, Stop)' => In(l, Stop),
         \A l \in Loops, m \in Message : In(l, m) /\ m.kind \in StreamKinds => In(l, m)',
         asks => \A l \in Loops, k \in Nat, s \in Streams :
                   Alive(l)' /\ Has(l, k, s) /\ Watched(s) => Watched(s)' \/ Leaver(l, s)'
  PROVE  Placed'
<1>1. \A l, k, s : Has(l, k, s)' <=> Has(l, k, s)
  BY HasSame
<1>2. \A l \in Loops, m \in Message : In(l, m) /\ Arriving(m) => In(l, m)'
  BY DEF Arriving, StreamKinds
<1>3. \A s \in Streams : Reached(s) => Reached(s)'
  BY <1>1, <1>2, ChosenLoop, ReachedStays
<1>4. \A l \in Loops, s \in Streams : Leaver(l, s) => Leaver(l, s)'
  BY DEF Leaver, StreamKinds
<1>5. AllReached'
  BY <1>3, ChosenLoop DEF Placed, AllReached, Chosen
<1>6. NoStops'
  BY DEF Placed, NoStops
<1>7. AllWatched'
  BY <1>1, <1>4 DEF Placed, AllWatched
<1> QED  BY <1>5, <1>6, <1>7 DEF Placed

LEMMA PendingReadyPlaced ==
  ASSUME Inv, Placed, \A l \in Loops : Alive(l)' => Alive(l),
         NEW l \in Loops, NEW k \in Nat, NEW s \in Streams, PendingReady(l, k, s)
  PROVE  Placed'
<1> USE DEF Inv
<1>1. /\ UNCHANGED <<asks, accepted, acceptor, failed, slab, channel>>
      /\ Has(l, k, s) /\ established' = established \cup {s}
  BY DEF PendingReady, Ready, Has, acceptVars, slabVars
<1>2. ASSUME asks, NEW l2 \in Loops, NEW k2 \in Nat, NEW x \in Streams,
             Alive(l2)', Has(l2, k2, x), Watched(x)
      PROVE  Watched(x)'
  <2>1. EnableIo(l, s)
    BY <1>2 DEF PendingReady
  <2>2. CASE s \in registered \ reading
    <3>1. ~Alive(l)' /\ reading' = reading /\ registered' = registered
      BY <2>1, <2>2 DEF EnableIo, Dies, ioVars, Alive, Types
    <3>2. x # s
      BY <1>1, <1>2, <3>1 DEF Places
    <3> QED  BY <1>1, <1>2, <3>1, <3>2 DEF Watched
  <2>3. CASE s \notin registered \ reading
    <3>1. reading' = reading \cup {s} /\ registered' = registered \cup {s}
      BY <2>1, <2>3 DEF EnableIo
    <3> QED  BY <1>1, <1>2, <3>1 DEF Watched
  <2> QED  BY <2>2, <2>3
<1>3. \A l2, m : In(l2, m)' <=> In(l2, m)
  BY <1>1, InSame
<1> QED  BY <1>1, <1>2, <1>3, PlacedWatched

LEMMA StreamEndsPlaced ==
  ASSUME Inv, Placed, \A l \in Loops : Alive(l)' => Alive(l),
         NEW l \in Loops, NEW k \in Nat, NEW s \in Streams, StreamEnds(l, k, s)
  PROVE  Placed'
<1> USE DEF Inv
<1>1. /\ UNCHANGED <<asks, accepted, acceptor, failed, slab, established>>
      /\ Has(l, k, s) /\ DisableIo({s}) /\ Send(l, Removed(Token(l, k), s))
  BY DEF StreamEnds, Ready, Has, acceptVars, slabVars, setupVars
<1> DEFINE msg == Removed(Token(l, k), s)
<1>2. msg \in Message /\ msg.kind = "removed" /\ msg.stream = s
  BY TokenType, MessageTypes
<1>3. PICK letter \in Message : letter = msg
  BY <1>2
<1>4. \A l2 \in Loops, m \in Message : In(l2, m)' <=> In(l2, m) \/ (l2 = l /\ m = letter)
  BY <1>1, <1>3, SendEffect
<1>5. letter.kind = "removed" /\ letter.stream = s /\ letter # Stop
  BY <1>2, <1>3, MessageTypes
<1> HIDE DEF msg
<1>6. Leaver(l, s)'
  BY <1>4, <1>5 DEF Leaver
<1>7. ASSUME NEW l2 \in Loops, NEW k2 \in Nat, NEW x \in Streams, Has(l2, k2, x), Watched(x)
      PROVE  Watched(x)' \/ Leaver(l2, x)'
  <2>1. CASE x = s
    <3>1. l2 = l
      BY <1>1, <1>7, <2>1 DEF Places
    <3> QED  BY <1>6, <2>1, <3>1
  <2>2. CASE x # s
    BY <1>1, <1>7, <2>2 DEF DisableIo, Watched
  <2> QED  BY <2>1, <2>2
<1>8. \A l2 \in Loops : In(l2, Stop)' => In(l2, Stop)
  BY <1>4, <1>5, MessageTypes
<1> QED  BY <1>1, <1>4, <1>7, <1>8, PlacedWatched

LEMMA HandleEnablePlaced ==
  ASSUME Inv, Placed, \A l \in Loops : Alive(l)' => Alive(l), NEW l \in Loops, HandleEnable(l)
  PROVE  Placed'
<1> USE DEF Inv
<1>1. /\ UNCHANGED <<asks, accepted, acceptor, failed>>
      /\ Head(channel[l]).kind = "enable"
      /\ \A l2 \in Loops, m \in Message : In(l2, m)' => In(l2, m)
  BY TakesEffect DEF HandleEnable
<1>2. UNCHANGED <<slab, established>>
  BY DEF HandleEnable, slabVars, setupVars
<1>3. \A l2 \in Loops, m \in Message : In(l2, m) /\ m.kind \in StreamKinds => In(l2, m)'
  <2>1. \A l2 \in Loops, m \in Message : In(l2, m) => In(l2, m)' \/ m = Head(channel[l])
    BY TakesOne DEF HandleEnable
  <2> QED  BY <1>1, <2>1 DEF StreamKinds
<1>4. \A x : Watched(x) => Watched(x)'
  <2>1. reading \subseteq reading' /\ registered \subseteq registered'
    BY DEF HandleEnable, EnableIo, ioVars
  <2> QED  BY <1>2, <2>1 DEF Watched
<1> QED  BY <1>1, <1>2, <1>3, <1>4, MessageTypes, PlacedWatched

LEMMA HandleStopPlaced ==
  ASSUME Inv, Placed, \A l \in Loops : Alive(l)' => Alive(l), NEW l \in Loops, HandleStop(l)
  PROVE  Placed'
<1> USE DEF Inv
<1>1. /\ UNCHANGED <<asks, accepted, acceptor, failed>>
      /\ Head(channel[l]) \in Message /\ In(l, Head(channel[l])) /\ Head(channel[l]).kind = "stop"
  BY TakesEffect DEF HandleStop
<1>2. UNCHANGED <<slab, established>>
  BY DEF HandleStop, slabVars, setupVars
<1>3. acceptor # "on"
  <2>1. In(l, Stop)
    BY <1>1, MessageCases
  <2> QED  BY <2>1 DEF Placed, NoStops
<1>4. \A s \in Streams : Reached(s) => Reached(s)'
  <2>1. \A l2 \in Loops, m \in Message : In(l2, m) => In(l2, m)' \/ m = Head(channel[l])
    BY TakesOne DEF HandleStop
  <2>2. \A l2 \in Loops, m \in Message : In(l2, m) /\ Arriving(m) => In(l2, m)'
    BY <1>1, <2>1 DEF Arriving
  <2> QED  BY <1>1, <1>2, <2>2, HasSame, ChosenLoop, ReachedStays
<1>5. AllReached'
  BY <1>1, <1>4, ChosenLoop DEF Placed, AllReached, Chosen
<1> QED  BY <1>1, <1>3, <1>5 DEF Placed, NoStops, AllWatched

LEMMA HandleRemovedPlaced ==
  ASSUME Inv, Placed, \A l \in Loops : Alive(l)' => Alive(l), NEW l \in Loops, HandleRemoved(l)
  PROVE  Placed'
<1> USE DEF Inv
<1> DEFINE h == Head(channel[l])
<1>1. /\ UNCHANGED <<asks, accepted, acceptor, failed>>
      /\ h \in Message /\ In(l, h) /\ h.kind = "removed"
      /\ \A l2 \in Loops, m \in Message : In(l2, m)' => In(l2, m)
  BY TakesEffect DEF HandleRemoved
<1>2. \A l2 \in Loops, m \in Message : In(l2, m) => In(l2, m)' \/ m = h
  BY TakesOne DEF HandleRemoved
<1>3. PICK s \in Streams : s = h.stream
  BY <1>1, MessageCases
<1>4. PICK k \in Nat : Has(l, k, s) /\ h.token = Token(l, k) /\ s \in established
  BY <1>1, <1>3 DEF Leaves, Leaving
<1>5. h.token - l * Cap = k
  BY <1>4, TokenType
<1>6. /\ slab' = [slab EXCEPT ![l][k + 1] = None]
      /\ free' = [free EXCEPT ![l] = <<k>> \o @]
      /\ reading' = reading \ {s} /\ registered' = registered \ {s}
      /\ established' = established
  BY <1>4, <1>5 DEF HandleRemoved, setupVars, Drop, Has
<1>7. \A l2 \in Loops, k2 \in Nat, x \in Streams :
        Has(l2, k2, x)' <=> Has(l2, k2, x) /\ ~(l2 = l /\ k2 = k)
  BY <1>4, <1>6, RemoveEffect
<1> HIDE DEF h
<1>8. \A l2 \in Loops, k2 \in Nat, x \in Streams : Has(l2, k2, x) => Has(l2, k2, x)' \/ x = s
  BY <1>4, <1>7 DEF Has
<1>9. \A x \in Streams : Reached(x) => Reached(x)'
  <2>1. \A l2 \in Loops, m \in Message : In(l2, m) /\ Arriving(m) => In(l2, m)'
    BY <1>1, <1>2 DEF Arriving
  <2> QED  BY <1>1, <1>4, <1>6, <1>8, <2>1, ChosenLoop, ReachedStays
<1>10. AllReached'
  BY <1>1, <1>9, ChosenLoop DEF Placed, AllReached, Chosen
<1>11. NoStops'
  BY <1>1, MessageTypes DEF Placed, NoStops
<1>12. AllWatched'
  <2> SUFFICES ASSUME asks, acceptor = "on", NEW l2 \in Loops, NEW k2 \in Nat, NEW x \in Streams,
                      Alive(l2)', Has(l2, k2, x)'
               PROVE  Leaver(l2, x)' \/ Watched(x)'
    BY <1>1 DEF AllWatched
  <2>1. Has(l2, k2, x) /\ x # s
    <3>1. Has(l2, k2, x) /\ ~(l2 = l /\ k2 = k)
      BY <1>7
    <3> QED  BY <1>4, <3>1 DEF Places
  <2>2. Leaver(l2, x) \/ Watched(x)
    BY <2>1 DEF Placed, AllWatched
  <2>3. Leaver(l2, x) => Leaver(l2, x)'
    BY <1>2, <1>3, <2>1 DEF Leaver
  <2>4. Watched(x) => Watched(x)'
    BY <1>6, <2>1 DEF Watched
  <2> QED  BY <2>2, <2>3, <2>4
<1> QED  BY <1>10, <1>11, <1>12 DEF Placed

\* A stream that is new in its loop is watched, if it is to be.
LEMMA ArrivalPlaced ==
  ASSUME Inv, Placed, \A l \in Loops : Alive(l)' => Alive(l),
         NEW l \in Loops, NEW s, Arrives(l, s), AddConnection(l, s) \/ AddConnecting(l, s)
  PROVE  Placed'
<1> USE DEF Inv
<1>1. /\ UNCHANGED <<asks, accepted, acceptor, failed>>
      /\ s \in Streams /\ s \notin established
      /\ \A l1 \in Loops, k \in Nat : ~Has(l1, k, s)
      /\ \A l2 \in Loops, m \in Message : In(l2, m)' => In(l2, m)
  BY ArrivesEffect
<1> DEFINE h == Head(channel[l])
<1>2. /\ \A l2 \in Loops, m \in Message : In(l2, m) => In(l2, m)' \/ (l2 = l /\ m = h)
      /\ h.stream = s /\ h.kind \in {"established", "connecting"}
  BY TakesOne DEF Arrives, Takes
<1>3. Insert(l, VacantKey(l), s)
  BY DEF AddConnection, AddConnecting
<1>4. PICK v \in Nat : \A l2 \in Loops, k \in Nat, x \in Streams :
                         Has(l2, k, x)' <=> Has(l2, k, x) \/ (l2 = l /\ k = v /\ x = s)
  <2>1. VacantKey(l) \in Nat
    BY <1>1, <1>3, InsertEffect
  <2>2. \A l2 \in Loops, k \in Nat, x \in Streams :
          Has(l2, k, x)' <=> Has(l2, k, x) \/ (l2 = l /\ k = VacantKey(l) /\ x = s)
    BY <1>1, <1>3, InsertEffect
  <2> QED  BY <2>1, <2>2
<1>5. /\ established \subseteq established' /\ established' \subseteq established \cup {s}
      /\ reading \subseteq reading' /\ registered \subseteq registered'
      /\ asks => s \in registered' /\ (s \in established' => s \in reading')
  BY <1>1 DEF AddConnection, AddConnecting, ioVars
<1> HIDE DEF h
<1>6. ASSUME NEW x \in Streams, Reached(x)  PROVE Reached(x)'
  <2>1. ASSUME NEW m \in Message, In(Chosen(x), m), Arriving(m), m.stream = x
        PROVE  In(Chosen(x), m)' \/ \E k \in Nat : Has(Chosen(x), k, x)'
    <3>1. PICK l2 \in Loops : l2 = Chosen(x)
      BY ChosenLoop
    <3>2. CASE In(l2, m)'
      BY <3>1, <3>2 DEF Chosen
    <3>3. CASE ~In(l2, m)'
      <4>1. l2 = l /\ x = s
        BY <1>2, <2>1, <3>1, <3>3
      <4>2. Has(l2, v, x)'
        BY <1>4, <4>1
      <4> QED  BY <3>1, <4>2 DEF Chosen
    <3> QED  BY <3>2, <3>3
  <2>2. \A k \in Nat : Has(Chosen(x), k, x) => Has(Chosen(x), k, x)'
    <3>1. PICK l2 \in Loops : l2 = Chosen(x)
      BY ChosenLoop
    <3> QED  BY <1>4, <3>1 DEF Chosen
  <2> QED  BY <1>1, <1>5, <1>6, <2>1, <2>2, ReachedStays
<1>7. AllReached'
  BY <1>1, <1>6, ChosenLoop DEF Placed, AllReached, Chosen
<1>8. NoStops'
  BY <1>1, MessageTypes DEF Placed, NoStops
<1>9. AllWatched'
  <2> SUFFICES ASSUME asks, acceptor = "on", NEW l2 \in Loops, NEW k2 \in Nat, NEW x \in Streams,
                      Alive(l2)', Has(l2, k2, x)'
               PROVE  Leaver(l2, x)' \/ Watched(x)'
    BY <1>1 DEF AllWatched
  <2>1. CASE x = s
    BY <1>5, <2>1 DEF Watched
  <2>2. CASE x # s
    <3>1. Leaver(l2, x) \/ Watched(x)
      BY <1>4, <2>2 DEF Placed, AllWatched
    <3>2. Leaver(l2, x) => Leaver(l2, x)'
      BY <1>2, <2>2 DEF Leaver
    <3>3. Watched(x) => Watched(x)'
      BY <1>5, <2>2 DEF Watched
    <3> QED  BY <3>1, <3>2, <3>3
  <2> QED  BY <2>1, <2>2
<1> QED  BY <1>7, <1>8, <1>9 DEF Placed

LEMMA PlacedInit == Init => Placed
<1> SUFFICES ASSUME Init  PROVE Placed
  OBVIOUS
<1>1. /\ \A l \in Loops : \A m : ~In(l, m)
      /\ \A l \in Loops : \A k, s : ~Has(l, k, s)
  <2>1. \A l \in Loops : channel[l] = <<>> /\ slab[l] = <<>>
    BY DEF Init
  <2>2. \A k \in 0 .. Len(<<>>) - 1 : FALSE
    OBVIOUS
  <2>3. \A i \in 1 .. Len(<<>>) : FALSE
    OBVIOUS
  <2> QED  BY <2>1, <2>2, <2>3 DEF In, Msgs, Has, Keys
<1>2. \A s \in Streams : ~(s <= accepted)
  BY ConstantTypes DEF Init, Streams
<1> QED  BY <1>1, <1>2 DEF Placed, AllReached, NoStops, AllWatched

LEMMA PlacedStep == Inv /\ Placed /\ [Next]_vars => Placed'
<1> SUFFICES ASSUME Inv, Placed, [Next]_vars  PROVE Placed'
  OBVIOUS
<1>1. \A l \in Loops : Alive(l)' => Alive(l)
  BY AliveBefore DEF vars, loopVars, Alive
<1> QED  BY <1>1, NextCases, OutsidePlaced, ShutdownPlaced, RequestPlaced, HandOverPlaced,
            PendingReadyPlaced, StreamEndsPlaced, HandleEnablePlaced, HandleStopPlaced,
            HandleRemovedPlaced, ArrivalPlaced, RejectPlaced, DropPlaced

THEOREM PlacedInvariant == Spec => [](Inv /\ Placed)
<1> QED  BY InitInv, StepInv, PlacedInit, PlacedStep, PTL DEF Spec

\* A stream is in the channel or the slab of the loop that next_loop chose for
\* it until it has been set up, unless the loop has ended or there is no address
\* to be had from its socket: of any pool, also of one that takes more
\* connections than it has tokens for.
THEOREM StreamsArrive == Spec => []NoStreamLost
<1>1. Inv /\ Placed => NoStreamLost
  <2> SUFFICES ASSUME Inv, Placed, NEW s \in 1 .. accepted, Alive(Chosen(s)), s \notin failed
               PROVE  \/ Queued(Chosen(s), s) \/ s \in Connections(Chosen(s))
                      \/ s \in established
    BY DEF NoStreamLost
  <2>1. s \in Streams /\ s <= accepted
    <3>1. accepted \in 0 .. MaxStreams
      BY DEF Inv, Types
    <3> QED  BY <3>1, ConstantTypes DEF Streams
  <2>2. PICK l \in Loops : l = Chosen(s)
    BY <2>1, ChosenLoop
  <2>3. Reached(s)
    BY <2>1 DEF Placed, AllReached
  <2>4. \/ s \in established \/ \E k \in Nat : Has(l, k, s)
        \/ \E m \in Message : In(l, m) /\ Arriving(m) /\ m.stream = s
    BY <2>2, <2>3 DEF Reached
  <2>5. s \in Open(l) \/ s \in established
    BY <2>1, <2>4, OpenMembers DEF OpenMeaning, Inv
  <2> QED  BY <2>2, <2>5 DEF Open
<1> QED  BY <1>1, PlacedInvariant, PTL

\* Until the shutdown every connection of a pool that asks for input is watched
\* by the selector, for input once it has been set up, or its Removed is on the
\* way.
THEOREM ConnectionsWatched == Spec => []NoneStranded
<1>1. Inv /\ Placed => NoneStranded
  <2> SUFFICES ASSUME Inv, Placed, asks, acceptor = "on",
                      NEW l \in Loops, Alive(l), NEW s \in Connections(l)
               PROVE  Ending(l, s) \/ Watched(s)
    BY DEF NoneStranded, Watched
  <2>1. PICK k \in Keys(l) : s = slab[l][k + 1]
    BY DEF Connections
  <2>2. Has(l, k, s) /\ k \in Nat /\ s \in Streams
    BY <2>1, HasTypes DEF Has, Inv
  <2>3. Leaver(l, s) \/ Watched(s)
    BY <2>2 DEF Placed, AllWatched
  <2>4. Leaver(l, s) => Ending(l, s)
    <3>1. DOMAIN channel[l] = 1 .. Len(channel[l])
      BY LenProperties DEF Inv, Types
    <3> QED  BY <3>1 DEF Leaver, In, Msgs, Ending
  <2> QED  BY <2>3, <2>4
<1> QED  BY <1>1, PlacedInvariant, PTL

=============================================================================
