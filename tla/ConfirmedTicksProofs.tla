------------------------- MODULE ConfirmedTicksProofs -------------------------
(***************************************************************************)
(* Proofs of the properties of ConfirmedTicks, for every width of ticks,   *)
(* every length of windows and every tick to start in.                     *)
(***************************************************************************)
EXTENDS ConfirmedTicks, FiniteSetTheorems, TLAPS

-----------------------------------------------------------------------------
(* Numbers modulo another.                                                 *)

\* What a remainder is.
LEMMA Division ==
  ASSUME NEW N \in Nat \ {0}, NEW x \in Int
  PROVE  /\ x % N \in 0..(N - 1) /\ x \div N \in Int
         /\ x = N * (x \div N) + (x % N)
<1>1. (x % N) \in 0..(N - 1) /\ (x \div N) \in Int
  OBVIOUS
<1>2. x = N * (x \div N) + (x % N)
  OBVIOUS
<1>. QED  BY <1>1, <1>2

\* Multiplication distributes over a difference.
LEMMA Multiples ==
  ASSUME NEW N \in Nat \ {0}, NEW k \in Int, NEW j \in Int
  PROVE  N * k \in Int /\ N * k - N * j = N * (k - j)
OBVIOUS

\* The only multiple of N that is closer to 0 than N is 0, and so on.
LEMMA NearMultiples ==
  ASSUME NEW N \in Nat \ {0}, NEW k \in Int, N * k < 2 * N, N * k > -(2 * N)
  PROVE  k \in {-1, 0, 1}
OBVIOUS

\* The remainder of what is less than N in size.
LEMMA NearRemainder ==
  ASSUME NEW N \in Nat \ {0}, NEW x \in Int, x < N, -N < x
  PROVE  x % N = IF x >= 0 THEN x ELSE x + N
OBVIOUS

\* The difference of remainders, for numbers less than N apart.
LEMMA DifferenceOfRemainders ==
  ASSUME NEW N \in Nat \ {0}, NEW a \in Int, NEW b \in Int, a - b < N, b - a < N
  PROVE  ((a % N) - (b % N)) % N = IF a >= b THEN a - b ELSE a - b + N
<1>. DEFINE r == a % N
            s == b % N
            q == a \div N
            p == b \div N
            k == q - p
            n == N * k
            d == r - s
            m == d % N
<1>1. /\ r \in 0..(N - 1) /\ s \in 0..(N - 1) /\ q \in Int /\ p \in Int
      /\ a = N * q + r /\ b = N * p + s
  BY Division
<1>. HIDE DEF r, s, q, p
<1>2. N * q - N * p = n /\ n \in Int /\ N * q \in Int /\ N * p \in Int /\ k \in Int
  BY <1>1, Multiples
<1>. HIDE DEF n
<1>3. a - b = n + d /\ d \in Int /\ d < N /\ -N < d
  BY <1>1, <1>2
<1>. HIDE DEF d
<1>4. n < 2 * N /\ n > -(2 * N)
  BY <1>2, <1>3
<1>5. k \in {-1, 0, 1}
  BY <1>2, <1>4, NearMultiples DEF n
<1>6. n \in {-N, 0, N}
  <2>. HIDE DEF k
  <2>. QED  BY <1>5 DEF n
<1>. HIDE DEF k
<1>7. m = IF d >= 0 THEN d ELSE d + N
  BY <1>3, NearRemainder
<1>. HIDE DEF m
<1>8. m = IF a >= b THEN a - b ELSE a - b + N
  BY <1>3, <1>6, <1>7
<1>. QED  BY <1>8 DEF m, d, r, s

\* A number is its own remainder.
LEMMA OwnRemainder ==
  ASSUME NEW N \in Nat \ {0}, NEW x \in 0..(N - 1)
  PROVE  x % N = x
OBVIOUS

\* Numbers that differ by a multiple of N have the same remainder.
LEMMA SameRemainder ==
  ASSUME NEW N \in Nat \ {0}, NEW q \in Int, NEW r \in 0..(N - 1)
  PROVE  (N * q + r) % N = r
<1>. DEFINE x == N * q + r
            s == x % N
            p == x \div N
<1>1. N * q \in Int /\ x \in Int
  BY Multiples
<1>. HIDE DEF x
<1>2. s \in 0..(N - 1) /\ p \in Int /\ x = N * p + s
  BY <1>1, Division
<1>. HIDE DEF s, p
<1>3. N * (q - p) = s - r /\ N * p \in Int
  BY <1>1, <1>2, Multiples DEF x
<1>. DEFINE k == q - p
<1>4. k \in Int /\ N * k < N /\ -N < N * k
  BY <1>2, <1>3
<1>. HIDE DEF k
<1>5. k \in {-1, 0, 1}
  BY <1>4, NearMultiples
<1>6. k = 0
  BY <1>4, <1>5
<1>7. s = r
  BY <1>2, <1>3, <1>6 DEF k
<1>. QED  BY <1>7 DEF s, x

\* Subtraction after the remainder or before it.
LEMMA RemainderOfDifference ==
  ASSUME NEW N \in Nat \ {0}, NEW a \in Int, NEW b \in 0..(N - 1)
  PROVE  ((a % N) - b) % N = (a - b) % N
<1>. DEFINE r == a % N
            q == a \div N
<1>1. r \in 0..(N - 1) /\ q \in Int /\ a = N * q + r
  BY Division
<1>. HIDE DEF r, q
<1>2. N * q \in Int /\ N * (q - 1) = N * q - N
  BY <1>1, Multiples
<1>3. CASE r >= b
  <2>1. (r - b) % N = r - b
    <3>. DEFINE d == r - b
    <3>1. d \in 0..(N - 1)
      BY <1>1, <1>3
    <3>. HIDE DEF d
    <3>2. d % N = d
      BY <3>1, OwnRemainder
    <3>. QED  BY <3>2 DEF d
  <2>2. a - b = N * q + (r - b) /\ r - b \in 0..(N - 1)
    BY <1>1, <1>2, <1>3
  <2>3. (N * q + (r - b)) % N = r - b
    BY <1>1, <2>2, SameRemainder
  <2>. QED  BY <2>1, <2>2, <2>3 DEF r
<1>4. CASE r < b
  <2>1. (r - b) % N = r - b + N
    <3>. DEFINE d == r - b
    <3>1. d \in Int /\ d < 0 /\ d < N /\ -N < d
      BY <1>1, <1>4
    <3>. HIDE DEF d
    <3>2. d % N = IF d >= 0 THEN d ELSE d + N
      BY <3>1, NearRemainder
    <3>3. ~(d >= 0)
      BY <3>1
    <3>. QED  BY <3>2, <3>3 DEF d
  <2>2. a - b = N * (q - 1) + (r - b + N) /\ r - b + N \in 0..(N - 1) /\ q - 1 \in Int
    BY <1>1, <1>2, <1>4
  <2>3. (N * (q - 1) + (r - b + N)) % N = r - b + N
    BY <2>2, SameRemainder
  <2>. QED  BY <2>1, <2>2, <2>3 DEF r
<1>. QED  BY <1>1, <1>3, <1>4

-----------------------------------------------------------------------------
(* Ticks.                                                                  *)

\* Ticks in play, whether they have come or not.
InPlay == Start..(Start + MaxTicks)

LEMMA Widths ==
  /\ Size \in Nat \ {0} /\ Bits \in Nat \ {0} /\ Start \in Nat /\ MaxTicks \in Nat
  /\ 2 * Bits < Size /\ 2 * MaxTicks < Size
  /\ (Size - 1) \div 2 \in Nat
  /\ \A x \in Int : x <= (Size - 1) \div 2 <=> 2 * x < Size
<1>1. /\ Size \in Nat \ {0} /\ Bits \in Nat \ {0} /\ Start \in Nat /\ MaxTicks \in Nat
      /\ 2 * Bits < Size /\ 2 * MaxTicks < Size
  BY WidthAssumption
<1>2. (Size - 1) \div 2 \in Nat
  BY <1>1
<1>3. \A x \in Int : x <= (Size - 1) \div 2 <=> 2 * x < Size
  BY <1>1
<1>. QED  BY <1>1, <1>2, <1>3

\* The code's subtraction of ticks: the distance from the earlier to the later,
\* and all that is left of Size in the other direction.
LEMMA Distance ==
  ASSUME NEW a \in InPlay, NEW b \in InPlay
  PROVE  /\ Wire(a) \in WireTicks
         /\ a >= b => Minus(Wire(a), Wire(b)) = a - b
         /\ a < b => Minus(Wire(a), Wire(b)) = a - b + Size
<1>1. a \in Int /\ b \in Int /\ a - b < Size /\ b - a < Size
  BY Widths DEF InPlay
<1>2. Minus(Wire(a), Wire(b)) = IF a >= b THEN a - b ELSE a - b + Size
  BY <1>1, Widths, DifferenceOfRemainders DEF Minus, Wire
<1>3. Wire(a) \in WireTicks
  BY <1>1, Widths, Division DEF Wire, WireTicks
<1>. QED  BY <1>1, <1>2, <1>3

\* The code's order of ticks is the order in which they come, though they wrap.
THEOREM NewerIsLater ==
  ASSUME NEW a \in InPlay, NEW b \in InPlay
  PROVE  Newer(Wire(a), Wire(b)) <=> a > b
<1>. DEFINE d == Minus(Wire(a), Wire(b))
            h == (Size - 1) \div 2
<1>1. a \in Int /\ b \in Int /\ a - b <= MaxTicks /\ b - a <= MaxTicks
  BY Widths DEF InPlay
<1>2. d = IF a >= b THEN a - b ELSE a - b + Size
  BY <1>1, Distance
<1>3. d \in Int /\ h \in Nat /\ (d <= h <=> 2 * d < Size)
  BY <1>1, <1>2, Widths
<1>4. d \in 1..h <=> d >= 1 /\ 2 * d < Size
  BY <1>3
<1>. HIDE DEF d, h
<1>5. d \in 1..h <=> a > b
  BY <1>1, <1>2, <1>4, Widths
<1>. QED  BY <1>5 DEF Newer, d, h

\* The comparison with the end of a window, for a tick not after its last tick.
LEMMA BeyondWindow ==
  ASSUME NEW last \in InPlay, NEW tick \in InPlay, tick <= last
  PROVE  Newer(Wire(tick), Minus(Wire(last), Bits)) <=> last - tick < Bits
<1>. DEFINE end == last - Bits
            d   == Minus(Wire(tick), Wire(end))
            h   == (Size - 1) \div 2
<1>1. /\ last \in Int /\ tick \in Int /\ end \in Int /\ last - tick <= MaxTicks
      /\ tick - end < Size /\ end - tick < Size
  BY Widths DEF InPlay
<1>2. Bits \in 0..(Size - 1)
  BY Widths
<1>3. Minus(Wire(last), Bits) = Wire(end)
  BY <1>1, <1>2, Widths, RemainderOfDifference DEF Minus, Wire
<1>. HIDE DEF end
<1>4. d = IF tick >= end THEN tick - end ELSE tick - end + Size
  BY <1>1, Widths, DifferenceOfRemainders DEF Minus, Wire
<1>5. d \in Int /\ h \in Nat /\ (d <= h <=> 2 * d < Size)
  BY <1>1, <1>4, Widths
<1>6. d \in 1..h <=> d >= 1 /\ 2 * d < Size
  BY <1>5
<1>. HIDE DEF d, h
<1>7. d \in 1..h <=> tick > end
  BY <1>1, <1>4, <1>6, Widths DEF end
<1>8. tick > end <=> last - tick < Bits
  BY <1>1, Widths DEF end
<1>. QED  BY <1>3, <1>7, <1>8 DEF Newer, d, h
-----------------------------------------------------------------------------
(* The inductive invariant.                                                *)

\* The mutate messages of a tick, as the server sends them: those with certain
\* numbers, 1 or none, have the entity.
Batch(t, carriers, count, update) ==
  {[tick |-> t, number |-> n, count |-> count, entity |-> n \in carriers,
    update |-> update] : n \in 1..count}
Carriers(carried) == IF carried THEN {1} ELSE {}

MessagesOf(t) == {m \in mutates \cup applied : m.tick = t}
AppliedOf(t)  == {m \in applied : m.tick = t}

\* A message is applied once, and nothing of what was sent for a tick gets lost
\* in the model: what is never applied stays in transit.
BatchesInv ==
  /\ mutates \cap applied = {}
  /\ \A m \in mutates \cup applied : m.tick \in Ticks
  /\ \A t \in Ticks : \E carriers \in SUBSET {1}, count \in 1..MaxMessages, update \in Ticks :
       update <= t /\ MessagesOf(t) = Batch(t, carriers, count, update)

\* The client's update tick is c; what is in transit is later, as are all update
\* messages that applied mutate messages did not wait for.
UpdatesInv(c) ==
  /\ clientTick = Wire(c)
  /\ \A i \in DOMAIN updates : updates[i] \in Start..updateTick /\ c < updates[i]
  /\ \A i, j \in DOMAIN updates : i < j => updates[i] < updates[j]
  /\ \A m \in mutates \cup applied, i \in DOMAIN updates :
       updates[i] <= m.tick => updates[i] <= m.update
  /\ \A m \in mutates : m.update <= updateTick
  /\ \A m \in applied : m.update <= c
  /\ \A t \in replicated, i \in DOMAIN updates : t < updates[i]
ClientTickInv == \E c \in Ticks : UpdatesInv(c)

\* A change of the entity was replicated, or is in transit, or was applied in vain.
ChangedInv ==
  \A t \in changed :
    \/ t \in replicated
    \/ \E i \in DOMAIN updates : updates[i] = t
    \/ \E m \in mutates \cup applied : m.tick = t /\ m.entity

\* The history ends with h, the last tick the entity was replicated for.
MaskInv(h) ==
  /\ h \in replicated /\ \A t \in replicated : t <= h
  /\ jump <= h
  /\ history.last = Wire(h)
  /\ \A t \in replicated : h - t < Bits => h - t \in history.mask
  /\ \A i \in history.mask : h - i \in replicated \/ h - i < jump
  /\ needHistory =>
       \A m \in applied : m.entity => m.tick \in replicated \/ h - m.tick >= Bits
HistoryInv == \E h \in Ticks : MaskInv(h)

\* The window of mutate messages ends with l, the last tick of one that was applied,
\* and counts those of its ticks.
Counts(entry, t) ==
  /\ entry.received = Cardinality(AppliedOf(t))
  /\ AppliedOf(t) = {} => entry.count = 0
  /\ \A m \in AppliedOf(t) : entry.count = m.count
WindowInv(l) ==
  /\ \A m \in applied : m.tick <= l
  /\ \E m \in applied : m.tick = l
  /\ mutateTicks.last = Wire(l)
  /\ \A i \in Windows : Counts(mutateTicks.ticks[i], l - i)
  /\ \A t \in late : l - t >= Bits
MutateTicksInv == \E l \in Ticks : WindowInv(l)

IInv ==
  /\ TypeOK
  /\ BatchesInv
  /\ ClientTickInv
  /\ ChangedInv
  /\ HistoryInv
  /\ MutateTicksInv
  /\ ReceivedWhenComplete

-----------------------------------------------------------------------------
(* Batches of messages.                                                    *)

LEMMA BatchSize ==
  ASSUME NEW t, NEW carriers, NEW count \in Nat, NEW update
  PROVE  /\ IsFiniteSet(Batch(t, carriers, count, update))
         /\ Cardinality(Batch(t, carriers, count, update)) = count
<1>. DEFINE Message(n) == [tick |-> t, number |-> n, count |-> count,
                           entity |-> n \in carriers, update |-> update]
            f == [n \in 1..count |-> Message(n)]
            B == Batch(t, carriers, count, update)
<1>1. IsFiniteSet(1..count) /\ Cardinality(1..count) = count
  BY FS_Interval
<1>2. B = {Message(n) : n \in 1..count}
  BY DEF Batch
<1>3. \A n, k \in 1..count : Message(n) = Message(k) => n = k
  OBVIOUS
<1>. HIDE DEF Message, B
<1>4. f \in Bijection(1..count, B)
  <2>1. f \in [1..count -> B]
    BY <1>2
  <2>2. f \in Injection(1..count, B)
    BY <1>3, <2>1 DEF Injection, IsInjective
  <2>3. f \in Surjection(1..count, B)
    BY <1>2, <2>1 DEF Surjection
  <2>. QED  BY <2>2, <2>3 DEF Bijection
<1>. HIDE DEF f
<1>5. IsFiniteSet(B) /\ Cardinality(B) = Cardinality(1..count)
  BY <1>1, <1>4, FS_Bijection DEF ExistsBijection
<1>. QED  BY <1>1, <1>5 DEF B

\* What was applied of a tick's messages: a finite set, empty for all but the ticks
\* so far.
LEMMA AppliedIsFinite ==
  ASSUME TypeOK, BatchesInv, NEW t
  PROVE  /\ IsFiniteSet(AppliedOf(t)) /\ Cardinality(AppliedOf(t)) \in Nat
         /\ t \notin Ticks => AppliedOf(t) = {}
<1>1. CASE t \in Ticks
  <2>1. PICK carriers \in SUBSET {1}, count \in 1..MaxMessages, update \in Ticks :
          MessagesOf(t) = Batch(t, carriers, count, update)
    BY <1>1 DEF BatchesInv
  <2>2. IsFiniteSet(Batch(t, carriers, count, update))
    BY BatchSize, BoundsAssumption
  <2>3. AppliedOf(t) \subseteq MessagesOf(t)
    BY DEF AppliedOf, MessagesOf
  <2>. QED  BY <1>1, <2>1, <2>2, <2>3, FS_Subset, FS_CardinalityType
<1>2. CASE t \notin Ticks
  <2>1. AppliedOf(t) = {}
    BY <1>2 DEF AppliedOf, BatchesInv
  <2>. QED  BY <2>1, FS_EmptySet
<1>. QED  BY <1>1, <1>2

\* All of them were applied if their number says so.
LEMMA CompleteWhenApplied ==
  ASSUME TypeOK, BatchesInv, NEW t \in Ticks
  PROVE  /\ \A m \in MessagesOf(t) :
              /\ m.count \in 1..MaxMessages
              /\ Cardinality(AppliedOf(t)) <= m.count
              /\ m \in mutates => Cardinality(AppliedOf(t)) < m.count
         /\ \A m, n \in MessagesOf(t) : m.count = n.count
         /\ IsComplete(t) <=> MessagesOf(t) \subseteq applied
<1>1. PICK carriers \in SUBSET {1}, count \in 1..MaxMessages, update \in Ticks :
        MessagesOf(t) = Batch(t, carriers, count, update)
  BY DEF BatchesInv
<1>2. count \in Nat \ {0} /\ 1 \in 1..count
  BY BoundsAssumption
<1>3. /\ IsFiniteSet(MessagesOf(t)) /\ Cardinality(MessagesOf(t)) = count
      /\ \A m \in MessagesOf(t) : m.count = count
      /\ MessagesOf(t) # {}
  <2>1. \A m \in Batch(t, carriers, count, update) : m.count = count
    BY DEF Batch
  <2>2. Batch(t, carriers, count, update) # {}
    BY <1>2 DEF Batch
  <2>. QED  BY <1>1, <1>2, <2>1, <2>2, BatchSize
<1>4. AppliedOf(t) \subseteq MessagesOf(t)
  BY DEF AppliedOf, MessagesOf
<1>5. /\ Cardinality(AppliedOf(t)) <= count
      /\ Cardinality(AppliedOf(t)) = count => AppliedOf(t) = MessagesOf(t)
  BY <1>3, <1>4, FS_Subset
<1>6. \A m \in MessagesOf(t) : m \in mutates => m \notin AppliedOf(t)
  BY DEF AppliedOf, BatchesInv
<1>7. Cardinality(AppliedOf(t)) \in Nat
  BY AppliedIsFinite
<1>8. \A m \in MessagesOf(t) : m \in mutates => Cardinality(AppliedOf(t)) < m.count
  BY <1>2, <1>3, <1>5, <1>6, <1>7
<1>9. IsComplete(t) <=>
        \E m \in AppliedOf(t) : Cardinality(AppliedOf(t)) = m.count
  BY DEF IsComplete, AppliedOf
<1>10. AppliedOf(t) = MessagesOf(t) <=> MessagesOf(t) \subseteq applied
  BY <1>4 DEF AppliedOf, MessagesOf
<1>11. IsComplete(t) <=> AppliedOf(t) = MessagesOf(t)
  BY <1>3, <1>4, <1>5, <1>9
<1>. QED  BY <1>1, <1>3, <1>5, <1>8, <1>10, <1>11

\* The messages of a batch.
LEMMA BatchMessages ==
  ASSUME NEW t \in AllTicks, NEW carriers, NEW count \in 1..MaxMessages,
         NEW update \in AllTicks
  PROVE  /\ \A m \in Batch(t, carriers, count, update) :
              m \in MutateMessages /\ m.tick = t /\ m.update = update
         /\ 1 \in carriers => \E m \in Batch(t, carriers, count, update) : m.entity
<1>1. 1 \in 1..count /\ \A n \in 1..count : n \in 1..MaxMessages
  BY BoundsAssumption
<1>. DEFINE Message(n) == [tick |-> t, number |-> n, count |-> count,
                           entity |-> n \in carriers, update |-> update]
<1>2. ASSUME NEW n \in 1..count
      PROVE  /\ Message(n) \in MutateMessages
             /\ Message(n).tick = t /\ Message(n).update = update
  BY <1>1 DEF MutateMessages
<1>3. ASSUME 1 \in carriers PROVE Message(1).entity
  BY <1>3
<1>4. Batch(t, carriers, count, update) = {Message(n) : n \in 1..count}
  BY DEF Batch
<1>. HIDE DEF Message
<1>. QED  BY <1>1, <1>2, <1>3, <1>4

-----------------------------------------------------------------------------
(* The initial state.                                                      *)

LEMMA InitIInv == Init => IInv
<1>. SUFFICES ASSUME Init PROVE IInv
  OBVIOUS
<1>0. /\ Start \in Nat /\ MaxTicks \in Nat /\ Ticks = {Start} /\ Start \in AllTicks
      /\ Start \in InPlay /\ AllTicks \subseteq Nat /\ 0 \in AllTicks
  BY Widths DEF Init, Ticks, AllTicks, InPlay
<1>1. /\ 1 \in 1..MaxMessages /\ 1 \in 0..MaxMessages /\ 0 \in 0..MaxMessages
      /\ 0 \in Windows /\ Windows \subseteq Nat
  BY BoundsAssumption, Widths DEF Windows
<1>2. Wire(Start) \in WireTicks
  BY <1>0, Distance
<1>3. FirstMessage \in MutateMessages /\ FirstMessage.tick = Start
      /\ FirstMessage.count = 1 /\ FirstMessage.update = Start /\ ~FirstMessage.entity
  BY <1>0, <1>1 DEF FirstMessage, MutateMessages
<1>4. /\ mutateTicks.last = Wire(Start)
      /\ mutateTicks.ticks[0] = [count |-> 1, received |-> 1]
      /\ \A i \in Windows : i # 0 => mutateTicks.ticks[i] = [count |-> 0, received |-> 0]
      /\ mutateTicks \in [ticks : [Windows -> [count : 0..MaxMessages, received : 0..MaxMessages]],
                          last : WireTicks]
  BY <1>1, <1>2 DEF Init, NoTicks, NoMessages, Windows
<1>5. TypeOK
  <2>1. history \in [mask : SUBSET Windows, last : WireTicks]
    BY <1>1, <1>2 DEF Init, NewHistory
  <2>2. /\ {now, updateTick, jump} \subseteq AllTicks
        /\ Start <= updateTick /\ updateTick <= now
        /\ changed \subseteq Ticks /\ carrying \in BOOLEAN
        /\ replicated \cup received \cup late \subseteq Ticks
    <3>1. /\ now = Start /\ updateTick = Start /\ jump = 0
          /\ changed = {Start} /\ carrying = FALSE
          /\ replicated = {Start} /\ received = {Start} /\ late = {}
      BY DEF Init
    <3>2. Start <= Start
      BY <1>0
    <3>3. Start <= updateTick /\ updateTick <= now
      BY <3>1, <3>2, Zenon
    <3>4. {now, updateTick, jump} \subseteq AllTicks
      BY <1>0, <3>1, Zenon
    <3>5. Start \in Ticks
      BY <1>0
    <3>6. changed \subseteq Ticks /\ replicated \cup received \cup late \subseteq Ticks
      BY <3>1, <3>5, Zenon
    <3>7. carrying \in BOOLEAN
      BY <3>1
    <3>. QED  BY <3>3, <3>4, <3>6, <3>7, Zenon
  <2>3. /\ mutates \subseteq MutateMessages /\ applied \subseteq MutateMessages
        /\ needHistory \in BOOLEAN /\ clientTick \in WireTicks
        /\ updates \in Seq(AllTicks)
    BY <1>2, <1>3 DEF Init
  <2>. QED  BY <1>4, <2>1, <2>2, <2>3 DEF TypeOK
<1>6. /\ AppliedOf(Start) = {FirstMessage}
      /\ \A t : t # Start => AppliedOf(t) = {}
      /\ MessagesOf(Start) = {FirstMessage}
  BY <1>3 DEF Init, AppliedOf, MessagesOf
<1>7. Cardinality(AppliedOf(Start)) = 1 /\ \A t : t # Start => Cardinality(AppliedOf(t)) = 0
  BY <1>6, FS_EmptySet, FS_Singleton
<1>8. BatchesInv
  <2>1. Batch(Start, {}, 1, Start) = {FirstMessage}
    <3>1. 1..1 = {1} /\ (1 \in {}) = FALSE
      OBVIOUS
    <3>. QED  BY <3>1 DEF Batch, FirstMessage
  <2>2. \A t \in Ticks : \E carriers \in SUBSET {1}, count \in 1..MaxMessages, update \in Ticks :
          update <= t /\ MessagesOf(t) = Batch(t, carriers, count, update)
    <3>1. Start <= Start
      BY <1>0
    <3>2. MessagesOf(Start) = Batch(Start, {}, 1, Start)
      BY <1>6, <2>1, Zenon
    <3>. QED  BY <1>0, <1>1, <3>1, <3>2
  <2>. QED  BY <1>0, <1>3, <2>2 DEF Init, BatchesInv
<1>9. ClientTickInv
  BY <1>0, <1>3 DEF Init, ClientTickInv, UpdatesInv
<1>10. ChangedInv
  BY DEF Init, ChangedInv
<1>11. HistoryInv
  BY <1>0, <1>1, <1>3 DEF Init, HistoryInv, MaskInv, NewHistory
<1>12. MutateTicksInv
  <2>1. ASSUME NEW i \in Windows
        PROVE  Counts(mutateTicks.ticks[i], Start - i)
    <3>1. CASE i = 0
      <4>1. Start - i = Start
        BY <1>0, <3>1
      <4>2. AppliedOf(Start - i) = {FirstMessage} /\ Cardinality(AppliedOf(Start - i)) = 1
        BY <1>6, <1>7, <4>1
      <4>. QED  BY <1>3, <1>4, <3>1, <4>2 DEF Counts
    <3>2. CASE i # 0
      <4>1. Start - i # Start
        BY <1>0, <1>1, <3>2
      <4>2. AppliedOf(Start - i) = {} /\ Cardinality(AppliedOf(Start - i)) = 0
        BY <1>6, <1>7, <4>1
      <4>. QED  BY <1>4, <3>2, <4>2 DEF Counts
    <3>. QED  BY <3>1, <3>2
  <2>2. WindowInv(Start)
    BY <1>0, <1>3, <1>4, <2>1 DEF Init, WindowInv
  <2>. QED  BY <1>0, <2>2 DEF MutateTicksInv
<1>13. ReceivedWhenComplete
  <2>1. {n \in applied : n.tick = Start} = AppliedOf(Start)
    BY DEF AppliedOf
  <2>2. IsComplete(Start)
    BY <1>3, <1>7, <2>1 DEF IsComplete, Init
  <2>. QED  BY <1>0, <2>2 DEF ReceivedWhenComplete, Init
<1>. QED  BY <1>5, <1>8, <1>9, <1>10, <1>11, <1>12, <1>13 DEF IInv

-----------------------------------------------------------------------------
(* The server sends.                                                       *)

\* A tick of the server, with or without an update message.
Sends(carried, count) ==
  /\ now < Start + MaxTicks
  /\ now' = now + 1
  /\ updateTick' \in {updateTick, now'}
  /\ updates' = IF updateTick' = now' THEN Append(updates, now') ELSE updates
  /\ changed' \subseteq changed \cup {now'} /\ changed \subseteq changed'
  /\ now' \in changed' => carried \/ updateTick' = now'
  /\ carrying' \in BOOLEAN
  /\ mutates' = Sent(carried, count)
  /\ UNCHANGED <<client, observed>>

LEMMA Sending ==
  ASSUME IInv, NEW carried \in BOOLEAN, NEW count \in 1..MaxMessages, Sends(carried, count)
  PROVE  IInv'
<1>. DEFINE new == Batch(now', Carriers(carried), count, updateTick')
<1>1. /\ UNCHANGED <<needHistory, clientTick, history, mutateTicks>>
      /\ UNCHANGED <<replicated, received, applied, late, jump>>
      /\ carrying' \in BOOLEAN
  BY DEF Sends, client, observed
<1>2. mutates' = mutates \cup new
  <2>1. \A n \in 1..count : (n \in Carriers(carried)) = (carried /\ n = 1)
    BY DEF Carriers
  <2>. QED  BY <2>1 DEF Sends, Sent, Batch
<1>a. /\ now \in Nat /\ Start \in Nat /\ MaxTicks \in Nat /\ Start <= now
      /\ updateTick \in Nat /\ Start <= updateTick /\ updateTick <= now
      /\ now < Start + MaxTicks /\ now' = now + 1 /\ updateTick' \in {updateTick, now'}
  BY Widths DEF IInv, TypeOK, AllTicks, Sends
<1>3. /\ now \in Nat /\ Start \in Nat /\ now' \in AllTicks /\ now' > now /\ Start <= now
      /\ updateTick \in Ticks /\ updateTick' \in Ticks' /\ updateTick' <= now'
      /\ Ticks' = Ticks \cup {now'} /\ now' \notin Ticks /\ \A t \in Ticks : t < now'
      /\ AllTicks \subseteq Nat /\ Ticks' \subseteq AllTicks
      /\ updateTick <= updateTick' /\ Start <= updateTick
  BY <1>a DEF Ticks, AllTicks
<1>4. /\ \A m \in new : m \in MutateMessages /\ m.tick = now' /\ m.update = updateTick'
      /\ carried => \E m \in new : m.entity
  <2>. DEFINE t == now'
              u == updateTick'
              c == Carriers(carried)
  <2>1. t \in AllTicks /\ u \in AllTicks /\ (carried => 1 \in c)
    BY <1>3 DEF Carriers
  <2>. HIDE DEF t, u, c
  <2>2. /\ \A m \in Batch(t, c, count, u) : m \in MutateMessages /\ m.tick = t /\ m.update = u
        /\ 1 \in c => \E m \in Batch(t, c, count, u) : m.entity
    <3>1. \A m \in Batch(t, c, count, u) : m \in MutateMessages /\ m.tick = t /\ m.update = u
      BY <2>1, BatchMessages
    <3>2. 1 \in c => \E m \in Batch(t, c, count, u) : m.entity
      BY <2>1, BatchMessages
    <3>. QED  BY <3>1, <3>2
  <2>3. carried => \E m \in Batch(t, c, count, u) : m.entity
    BY <2>1, <2>2
  <2>. QED  BY <2>2, <2>3, Zenon DEF t, u, c
<1>. HIDE DEF new
<1>6. \A m \in mutates \cup applied : m.tick \in Ticks /\ m.tick < now' /\ m \notin new
  BY <1>3, <1>4 DEF IInv, BatchesInv
<1>7. /\ updates \in Seq(AllTicks) /\ updates' \in Seq(AllTicks)
      /\ DOMAIN updates \subseteq DOMAIN updates'
      /\ \A i \in DOMAIN updates : updates'[i] = updates[i]
      /\ \A i \in DOMAIN updates' :
           \/ i \in DOMAIN updates
           \/ updateTick' = now' /\ updates'[i] = now' /\ i = Len(updates) + 1
      /\ DOMAIN updates = 1..Len(updates) /\ Len(updates) \in Nat
      /\ DOMAIN updates' \subseteq 1..(Len(updates) + 1)
      /\ updateTick' = now' => \E i \in DOMAIN updates' : updates'[i] = now'
  <2>1. updates \in Seq(AllTicks)
    BY DEF IInv, TypeOK
  <2>2. CASE updateTick' = now'
    <3>1. updates' = Append(updates, now')
      BY <2>2 DEF Sends
    <3>. DEFINE n == now'
    <3>. HIDE DEF n
    <3>2. n \in AllTicks /\ updates' = Append(updates, n)
      BY <1>3, <3>1 DEF n
    <3>3. updates' \in Seq(AllTicks) /\ Len(updates) \in Nat /\ Len(updates') = Len(updates) + 1
      BY <2>1, <3>2
    <3>4. (\A i \in 1..Len(updates) : updates'[i] = updates[i])
          /\ updates'[Len(updates) + 1] = n
      BY <2>1, <3>2
    <3>5. DOMAIN updates = 1..Len(updates) /\ DOMAIN updates' = 1..(Len(updates) + 1)
      BY <2>1, <3>3
    <3>. QED  BY <2>1, <2>2, <3>3, <3>4, <3>5 DEF n
  <2>3. CASE updateTick' # now'
    BY <2>1, <2>3 DEF Sends
  <2>. QED  BY <2>1, <2>2, <2>3
<1>8. TypeOK'
  <2>1. /\ {now, updateTick, jump}' \subseteq AllTicks
        /\ Start <= updateTick' /\ updateTick' <= now'
        /\ changed' \subseteq Ticks'
        /\ (replicated \cup received \cup late)' \subseteq Ticks'
    <3>1. /\ now \in AllTicks /\ jump \in AllTicks /\ changed \subseteq Ticks
          /\ replicated \cup received \cup late \subseteq Ticks
      BY DEF IInv, TypeOK
    <3>2. changed' \subseteq changed \cup {now'}
      BY DEF Sends
    <3>. QED  BY <1>1, <1>3, <3>1, <3>2
  <2>2. mutates' \subseteq MutateMessages /\ applied' \subseteq MutateMessages
    BY <1>1, <1>2, <1>4 DEF IInv, TypeOK
  <2>3. /\ needHistory' \in BOOLEAN /\ clientTick' \in WireTicks
        /\ history' \in [mask : SUBSET Windows, last : WireTicks]
        /\ mutateTicks' \in [ticks : [Windows -> [count : 0..MaxMessages,
                                                  received : 0..MaxMessages]],
                             last : WireTicks]
    BY <1>1 DEF IInv, TypeOK
  <2>. QED  BY <1>1, <1>7, <2>1, <2>2, <2>3 DEF TypeOK
<1>9. /\ MessagesOf(now)' = new
      /\ \A t \in Ticks : MessagesOf(t)' = MessagesOf(t)
  <2>1. (mutates \cup applied)' = (mutates \cup applied) \cup new
    BY <1>1, <1>2
  <2>2. MessagesOf(now)' = {m \in (mutates \cup applied) \cup new : m.tick = now'}
    BY <2>1 DEF MessagesOf
  <2>3. \A m \in mutates \cup applied : m.tick # now'
    BY <1>3, <1>6
  <2>4. \A t \in Ticks : MessagesOf(t)' = {m \in (mutates \cup applied) \cup new : m.tick = t}
    BY <2>1 DEF MessagesOf
  <2>5. \A t \in Ticks : t # now'
    BY <1>3
  <2>. QED  BY <1>4, <2>2, <2>3, <2>4, <2>5 DEF MessagesOf
<1>10. BatchesInv'
  <2>1. (mutates \cap applied)' = {}
    BY <1>1, <1>2, <1>6 DEF IInv, BatchesInv
  <2>2. \A m \in (mutates \cup applied)' : m.tick \in Ticks'
    BY <1>1, <1>2, <1>3, <1>4, <1>6
  <2>3. ASSUME NEW t \in Ticks'
        PROVE  \E c \in SUBSET {1}, n \in 1..MaxMessages, u \in Ticks' :
                 u <= t /\ MessagesOf(t)' = Batch(t, c, n, u)
    <3>1. CASE t = now'
      <4>1. MessagesOf(now)' = Batch(now', Carriers(carried), count, updateTick')
        BY <1>9 DEF new
      <4>2. updateTick' <= t /\ updateTick' \in Ticks'
        BY <1>3, <3>1
      <4>3. Carriers(carried) \in SUBSET {1}
        BY DEF Carriers
      <4>. QED  BY <3>1, <4>1, <4>2, <4>3
    <3>2. CASE t \in Ticks
      BY <1>3, <1>9, <3>2 DEF IInv, BatchesInv
    <3>. QED  BY <1>3, <3>1, <3>2
  <2>. QED  BY <2>1, <2>2, <2>3 DEF BatchesInv, MessagesOf
<1>11. ClientTickInv'
  <2>1. PICK c \in Ticks : UpdatesInv(c)
    BY DEF IInv, ClientTickInv
  <2>2. \A i \in DOMAIN updates' : updates'[i] \in Start..updateTick' /\ c < updates'[i]
    <3>. TAKE i \in DOMAIN updates'
    <3>1. CASE i \in DOMAIN updates
      BY <1>3, <1>7, <2>1, <3>1 DEF UpdatesInv
    <3>2. CASE i \notin DOMAIN updates
      BY <1>3, <1>7, <2>1, <3>2
    <3>. QED  BY <3>1, <3>2
  <2>3. \A i, j \in DOMAIN updates' : i < j => updates'[i] < updates'[j]
    <3>. TAKE i, j \in DOMAIN updates'
    <3>. HAVE i < j
    <3>0. i \in Nat /\ j \in Nat
      BY <1>7
    <3>1. i \in DOMAIN updates
      <4>1. ASSUME i \notin DOMAIN updates PROVE FALSE
        <5>1. i = Len(updates) + 1 /\ j \in 1..(Len(updates) + 1) /\ Len(updates) \in Nat
          BY <1>7, <4>1
        <5>. QED  BY <3>0, <5>1
      <4>. QED  BY <4>1
    <3>2. updates[i] <= updateTick
      BY <2>1, <3>1 DEF UpdatesInv
    <3>3. CASE j \in DOMAIN updates
      BY <1>7, <2>1, <3>1, <3>3 DEF UpdatesInv
    <3>4. CASE j \notin DOMAIN updates
      <4>1. updates[i] \in Nat
        BY <1>3, <2>1, <3>1 DEF UpdatesInv
      <4>. QED  BY <1>3, <1>7, <3>1, <3>2, <3>4, <4>1 DEF Ticks
    <3>. QED  BY <3>3, <3>4
  <2>4. ASSUME NEW m \in (mutates \cup applied)', NEW i \in DOMAIN updates',
               updates'[i] <= m.tick
        PROVE  updates'[i] <= m.update
    <3>1. CASE m \in new
      <4>1. m.update = updateTick' /\ updates'[i] \in Start..updateTick'
        BY <1>4, <2>2, <3>1
      <4>. QED  BY <1>3, <4>1
    <3>2. CASE m \in mutates \cup applied /\ i \in DOMAIN updates
      BY <1>7, <2>1, <2>4, <3>2 DEF UpdatesInv
    <3>3. CASE m \in mutates \cup applied /\ i \notin DOMAIN updates
      <4>1. updates'[i] = now' /\ m.tick < now' /\ m.tick \in Nat
        BY <1>3, <1>6, <1>7, <3>3
      <4>. QED  BY <1>3, <2>4, <4>1
    <3>. QED  BY <1>1, <1>2, <3>1, <3>2, <3>3
  <2>5. \A m \in mutates' : m.update <= updateTick'
    <3>1. ASSUME NEW m \in mutates PROVE m.update <= updateTick'
      <4>1. m.update \in Nat /\ m.update <= updateTick
        BY <1>3, <2>1 DEF IInv, TypeOK, MutateMessages, UpdatesInv
      <4>. QED  BY <1>3, <4>1
    <3>2. updateTick' <= updateTick'
      BY <1>3
    <3>. QED  BY <1>2, <1>4, <3>1, <3>2
  <2>6. ASSUME NEW t \in replicated, NEW i \in DOMAIN updates' PROVE t < updates'[i]
    <3>1. CASE i \in DOMAIN updates
      BY <1>7, <2>1, <3>1 DEF UpdatesInv
    <3>2. CASE i \notin DOMAIN updates
      <4>1. t \in Ticks
        BY DEF IInv, TypeOK
      <4>. QED  BY <1>3, <1>7, <3>2, <4>1
    <3>. QED  BY <3>1, <3>2
  <2>7. UpdatesInv(c)'
    BY <1>1, <2>1, <2>2, <2>3, <2>4, <2>5, <2>6 DEF UpdatesInv
  <2>. QED  BY <1>3, <2>7 DEF ClientTickInv
<1>12. ChangedInv'
  <2>1. ASSUME NEW t \in changed'
        PROVE  \/ t \in replicated
               \/ \E i \in DOMAIN updates' : updates'[i] = t
               \/ \E m \in (mutates \cup applied)' : m.tick = t /\ m.entity
    <3>0. t \in changed \/ (t = now' /\ (carried \/ updateTick' = now'))
      BY <2>1 DEF Sends
    <3>1. CASE t \in changed
      BY <1>1, <1>2, <1>7, <3>1 DEF IInv, ChangedInv
    <3>2. CASE t = now' /\ carried
      BY <1>2, <1>4, <3>2
    <3>3. CASE t = now' /\ updateTick' = now'
      BY <1>7, <3>3
    <3>. QED  BY <3>0, <3>1, <3>2, <3>3
  <2>. QED  BY <1>1, <2>1 DEF ChangedInv
<1>13. HistoryInv'
  <2>1. PICK h \in Ticks : MaskInv(h)
    BY DEF IInv, HistoryInv
  <2>2. MaskInv(h)'
    BY <1>1, <2>1 DEF MaskInv
  <2>. QED  BY <1>3, <2>2 DEF HistoryInv
<1>14. MutateTicksInv'
  <2>1. PICK l \in Ticks : WindowInv(l)
    BY DEF IInv, MutateTicksInv
  <2>2. WindowInv(l)'
    <3>1. \A t : AppliedOf(t)' = AppliedOf(t)
      BY <1>1 DEF AppliedOf
    <3>. QED  BY <1>1, <2>1, <3>1 DEF WindowInv, Counts
  <2>. QED  BY <1>3, <2>2 DEF MutateTicksInv
<1>15. ReceivedWhenComplete'
  <2>1. \A t : IsComplete(t)' <=> IsComplete(t)
    BY <1>1 DEF IsComplete
  <2>2. ~IsComplete(now') /\ now' \notin received
    <3>1. \A m \in applied : m.tick # now'
      BY <1>6, <1>3
    <3>. QED  BY <1>3, <3>1 DEF IsComplete, IInv, TypeOK
  <2>. QED  BY <1>1, <1>3, <2>1, <2>2 DEF ReceivedWhenComplete, IInv
<1>. QED  BY <1>8, <1>10, <1>11, <1>12, <1>13, <1>14, <1>15 DEF IInv

LEMMA TickStep ==
  ASSUME IInv, NEW acknowledged \in BOOLEAN, NEW mutated \in BOOLEAN,
         NEW count \in 1..MaxMessages, Tick(acknowledged, mutated, count)
  PROVE  IInv'
<1>1. carrying \in BOOLEAN /\ updateTick \in Nat /\ now \in Nat /\ updateTick <= now
      /\ changed \subseteq Ticks
  BY Widths DEF IInv, TypeOK, AllTicks
<1>2. carrying' \in BOOLEAN /\ (mutated => carrying')
  BY <1>1 DEF Tick
<1>3. updateTick' = updateTick /\ updateTick' # now'
  BY <1>1 DEF Tick
<1>4. /\ changed' \subseteq changed \cup {now'} /\ changed \subseteq changed'
      /\ now' \in changed' => mutated
  <2>1. now' \notin Ticks
    BY <1>1 DEF Tick, Ticks
  <2>. QED  BY <1>1, <2>1 DEF Tick
<1>5. Sends(carrying', count)
  BY <1>2, <1>3, <1>4 DEF Sends, Tick
<1>. QED  BY <1>2, <1>5, Sending

LEMMA InsertTickStep ==
  ASSUME IInv, NEW count \in 1..MaxMessages, InsertTick(count)
  PROVE  IInv'
<1>1. Sends(FALSE, count)
  BY DEF Sends, InsertTick
<1>. QED  BY <1>1, Sending

-----------------------------------------------------------------------------
(* The client's history.                                                   *)

\* The ticks so far are among those in play.
LEMMA TicksInPlay ==
  ASSUME TypeOK
  PROVE  /\ Ticks \subseteq InPlay /\ Ticks \subseteq Nat /\ Ticks \subseteq AllTicks
         /\ \A t \in Ticks : t >= Start
         /\ AllTicks \subseteq Nat /\ Windows = 0..(Bits - 1) /\ Windows \subseteq Nat
<1>1. Start \in Nat /\ MaxTicks \in Nat /\ now \in 0..(Start + MaxTicks) /\ Bits \in Nat
  BY Widths DEF TypeOK, AllTicks
<1>. QED  BY <1>1 DEF Ticks, AllTicks, InPlay, Windows

\* What a newer tick does to the history: unless it jumps by the window or more,
\* all that the mask has moves by the distance.
LEMMA HistoryMoves ==
  ASSUME TypeOK, NEW h \in Ticks, MaskInv(h), NEW t \in Ticks, h < t,
         NEW moved, moved = SetLastTick(history, Wire(t))
  PROVE  /\ moved \in [mask : SUBSET Windows, last : WireTicks]
         /\ moved.last = Wire(t)
         /\ JumpTo(t) \in AllTicks /\ JumpTo(t) <= t
         /\ \A s \in replicated \cup {t} : s <= t /\ (t - s < Bits => t - s \in moved.mask)
         /\ \A i \in moved.mask : t - i \in replicated \cup {t} \/ t - i < JumpTo(t)
<1>. DEFINE d == t - h
            shifted == WrappingShl(history.mask, d)
<1>1. /\ h \in Nat /\ t \in Nat /\ h \in InPlay /\ t \in InPlay /\ d \in Nat /\ d > 0
      /\ h \in AllTicks /\ t \in AllTicks /\ replicated \subseteq Nat
      /\ Bits \in Nat \ {0} /\ 0 \in Windows /\ Windows = 0..(Bits - 1) /\ Windows \subseteq Nat
      /\ history.mask \subseteq Windows /\ jump \in AllTicks /\ jump \in Nat
  <2>1. /\ Ticks \subseteq InPlay /\ Ticks \subseteq Nat /\ Ticks \subseteq AllTicks
        /\ AllTicks \subseteq Nat /\ Windows = 0..(Bits - 1) /\ Windows \subseteq Nat
    BY TicksInPlay
  <2>2. /\ replicated \subseteq Ticks /\ history.mask \subseteq Windows /\ jump \in AllTicks
    BY DEF TypeOK
  <2>3. Bits \in Nat \ {0}
    BY Widths
  <2>4. h \in Nat /\ t \in Nat /\ t - h \in Nat /\ t - h > 0
    BY <2>1
  <2>5. 0 \in Windows
    BY <2>1, <2>3
  <2>. QED  BY <2>1, <2>2, <2>3, <2>4, <2>5
<1>2. Minus(Wire(t), history.last) = d /\ Wire(t) \in WireTicks
  BY <1>1, Distance DEF MaskInv
<1>3. moved = [mask |-> shifted \cup {0}, last |-> Wire(t)]
  BY <1>2 DEF SetLastTick
<1>4. shifted \subseteq Windows
  BY <1>1 DEF WrappingShl
<1>5. JumpTo(t) = IF d >= Bits THEN t ELSE jump
  BY <1>2 DEF JumpTo
<1>6. jump <= h
  BY DEF MaskInv
<1>7. d < Bits => shifted = {i + d : i \in history.mask} \cap 0..(Bits - 1)
  <2>1. ASSUME d < Bits PROVE d % Bits = d
    <3>1. d \in 0..(Bits - 1)
      BY <1>1, <2>1
    <3>. HIDE DEF d
    <3>. QED  BY <1>1, <3>1, OwnRemainder
  <2>. QED  BY <2>1 DEF WrappingShl
<1>. HIDE DEF d, shifted
<1>8. ASSUME NEW s \in replicated \cup {t}
      PROVE  s <= t /\ (t - s < Bits => t - s \in moved.mask)
  <2>1. CASE s = t
    BY <1>1, <1>3, <2>1
  <2>2. CASE s \in replicated
    <3>1. s \in Nat /\ s <= h /\ s <= t
      BY <1>1, <2>2 DEF MaskInv
    <3>2. ASSUME t - s < Bits PROVE t - s \in moved.mask
      <4>1. h - s \in history.mask /\ t - s = (h - s) + d /\ d < Bits
        BY <1>1, <2>2, <3>1, <3>2 DEF MaskInv, d
      <4>2. t - s \in 0..(Bits - 1)
        BY <1>1, <3>1, <3>2
      <4>. QED  BY <1>3, <1>7, <4>1, <4>2
    <3>. QED  BY <3>1, <3>2
  <2>. QED  BY <2>1, <2>2
<1>9. ASSUME NEW i \in moved.mask
      PROVE  t - i \in replicated \cup {t} \/ t - i < JumpTo(t)
  <2>1. i \in Windows /\ i \in Nat
    BY <1>1, <1>3, <1>4
  <2>2. CASE i = 0
    BY <1>1, <2>2
  <2>3. CASE i # 0 /\ d >= Bits
    BY <1>1, <1>5, <2>1, <2>3
  <2>4. CASE i # 0 /\ d < Bits
    <3>1. PICK k \in history.mask : i = k + d
      BY <1>3, <1>7, <2>4
    <3>2. k \in Nat /\ h - k = t - i
      BY <1>1, <3>1 DEF d
    <3>3. h - k \in replicated \/ h - k < jump
      BY DEF MaskInv
    <3>4. JumpTo(t) = jump
      BY <1>1, <1>5, <2>4
    <3>. QED  BY <3>2, <3>3, <3>4
  <2>. QED  BY <1>1, <2>1, <2>2, <2>3, <2>4
<1>10. JumpTo(t) \in AllTicks /\ JumpTo(t) <= t
  BY <1>1, <1>5, <1>6
<1>11. moved \in [mask : SUBSET Windows, last : WireTicks] /\ moved.last = Wire(t)
  BY <1>1, <1>2, <1>3, <1>4
<1>. QED  BY <1>8, <1>9, <1>10, <1>11

\* Each action keeps the invariant.
LEMMA ApplyUpdateStep ==
  ASSUME IInv, ApplyUpdate
  PROVE  IInv'
<1>0. PICK u : u = Head(updates)
  OBVIOUS
<1>1. /\ updates # <<>> /\ updates' = Tail(updates) /\ clientTick' = Wire(u)
      /\ history' = SetLastTick(history, Wire(u))
      /\ replicated' = replicated \cup {u} /\ jump' = JumpTo(u)
  BY <1>0 DEF ApplyUpdate
<1>2. /\ UNCHANGED <<now, updateTick, changed, carrying>>
      /\ UNCHANGED <<mutates, needHistory, mutateTicks, received, applied, late>>
  BY DEF ApplyUpdate, server
<1>3. PICK c \in Ticks : UpdatesInv(c)
  BY DEF IInv, ClientTickInv
<1>4. PICK h \in Ticks : MaskInv(h)
  BY DEF IInv, HistoryInv
<1>5. /\ updates \in Seq(AllTicks) /\ updates' \in Seq(AllTicks)
      /\ 1 \in DOMAIN updates /\ u = updates[1]
      /\ DOMAIN updates \subseteq Nat
      /\ \A i \in DOMAIN updates' : i + 1 \in DOMAIN updates /\ updates'[i] = updates[i + 1]
      /\ DOMAIN updates' \subseteq Nat \ {0}
      /\ \A i \in DOMAIN updates : i = 1 \/ \E k \in DOMAIN updates' : i = k + 1
  <2>1. updates \in Seq(AllTicks) /\ Len(updates) \in Nat /\ Len(updates) >= 1
    BY <1>1 DEF IInv, TypeOK
  <2>2. /\ updates' \in Seq(AllTicks) /\ Len(updates') = Len(updates) - 1
        /\ \A i \in 1..(Len(updates) - 1) : updates'[i] = updates[i + 1]
    BY <1>1, <2>1
  <2>3. DOMAIN updates = 1..Len(updates) /\ DOMAIN updates' = 1..(Len(updates) - 1)
    BY <2>1, <2>2
  <2>4. u = updates[1]
    BY <1>0, <2>1
  <2>5. ASSUME NEW i \in DOMAIN updates, i # 1 PROVE \E k \in DOMAIN updates' : i = k + 1
    <3>1. i - 1 \in DOMAIN updates' /\ i = (i - 1) + 1
      BY <2>1, <2>3, <2>5
    <3>. QED  BY <3>1
  <2>. QED  BY <2>1, <2>2, <2>3, <2>4, <2>5
<1>6. /\ Ticks \subseteq InPlay /\ Ticks \subseteq Nat /\ Ticks \subseteq AllTicks
      /\ replicated \subseteq Ticks /\ Ticks' = Ticks
  BY <1>2, TicksInPlay DEF IInv, TypeOK, Ticks
<1>a. \A m \in applied : m.tick \in Nat /\ m.update \in Nat
  <2>1. AllTicks \subseteq Nat
    BY TicksInPlay DEF IInv
  <2>2. applied \subseteq MutateMessages
    BY DEF IInv, TypeOK
  <2>. QED  BY <2>1, <2>2 DEF MutateMessages
<1>7. u \in Ticks /\ c < u /\ h < u /\ u <= updateTick
  <2>1. u \in Start..updateTick /\ c < u /\ h < u
    BY <1>3, <1>4, <1>5 DEF UpdatesInv, MaskInv
  <2>2. Start \in Nat /\ updateTick \in Nat /\ now \in Nat /\ updateTick <= now
    BY Widths DEF IInv, TypeOK, AllTicks
  <2>. QED  BY <2>1, <2>2 DEF Ticks
<1>8. /\ history' \in [mask : SUBSET Windows, last : WireTicks]
      /\ history'.last = Wire(u)
      /\ jump' \in AllTicks /\ jump' <= u
      /\ \A s \in replicated' : s <= u /\ (u - s < Bits => u - s \in history'.mask)
      /\ \A i \in history'.mask : u - i \in replicated' \/ u - i < jump'
  BY <1>1, <1>4, <1>7, HistoryMoves DEF IInv
<1>9. Wire(u) \in WireTicks
  BY <1>6, <1>7, Distance
<1>10. TypeOK'
  <2>1. /\ now \in AllTicks /\ updateTick \in AllTicks /\ carrying \in BOOLEAN
        /\ Start <= updateTick /\ updateTick <= now
        /\ changed \subseteq Ticks /\ needHistory \in BOOLEAN
        /\ mutates \subseteq MutateMessages /\ applied \subseteq MutateMessages
        /\ mutateTicks \in [ticks : [Windows -> [count : 0..MaxMessages,
                                                 received : 0..MaxMessages]],
                            last : WireTicks]
        /\ replicated \cup received \cup late \subseteq Ticks
    BY DEF IInv, TypeOK
  <2>2. replicated' \cup received' \cup late' \subseteq Ticks
    BY <1>1, <1>2, <1>7, <2>1
  <2>. QED  BY <1>1, <1>2, <1>5, <1>6, <1>8, <1>9, <2>1, <2>2 DEF TypeOK
<1>11. BatchesInv'
  BY <1>2, <1>6 DEF IInv, BatchesInv, MessagesOf
<1>12. ClientTickInv'
  <2>1. \A i \in DOMAIN updates' : updates'[i] \in Start..updateTick /\ u < updates'[i]
    <3>. TAKE i \in DOMAIN updates'
    <3>1. 1 < i + 1
      BY <1>5
    <3>. QED  BY <1>3, <1>5, <3>1 DEF UpdatesInv
  <2>2. \A i, j \in DOMAIN updates' : i < j => updates'[i] < updates'[j]
    <3>. TAKE i, j \in DOMAIN updates'
    <3>. HAVE i < j
    <3>1. i + 1 < j + 1
      BY <1>5
    <3>. QED  BY <1>3, <1>5, <3>1 DEF UpdatesInv
  <2>3. \A m \in mutates \cup applied, i \in DOMAIN updates' :
          updates'[i] <= m.tick => updates'[i] <= m.update
    BY <1>3, <1>5 DEF UpdatesInv
  <2>4. ASSUME NEW m \in applied PROVE m.update <= u
    <3>1. m.update \in Nat /\ m.update <= c
      BY <1>3, <1>a DEF UpdatesInv
    <3>. QED  BY <1>6, <1>7, <3>1
  <2>5. \A t \in replicated', i \in DOMAIN updates' : t < updates'[i]
    BY <1>1, <1>3, <1>5, <2>1 DEF UpdatesInv
  <2>6. UpdatesInv(u)'
    BY <1>1, <1>2, <1>3, <2>1, <2>2, <2>3, <2>4, <2>5 DEF UpdatesInv
  <2>. QED  BY <1>6, <1>7, <2>6 DEF ClientTickInv
<1>13. ChangedInv'
  <2>1. ASSUME NEW t \in changed, NEW i \in DOMAIN updates, updates[i] = t
        PROVE  t \in replicated' \/ \E k \in DOMAIN updates' : updates'[k] = t
    BY <1>1, <1>5, <2>1
  <2>. QED  BY <1>1, <1>2, <2>1 DEF IInv, ChangedInv
<1>14. HistoryInv'
  <2>1. ASSUME needHistory, NEW m \in applied, m.entity
        PROVE  m.tick \in replicated' \/ u - m.tick >= Bits
    <3>1. m.tick \in replicated \/ h - m.tick >= Bits
      BY <1>4, <2>1 DEF MaskInv
    <3>2. m.tick \in Nat
      BY <1>a
    <3>3. h \in Nat /\ u \in Nat /\ h < u /\ Bits \in Nat
      BY <1>6, <1>7, Widths
    <3>4. h - m.tick >= Bits => u - m.tick >= Bits
      BY <3>2, <3>3
    <3>. QED  BY <1>1, <3>1, <3>4
  <2>2. MaskInv(u)'
    BY <1>1, <1>2, <1>8, <2>1 DEF MaskInv
  <2>. QED  BY <1>6, <1>7, <2>2 DEF HistoryInv
<1>15. MutateTicksInv'
  <2>1. PICK l \in Ticks : WindowInv(l)
    BY DEF IInv, MutateTicksInv
  <2>2. \A t : AppliedOf(t)' = AppliedOf(t)
    BY <1>2 DEF AppliedOf
  <2>3. WindowInv(l)'
    BY <1>2, <2>1, <2>2 DEF WindowInv, Counts
  <2>. QED  BY <1>6, <2>3 DEF MutateTicksInv
<1>16. ReceivedWhenComplete'
  BY <1>2, <1>6 DEF IInv, ReceivedWhenComplete, IsComplete
<1>. QED  BY <1>10, <1>11, <1>12, <1>13, <1>14, <1>15, <1>16 DEF IInv

-----------------------------------------------------------------------------
(* The client applies a mutate message.                                    *)

\* What is known of a message in transit.
LEMMA InTransit ==
  ASSUME TypeOK, BatchesInv, NEW m \in mutates
  PROVE  /\ m \in MutateMessages /\ m \notin applied /\ m \in MessagesOf(m.tick)
         /\ m.tick \in Ticks /\ m.update \in Ticks
         /\ m.count \in 1..MaxMessages /\ m.entity \in BOOLEAN
<1>1. m \in MutateMessages /\ m \notin applied /\ m.tick \in Ticks
  BY DEF TypeOK, BatchesInv
<1>2. m \in MessagesOf(m.tick)
  BY DEF MessagesOf
<1>3. m.update \in Ticks
  <2>1. PICK carriers \in SUBSET {1}, count \in 1..MaxMessages, update \in Ticks :
          MessagesOf(m.tick) = Batch(m.tick, carriers, count, update)
    BY <1>1 DEF BatchesInv
  <2>. QED  BY <1>2, <2>1 DEF Batch
<1>. QED  BY <1>1, <1>2, <1>3 DEF MutateMessages

\* The window moves on to a later tick: the entries stay those of their ticks.
LEMMA WindowMoves ==
  ASSUME TypeOK, NEW l \in Ticks, WindowInv(l), NEW t \in Ticks,
         NEW k, k = IF t > l THEN t ELSE l,
         NEW moved, moved = MovedTo(mutateTicks, Wire(t))
  PROVE  /\ moved \in [ticks : [Windows -> [count : 0..MaxMessages, received : 0..MaxMessages]],
                       last : WireTicks]
         /\ moved.last = Wire(k)
         /\ \A i \in Windows : Counts(moved.ticks[i], k - i)
<1>1. /\ l \in Nat /\ t \in Nat /\ l \in InPlay /\ t \in InPlay
      /\ Windows = 0..(Bits - 1) /\ Windows \subseteq Nat /\ Bits \in Nat
      /\ MaxMessages \in Nat
  BY TicksInPlay, Widths, BoundsAssumption
<1>2. mutateTicks \in [ticks : [Windows -> [count : 0..MaxMessages, received : 0..MaxMessages]],
                       last : WireTicks]
  BY DEF TypeOK
<1>3. mutateTicks.last = Wire(l) /\ \A i \in Windows : Counts(mutateTicks.ticks[i], l - i)
  BY DEF WindowInv
<1>4. Newer(Wire(t), mutateTicks.last) <=> t > l
  BY <1>1, <1>3, NewerIsLater
<1>5. CASE ~(t > l)
  BY <1>2, <1>3, <1>4, <1>5 DEF MovedTo
<1>6. CASE t > l
  <2>. DEFINE d == t - l
              ticks == Shifted(mutateTicks.ticks, d)
  <2>1. d \in Nat /\ d > 0 /\ k = t /\ Wire(t) \in WireTicks
        /\ Minus(Wire(t), mutateTicks.last) = d
    BY <1>1, <1>3, <1>6, Distance
  <2>2. moved = [ticks |-> ticks, last |-> Wire(t)]
    BY <1>4, <1>6, <2>1 DEF MovedTo
  <2>3. \A i \in Windows : ticks[i] = IF i < d THEN NoMessages ELSE mutateTicks.ticks[i - d]
    BY <1>1 DEF Shifted
  <2>4. ticks = [i \in Windows |-> ticks[i]]
    BY <1>1 DEF Shifted
  <2>5. ASSUME NEW i \in Windows
        PROVE  /\ ticks[i] \in [count : 0..MaxMessages, received : 0..MaxMessages]
               /\ Counts(ticks[i], t - i)
    <3>. HIDE DEF ticks
    <3>1. CASE i < d
      <4>1. i \in Nat /\ t - i > l
        BY <1>1, <3>1
      <4>2. ASSUME NEW m \in applied PROVE m.tick # t - i
        <5>1. m.tick <= l /\ m.tick \in Nat
          BY TicksInPlay DEF WindowInv, TypeOK, MutateMessages
        <5>. QED  BY <1>1, <4>1, <5>1
      <4>3. AppliedOf(t - i) = {}
        BY <4>2 DEF AppliedOf
      <4>4. Cardinality(AppliedOf(t - i)) = 0
        BY <4>3, FS_EmptySet
      <4>5. ticks[i] = [count |-> 0, received |-> 0]
        BY <2>3, <3>1 DEF NoMessages
      <4>6. 0 \in 0..MaxMessages
        BY <1>1
      <4>. QED  BY <4>3, <4>4, <4>5, <4>6 DEF Counts
    <3>2. CASE ~(i < d)
      <4>1. i - d \in Windows /\ l - (i - d) = t - i
        BY <1>1, <2>1, <3>2
      <4>2. ticks[i] = mutateTicks.ticks[i - d]
        BY <2>3, <3>2
      <4>3. Counts(mutateTicks.ticks[i - d], l - (i - d))
        BY <1>3, <4>1
      <4>. QED  BY <1>2, <4>1, <4>2, <4>3
    <3>. QED  BY <3>1, <3>2
  <2>. HIDE DEF ticks, d
  <2>6. ticks \in [Windows -> [count : 0..MaxMessages, received : 0..MaxMessages]]
    BY <2>4, <2>5
  <2>7. moved.ticks = ticks /\ moved.last = Wire(k)
        /\ moved \in [ticks : [Windows -> [count : 0..MaxMessages, received : 0..MaxMessages]],
                      last : WireTicks]
    BY <2>1, <2>2, <2>6
  <2>. QED  BY <2>1, <2>5, <2>7
<1>. QED  BY <1>5, <1>6

\* The place of a tick in a window.
LEMMA Position ==
  ASSUME NEW k \in Nat, NEW t \in Nat, t <= k, k - t < Bits
  PROVE  k - t \in Windows /\ k - (k - t) = t
BY Widths DEF Windows

\* What ServerMutateTicks::confirm does for a message in transit.
LEMMA Confirms ==
  ASSUME TypeOK, BatchesInv, NEW l \in Ticks, WindowInv(l), NEW m \in mutates,
         NEW k, k = IF m.tick > l THEN m.tick ELSE l,
         NEW confirmed, confirmed = Confirm(mutateTicks, Wire(m.tick), m.count)
  PROVE  /\ confirmed \in [ticks : [Windows -> [count : 0..MaxMessages,
                                                received : 0..MaxMessages]],
                           last : WireTicks]
         /\ confirmed.last = Wire(k)
         /\ Minus(confirmed.last, Wire(m.tick)) = k - m.tick
         /\ k - m.tick < Bits =>
              confirmed.ticks[k - m.tick] =
                [count |-> m.count, received |-> Cardinality(AppliedOf(m.tick)) + 1]
         /\ \A i \in Windows : k - i # m.tick => Counts(confirmed.ticks[i], k - i)
<1>. DEFINE moved == MovedTo(mutateTicks, Wire(m.tick))
            ago   == k - m.tick
            entry == [count |-> m.count, received |-> moved.ticks[ago].received + 1]
<1>1. m.tick \in Ticks /\ m.count \in 1..MaxMessages /\ m \in MessagesOf(m.tick)
  BY InTransit
<1>2. /\ l \in Nat /\ m.tick \in Nat /\ k \in Nat /\ k \in InPlay /\ m.tick \in InPlay
      /\ m.tick <= k
      /\ Windows = 0..(Bits - 1) /\ Windows \subseteq Nat /\ Bits \in Nat /\ MaxMessages \in Nat
  BY <1>1, TicksInPlay, Widths, BoundsAssumption
<1>3. /\ moved \in [ticks : [Windows -> [count : 0..MaxMessages, received : 0..MaxMessages]],
                    last : WireTicks]
      /\ moved.last = Wire(k)
      /\ \A i \in Windows : Counts(moved.ticks[i], k - i)
  BY <1>1, WindowMoves
<1>4. Minus(Wire(k), Wire(m.tick)) = ago
  BY <1>2, Distance
<1>. HIDE DEF moved
<1>5. confirmed = IF ago < Bits THEN [moved EXCEPT !.ticks[ago] = entry] ELSE moved
  BY <1>3, <1>4 DEF Confirm, moved
<1>6. CASE ~(ago < Bits)
  BY <1>3, <1>4, <1>5, <1>6
<1>7. CASE ago < Bits
  <2>1. ago \in Windows /\ k - ago = m.tick
    BY <1>2, <1>7, Position
  <2>2. Counts(moved.ticks[ago], m.tick)
    BY <1>3, <2>1
  <2>3. entry.received = Cardinality(AppliedOf(m.tick)) + 1 /\ entry.count = m.count
    BY <2>2 DEF Counts
  <2>4. /\ Cardinality(AppliedOf(m.tick)) < m.count
        /\ Cardinality(AppliedOf(m.tick)) \in Nat
    BY <1>1, CompleteWhenApplied, AppliedIsFinite
  <2>5. Cardinality(AppliedOf(m.tick)) + 1 \in 0..MaxMessages /\ m.count \in 0..MaxMessages
    BY <1>1, <1>2, <2>4
  <2>6. entry = [count |-> m.count, received |-> Cardinality(AppliedOf(m.tick)) + 1]
    BY <2>3
  <2>. HIDE DEF entry, ago
  <2>7. entry \in [count : 0..MaxMessages, received : 0..MaxMessages]
    BY <2>5, <2>6
  <2>8. confirmed = [moved EXCEPT !.ticks[ago] = entry]
    BY <1>5, <1>7
  <2>9. /\ confirmed \in [ticks : [Windows -> [count : 0..MaxMessages,
                                               received : 0..MaxMessages]],
                          last : WireTicks]
        /\ confirmed.last = moved.last
        /\ confirmed.ticks[ago] = entry
        /\ \A i \in Windows : i # ago => confirmed.ticks[i] = moved.ticks[i]
    BY <1>3, <2>1, <2>7, <2>8
  <2>10. ASSUME NEW i \in Windows, k - i # m.tick PROVE Counts(confirmed.ticks[i], k - i)
    <3>1. i # ago
      BY <2>1, <2>10
    <3>. QED  BY <1>3, <2>9, <3>1
  <2>11. Minus(confirmed.last, Wire(m.tick)) = k - m.tick
    BY <1>3, <1>4, <2>9 DEF ago
  <2>12. confirmed.ticks[k - m.tick] =
           [count |-> m.count, received |-> Cardinality(AppliedOf(m.tick)) + 1]
    BY <2>6, <2>9 DEF ago
  <2>. QED  BY <1>3, <2>9, <2>10, <2>11, <2>12
<1>. QED  BY <1>6, <1>7

\* After another of a tick's messages, there is one more.
LEMMA OneMore ==
  ASSUME TypeOK, BatchesInv, NEW m \in mutates, applied' = applied \cup {m}
  PROVE  /\ AppliedOf(m.tick)' = AppliedOf(m.tick) \cup {m}
         /\ Cardinality(AppliedOf(m.tick)') = Cardinality(AppliedOf(m.tick)) + 1
         /\ \A n \in AppliedOf(m.tick)' : n.count = m.count
         /\ \A t : t # m.tick => AppliedOf(t)' = AppliedOf(t)
         /\ ~IsComplete(m.tick)
         /\ IsComplete(m.tick)' <=> Cardinality(AppliedOf(m.tick)) + 1 = m.count
         /\ \A t : t # m.tick => (IsComplete(t)' <=> IsComplete(t))
<1>1. m.tick \in Ticks /\ m \in MessagesOf(m.tick) /\ m \notin applied
  BY InTransit
<1>2. AppliedOf(m.tick)' = AppliedOf(m.tick) \cup {m}
  BY DEF AppliedOf
<1>3. \A t : t # m.tick => AppliedOf(t)' = AppliedOf(t)
  BY DEF AppliedOf
<1>4. IsFiniteSet(AppliedOf(m.tick)) /\ m \notin AppliedOf(m.tick)
  BY <1>1, AppliedIsFinite DEF AppliedOf
<1>5. Cardinality(AppliedOf(m.tick) \cup {m}) = Cardinality(AppliedOf(m.tick)) + 1
  BY <1>4, FS_AddElement
<1>6. AppliedOf(m.tick) \subseteq MessagesOf(m.tick)
  BY DEF AppliedOf, MessagesOf
<1>7. \A n \in AppliedOf(m.tick) \cup {m} : n.count = m.count
  <2>1. \A n, o \in MessagesOf(m.tick) : n.count = o.count
    BY <1>1, CompleteWhenApplied
  <2>. QED  BY <1>1, <1>6, <2>1
<1>8. ~IsComplete(m.tick)
  <2>1. IsComplete(m.tick) <=> MessagesOf(m.tick) \subseteq applied
    BY <1>1, CompleteWhenApplied
  <2>. QED  BY <1>1, <2>1
<1>9. \A t : IsComplete(t)' <=> \E n \in AppliedOf(t)' : Cardinality(AppliedOf(t)') = n.count
  BY DEF IsComplete, AppliedOf
<1>10. \A t : IsComplete(t) <=> \E n \in AppliedOf(t) : Cardinality(AppliedOf(t)) = n.count
  BY DEF IsComplete, AppliedOf
<1>11. IsComplete(m.tick)' <=> Cardinality(AppliedOf(m.tick)) + 1 = m.count
  BY <1>2, <1>5, <1>7, <1>9
<1>12. \A t : t # m.tick => (IsComplete(t)' <=> IsComplete(t))
  BY <1>3, <1>9, <1>10
<1>. QED  BY <1>2, <1>3, <1>5, <1>7, <1>8, <1>11, <1>12

\* The window of mutate messages and the event, after a mutate message.
LEMMA WindowStep ==
  ASSUME IInv, NEW m \in mutates, ApplyMutate(m)
  PROVE  /\ mutateTicks' \in [ticks : [Windows -> [count : 0..MaxMessages,
                                                   received : 0..MaxMessages]],
                              last : WireTicks]
         /\ received' \subseteq received \cup {m.tick} /\ late' \subseteq late \cup {m.tick}
         /\ MutateTicksInv' /\ ReceivedWhenComplete'
<1>. DEFINE t == m.tick
            confirmed == Confirm(mutateTicks, Wire(t), m.count)
<1>1. PICK l \in Ticks : WindowInv(l)
  BY DEF IInv, MutateTicksInv
<1>2. PICK k : k = IF t > l THEN t ELSE l
  OBVIOUS
<1>3. TypeOK /\ BatchesInv
  BY DEF IInv
<1>4. /\ mutateTicks' = confirmed /\ applied' = applied \cup {m} /\ Ticks' = Ticks
      /\ received' = IF Confirmed(confirmed, Wire(t)) THEN received \cup {t} ELSE received
      /\ late' = IF \E n \in applied : n.tick >= t + Bits THEN late \cup {t} ELSE late
  BY DEF ApplyMutate, server, Ticks
<1>5. t \in Ticks /\ m.count \in 1..MaxMessages
  BY <1>3, InTransit
<1>6. /\ confirmed \in [ticks : [Windows -> [count : 0..MaxMessages,
                                             received : 0..MaxMessages]],
                        last : WireTicks]
      /\ confirmed.last = Wire(k)
      /\ Minus(confirmed.last, Wire(t)) = k - t
      /\ k - t < Bits =>
           confirmed.ticks[k - t] =
             [count |-> m.count, received |-> Cardinality(AppliedOf(t)) + 1]
      /\ \A i \in Windows : k - i # t => Counts(confirmed.ticks[i], k - i)
  BY <1>1, <1>2, <1>3, Confirms
<1>7. /\ AppliedOf(t)' = AppliedOf(t) \cup {m}
      /\ Cardinality(AppliedOf(t)') = Cardinality(AppliedOf(t)) + 1
      /\ \A n \in AppliedOf(t)' : n.count = m.count
      /\ \A s : s # t => AppliedOf(s)' = AppliedOf(s)
      /\ ~IsComplete(t)
      /\ IsComplete(t)' <=> Cardinality(AppliedOf(t)) + 1 = m.count
      /\ \A s : s # t => (IsComplete(s)' <=> IsComplete(s))
  BY <1>3, <1>4, OneMore
<1>8. /\ \A n \in applied : n.tick \in Nat /\ n.tick <= l
      /\ \E n \in applied : n.tick = l
      /\ \A s \in late : s \in Nat /\ l - s >= Bits
  <2>1. \A n \in applied : n.tick \in Nat
    BY <1>3, TicksInPlay DEF BatchesInv
  <2>2. \A s \in late : s \in Nat
    BY <1>3, TicksInPlay DEF TypeOK
  <2>. QED  BY <1>1, <2>1, <2>2 DEF WindowInv
<1>. HIDE DEF confirmed
<1>a. l \in Nat /\ t \in Nat /\ Bits \in Nat \ {0} /\ Windows = 0..(Bits - 1) /\ Ticks \subseteq Nat
  BY <1>1, <1>3, <1>5, TicksInPlay, Widths
<1>. HIDE DEF t
<1>9. /\ k \in Ticks /\ k \in Nat /\ l <= k /\ t <= k
      /\ k = l \/ k = t
  BY <1>1, <1>2, <1>5, <1>a
<1>10. WindowInv(k)'
  <2>1. ASSUME NEW n \in applied' PROVE n.tick <= k
    <3>1. CASE n = m
      BY <1>9, <3>1 DEF t
    <3>2. CASE n \in applied
      BY <1>8, <1>9, <1>a, <3>2
    <3>. QED  BY <1>4, <3>1, <3>2
  <2>2. \E n \in applied' : n.tick = k
    <3>1. CASE k = l
      BY <1>4, <1>8, <3>1
    <3>2. CASE k = t
      BY <1>4, <3>2 DEF t
    <3>. QED  BY <1>9, <3>1, <3>2
  <2>3. ASSUME NEW i \in Windows PROVE Counts(mutateTicks.ticks[i], k - i)'
    <3>1. CASE k - i = t
      <4>1. k - t = i /\ k - t < Bits
        BY <1>9, <1>a, <3>1
      <4>2. mutateTicks'.ticks[i] =
              [count |-> m.count, received |-> Cardinality(AppliedOf(t)) + 1]
        BY <1>4, <1>6, <4>1
      <4>3. /\ mutateTicks'.ticks[i].received = Cardinality(AppliedOf(t)')
            /\ mutateTicks'.ticks[i].count = m.count
        BY <1>7, <4>2
      <4>4. AppliedOf(t)' # {} /\ AppliedOf(k - i)' = AppliedOf(t)'
        BY <1>7, <3>1
      <4>. QED  BY <1>7, <4>3, <4>4 DEF Counts
    <3>2. CASE k - i # t
      <4>1. AppliedOf(k - i)' = AppliedOf(k - i)
        BY <1>7, <3>2
      <4>2. Counts(confirmed.ticks[i], k - i)
        BY <1>6, <3>2
      <4>. QED  BY <1>4, <4>1, <4>2 DEF Counts
    <3>. QED  BY <3>1, <3>2
  <2>4. ASSUME NEW s \in late' PROVE k - s >= Bits
    <3>1. CASE s \in late
      BY <1>8, <1>9, <1>a, <3>1
    <3>2. CASE s = t /\ \E n \in applied : n.tick >= t + Bits
      BY <1>8, <1>9, <1>a, <3>2
    <3>. QED  BY <1>4, <2>4, <3>1, <3>2
  <2>. QED  BY <1>4, <1>6, <2>1, <2>2, <2>3, <2>4 DEF WindowInv
<1>11. t \in late' <=> k - t >= Bits
  <2>1. CASE k - t >= Bits
    <3>1. k # t
      BY <1>9, <1>a, <2>1
    <3>2. l >= t + Bits
      BY <1>9, <1>a, <2>1, <3>1
    <3>3. \E n \in applied : n.tick >= t + Bits
      BY <1>8, <3>2
    <3>. QED  BY <1>4, <2>1, <3>3
  <2>2. CASE k - t < Bits
    <3>1. t \notin late
      BY <1>8, <1>9, <1>a, <2>2
    <3>2. ~\E n \in applied : n.tick >= t + Bits
      BY <1>8, <1>9, <1>a, <2>2
    <3>. QED  BY <1>9, <1>a, <1>4, <2>2, <3>1, <3>2
  <2>. QED  BY <1>9, <1>a, <2>1, <2>2
<1>12. Confirmed(confirmed, Wire(t)) <=>
         k - t < Bits /\ Cardinality(AppliedOf(t)) + 1 = m.count
  <2>1. m.count # 0
    BY <1>5
  <2>. QED  BY <1>6, <2>1 DEF Confirmed, AllReceived
<1>13. ASSUME NEW s \in Ticks
       PROVE  s \in received' <=> IsComplete(s)' /\ s \notin late'
  <2>1. s \in received <=> IsComplete(s) /\ s \notin late
    BY DEF IInv, ReceivedWhenComplete
  <2>2. CASE s = t
    <3>1. t \notin received
      BY <1>7, <2>1, <2>2
    <3>2. t \in received' <=> Confirmed(confirmed, Wire(t))
      BY <1>4, <3>1
    <3>3. t \notin late' <=> k - t < Bits
      BY <1>9, <1>11, <1>a
    <3>. QED  BY <1>7, <1>12, <2>2, <3>2, <3>3
  <2>3. CASE s # t
    <3>1. (s \in received' <=> s \in received) /\ (s \in late' <=> s \in late)
      BY <1>4, <2>3
    <3>. QED  BY <1>7, <2>1, <2>3, <3>1
  <2>. QED  BY <2>2, <2>3
<1>14. ReceivedWhenComplete'
  BY <1>4, <1>13 DEF ReceivedWhenComplete
<1>15. MutateTicksInv'
  BY <1>4, <1>9, <1>10 DEF MutateTicksInv
<1>. QED  BY <1>4, <1>6, <1>14, <1>15 DEF t

\* The history of the entity, after a mutate message.
LEMMA HistoryStep ==
  ASSUME IInv, NEW m \in mutates, ApplyMutate(m)
  PROVE  /\ history' \in [mask : SUBSET Windows, last : WireTicks] /\ jump' \in AllTicks
         /\ replicated \subseteq replicated' /\ replicated' \subseteq replicated \cup {m.tick}
         /\ HistoryInv'
<1>. DEFINE t == m.tick
            ago == Minus(history.last, Wire(t))
            newer == Newer(Wire(t), history.last)
            older == ~newer /\ needHistory /\ ago < Bits
<1>1. PICK h \in Ticks : MaskInv(h)
  BY DEF IInv, HistoryInv
<1>2. TypeOK /\ BatchesInv
  BY DEF IInv
<1>3. applied' = applied \cup {m} /\ Ticks' = Ticks /\ needHistory' = needHistory
  BY DEF ApplyMutate, server, Ticks
<1>4. CASE ~m.entity
  <2>1. UNCHANGED <<history, replicated, jump>>
    BY <1>4 DEF ApplyMutate
  <2>2. MaskInv(h)'
    BY <1>1, <1>3, <1>4, <2>1 DEF MaskInv
  <2>. QED  BY <1>1, <1>2, <1>3, <2>1, <2>2 DEF HistoryInv, TypeOK
<1>5. CASE m.entity
  <2>1. /\ history' = CASE newer -> SetLastTick(history, Wire(t))
                        [] older -> Set(history, ago)
                        [] OTHER -> history
        /\ replicated' = IF newer \/ older THEN replicated \cup {t} ELSE replicated
        /\ jump' = IF newer THEN JumpTo(t) ELSE jump
    BY <1>5 DEF ApplyMutate, ApplyMutations, OlderConfirmed
  <2>2. /\ t \in Ticks /\ t \in Nat /\ h \in Nat /\ t \in InPlay /\ h \in InPlay
        /\ Bits \in Nat /\ Windows = 0..(Bits - 1)
    BY <1>1, <1>2, InTransit, TicksInPlay, Widths
  <2>3. /\ \A n \in applied : n.tick \in Nat
        /\ replicated \subseteq Nat
    BY <1>2, TicksInPlay DEF BatchesInv, TypeOK
  <2>4. newer <=> t > h
    BY <1>1, <2>2, NewerIsLater DEF MaskInv
  <2>5. t <= h => ago = h - t
    BY <1>1, <2>2, Distance DEF MaskInv
  <2>. HIDE DEF ago, newer, t
  <2>6. CASE newer
    <3>1. /\ history' = SetLastTick(history, Wire(t)) /\ replicated' = replicated \cup {t}
          /\ jump' = JumpTo(t) /\ h < t
      BY <2>1, <2>2, <2>4, <2>6
    <3>2. /\ history' \in [mask : SUBSET Windows, last : WireTicks]
          /\ history'.last = Wire(t)
          /\ jump' \in AllTicks /\ jump' <= t
          /\ \A s \in replicated' : s <= t /\ (t - s < Bits => t - s \in history'.mask)
          /\ \A i \in history'.mask : t - i \in replicated' \/ t - i < jump'
      BY <1>1, <1>2, <2>2, <3>1, HistoryMoves
    <3>3. ASSUME needHistory, NEW n \in applied', n.entity
          PROVE  n.tick \in replicated' \/ t - n.tick >= Bits
      <4>1. CASE n = m
        BY <3>1, <4>1 DEF t
      <4>2. CASE n \in applied
        <5>1. n.tick \in replicated \/ h - n.tick >= Bits
          BY <1>1, <3>3, <4>2 DEF MaskInv
        <5>2. h - n.tick >= Bits => t - n.tick >= Bits
          BY <2>2, <2>3, <3>1, <4>2
        <5>. QED  BY <3>1, <5>1, <5>2
      <4>. QED  BY <1>3, <3>3, <4>1, <4>2
    <3>4. PICK e : e = t
      OBVIOUS
    <3>5. MaskInv(e)'
      BY <1>3, <3>1, <3>2, <3>3, <3>4 DEF MaskInv
    <3>6. HistoryInv'
      BY <1>3, <2>2, <3>4, <3>5 DEF HistoryInv
    <3>. QED  BY <3>1, <3>2, <3>6 DEF t
  <2>7. CASE older
    <3>1. ~newer /\ needHistory /\ ago < Bits /\ t <= h /\ ago = h - t
      BY <2>2, <2>4, <2>5, <2>7
    <3>2. /\ history' = Set(history, ago) /\ replicated' = replicated \cup {t} /\ jump' = jump
      BY <2>1, <2>7, <3>1
    <3>3. ago \in Windows /\ h - ago = t
      BY <2>2, <3>1
    <3>4. /\ history' \in [mask : SUBSET Windows, last : WireTicks]
          /\ history'.mask = history.mask \cup {ago} /\ history'.last = history.last
      BY <1>2, <3>2, <3>3 DEF Set, TypeOK
    <3>5. /\ h \in replicated' /\ (\A s \in replicated' : s <= h) /\ jump' <= h
          /\ history'.last = Wire(h)
      BY <1>1, <3>1, <3>2, <3>4 DEF MaskInv
    <3>6. \A s \in replicated' : h - s < Bits => h - s \in history'.mask
      BY <1>1, <3>1, <3>2, <3>4 DEF MaskInv
    <3>7. \A i \in history'.mask : h - i \in replicated' \/ h - i < jump'
      BY <1>1, <3>2, <3>3, <3>4 DEF MaskInv
    <3>8. \A n \in applied' : n.entity => n.tick \in replicated' \/ h - n.tick >= Bits
      BY <1>1, <1>3, <3>1, <3>2 DEF MaskInv, t
    <3>9. MaskInv(h)'
      BY <3>5, <3>6, <3>7, <3>8 DEF MaskInv
    <3>. QED  BY <1>1, <1>2, <1>3, <3>2, <3>4, <3>9 DEF HistoryInv, TypeOK, t
  <2>8. CASE ~newer /\ ~older
    <3>1. t <= h /\ ago = h - t /\ (needHistory => h - t >= Bits)
      BY <2>2, <2>4, <2>5, <2>8
    <3>2. history' = history /\ replicated' = replicated /\ jump' = jump
      BY <2>1, <2>8
    <3>3. MaskInv(h)'
      BY <1>1, <1>3, <3>1, <3>2 DEF MaskInv, t
    <3>. QED  BY <1>1, <1>2, <1>3, <3>2, <3>3 DEF HistoryInv, TypeOK
  <2>. QED  BY <2>6, <2>7, <2>8
<1>. QED  BY <1>4, <1>5

LEMMA ApplyMutateStep ==
  ASSUME IInv, NEW m \in mutates, ApplyMutate(m)
  PROVE  IInv'
<1>1. /\ UNCHANGED <<now, updateTick, changed, carrying>>
      /\ UNCHANGED <<updates, needHistory, clientTick>>
      /\ mutates' = mutates \ {m} /\ applied' = applied \cup {m}
      /\ ~Newer(Wire(m.update), clientTick)
  BY DEF ApplyMutate, server
<1>2. Ticks' = Ticks /\ mutates' \cup applied' = mutates \cup applied
  BY <1>1 DEF Ticks
<1>3. TypeOK /\ BatchesInv
  BY DEF IInv
<1>4. m \in MutateMessages /\ m \notin applied /\ m.tick \in Ticks /\ m.update \in Ticks
  BY <1>3, InTransit
<1>5. /\ history' \in [mask : SUBSET Windows, last : WireTicks] /\ jump' \in AllTicks
      /\ replicated \subseteq replicated' /\ replicated' \subseteq replicated \cup {m.tick}
      /\ HistoryInv'
  BY HistoryStep
<1>6. /\ mutateTicks' \in [ticks : [Windows -> [count : 0..MaxMessages,
                                                received : 0..MaxMessages]],
                           last : WireTicks]
      /\ received' \subseteq received \cup {m.tick} /\ late' \subseteq late \cup {m.tick}
      /\ MutateTicksInv' /\ ReceivedWhenComplete'
  BY WindowStep
<1>7. PICK c \in Ticks : UpdatesInv(c)
  BY DEF IInv, ClientTickInv
<1>8. m.update <= c /\ c \in Nat /\ m.update \in Nat
  BY <1>1, <1>3, <1>4, <1>7, TicksInPlay, NewerIsLater DEF UpdatesInv
<1>9. TypeOK'
  <2>1. /\ now \in AllTicks /\ updateTick \in AllTicks /\ carrying \in BOOLEAN
        /\ Start <= updateTick /\ updateTick <= now
        /\ changed \subseteq Ticks /\ needHistory \in BOOLEAN /\ clientTick \in WireTicks
        /\ mutates \subseteq MutateMessages /\ applied \subseteq MutateMessages
        /\ updates \in Seq(AllTicks)
        /\ replicated \cup received \cup late \subseteq Ticks
    BY <1>3 DEF TypeOK
  <2>2. replicated' \cup received' \cup late' \subseteq Ticks
    BY <1>4, <1>5, <1>6, <2>1
  <2>3. mutates' \subseteq MutateMessages /\ applied' \subseteq MutateMessages
    BY <1>1, <1>4, <2>1
  <2>. QED  BY <1>1, <1>2, <1>5, <1>6, <2>1, <2>2, <2>3 DEF TypeOK
<1>10. BatchesInv'
  <2>1. \A t : MessagesOf(t)' = MessagesOf(t)
    BY <1>2 DEF MessagesOf
  <2>2. mutates' \cap applied' = {}
    BY <1>1, <1>3 DEF BatchesInv
  <2>. QED  BY <1>2, <1>3, <2>1, <2>2 DEF BatchesInv
<1>11. ClientTickInv'
  <2>1. ASSUME NEW i \in DOMAIN updates PROVE m.tick < updates[i]
    <3>1. updates[i] \in Nat /\ c < updates[i] /\ m.tick \in Nat
      BY <1>3, <1>4, <1>7, TicksInPlay, Widths DEF UpdatesInv
    <3>2. updates[i] <= m.tick => updates[i] <= m.update
      BY <1>7 DEF UpdatesInv
    <3>. QED  BY <1>8, <3>1, <3>2
  <2>2. \A t \in replicated', i \in DOMAIN updates : t < updates[i]
    BY <1>5, <1>7, <2>1 DEF UpdatesInv
  <2>3. (\A n \in applied' : n.update <= c) /\ \A n \in mutates' : n.update <= updateTick
    BY <1>1, <1>7, <1>8 DEF UpdatesInv
  <2>4. UpdatesInv(c)'
    BY <1>1, <1>2, <1>7, <2>2, <2>3 DEF UpdatesInv
  <2>. QED  BY <1>2, <2>4 DEF ClientTickInv
<1>12. ChangedInv'
  BY <1>1, <1>2, <1>5 DEF IInv, ChangedInv
<1>. QED  BY <1>5, <1>6, <1>9, <1>10, <1>11, <1>12 DEF IInv

LEMMA Stuttering == IInv /\ UNCHANGED vars => IInv'
<1>. SUFFICES ASSUME IInv, UNCHANGED vars PROVE IInv'
  OBVIOUS
<1>1. /\ UNCHANGED <<now, updateTick, changed, carrying, updates, mutates>>
      /\ UNCHANGED <<needHistory, clientTick, history, mutateTicks>>
      /\ UNCHANGED <<replicated, received, applied, late, jump>>
  BY DEF vars, server, client, observed
<1>2. TypeOK' /\ BatchesInv' /\ ChangedInv' /\ ReceivedWhenComplete'
  <2>1. TypeOK'
    BY <1>1 DEF IInv, TypeOK, Ticks
  <2>2. BatchesInv'
    BY <1>1 DEF IInv, BatchesInv, Ticks, MessagesOf
  <2>3. ChangedInv' /\ ReceivedWhenComplete'
    BY <1>1 DEF IInv, ChangedInv, ReceivedWhenComplete, IsComplete, Ticks
  <2>. QED  BY <2>1, <2>2, <2>3
<1>3. ClientTickInv'
  BY <1>1 DEF IInv, ClientTickInv, UpdatesInv, Ticks
<1>4. HistoryInv'
  BY <1>1 DEF IInv, HistoryInv, MaskInv, Ticks
<1>5. MutateTicksInv'
  <2>1. PICK l \in Ticks : WindowInv(l)
    BY DEF IInv, MutateTicksInv
  <2>2. \A t : AppliedOf(t)' = AppliedOf(t)
    BY <1>1 DEF AppliedOf
  <2>3. WindowInv(l)' /\ l \in Ticks'
    BY <1>1, <2>1, <2>2 DEF WindowInv, Counts, Ticks
  <2>. QED  BY <2>3 DEF MutateTicksInv
<1>. QED  BY <1>2, <1>3, <1>4, <1>5 DEF IInv

\* The invariant holds: each action keeps it.
THEOREM SpecIInv == Spec => []IInv
<1>1. Init => IInv
  BY InitIInv
<1>2. IInv /\ [Next]_vars => IInv'
  <2>. SUFFICES ASSUME IInv, [Next]_vars PROVE IInv'
    OBVIOUS
  <2>1. CASE \E acknowledged, mutated \in BOOLEAN, count \in 1..MaxMessages :
               Tick(acknowledged, mutated, count)
    BY <2>1, TickStep
  <2>2. CASE \E count \in 1..MaxMessages : InsertTick(count)
    BY <2>2, InsertTickStep
  <2>3. CASE ApplyUpdate
    BY <2>3, ApplyUpdateStep
  <2>4. CASE \E m \in mutates : ApplyMutate(m)
    BY <2>4, ApplyMutateStep
  <2>5. CASE UNCHANGED vars
    BY <2>5, Stuttering
  <2>. QED  BY <2>1, <2>2, <2>3, <2>4, <2>5 DEF Next
<1>. QED  BY <1>1, <1>2, PTL DEF Spec

-----------------------------------------------------------------------------
(* What the invariant says of the queries for a tick.                      *)

LEMMA HistoryContains ==
  ASSUME TypeOK, NEW h \in Ticks, MaskInv(h), NEW t \in Ticks
  PROVE  Contains(history, Wire(t)) <=>
           t <= h /\ (h - t >= Bits \/ h - t \in history.mask)
<1>1. h \in Nat /\ t \in Nat /\ h \in InPlay /\ t \in InPlay /\ history.last = Wire(h)
  BY TicksInPlay DEF MaskInv
<1>2. Newer(Wire(t), history.last) <=> t > h
  BY <1>1, NewerIsLater
<1>3. t <= h => Minus(history.last, Wire(t)) = h - t
  BY <1>1, Distance
<1>. QED  BY <1>1, <1>2, <1>3 DEF Contains

LEMMA WindowContains ==
  ASSUME TypeOK, NEW l \in Ticks, WindowInv(l), NEW t \in Ticks
  PROVE  MutateContains(mutateTicks, Wire(t)) <=>
           t <= l /\ (l - t >= Bits \/ AllReceived(mutateTicks.ticks[l - t]))
<1>1. l \in Nat /\ t \in Nat /\ l \in InPlay /\ t \in InPlay /\ mutateTicks.last = Wire(l)
  BY TicksInPlay DEF WindowInv
<1>2. Newer(Wire(t), mutateTicks.last) <=> t > l
  BY <1>1, NewerIsLater
<1>3. t <= l => Minus(mutateTicks.last, Wire(t)) = l - t
  BY <1>1, Distance
<1>. QED  BY <1>1, <1>2, <1>3 DEF MutateContains

-----------------------------------------------------------------------------
(* The properties.                                                         *)

\* The variables have the values that TypeOK says: above all, no count of messages
\* exceeds those of a tick, and no position its window.
THEOREM TypeCorrect == Spec => []TypeOK
<1>1. IInv => TypeOK
  BY DEF IInv
<1>. QED  BY <1>1, SpecIInv, PTL

\* MutateTickReceived is sent exactly for the ticks all of whose mutate messages
\* were applied, if none came after the tick had left the window.
THEOREM EventWhenComplete == Spec => []ReceivedWhenComplete
<1>1. IInv => ReceivedWhenComplete
  BY DEF IInv
<1>. QED  BY <1>1, SpecIInv, PTL

\* ConfirmHistory::contains holds of every tick with an EntityReplicated event.
LEMMA ContainsReplicated == IInv => ReplicatedIsContained
<1>. SUFFICES ASSUME IInv, NEW t \in replicated PROVE Contains(history, Wire(t))
  BY DEF ReplicatedIsContained
<1>1. PICK h \in Ticks : MaskInv(h)
  BY DEF IInv, HistoryInv
<1>2. TypeOK /\ t \in Ticks
  BY DEF IInv, TypeOK
<1>3. h \in Nat /\ t \in Nat /\ t <= h /\ Bits \in Nat
  BY <1>1, <1>2, TicksInPlay, Widths DEF MaskInv
<1>4. h - t < Bits => h - t \in history.mask
  BY <1>1 DEF MaskInv
<1>. QED  BY <1>1, <1>2, <1>3, <1>4, HistoryContains

THEOREM ReplicatedStaysContained == Spec => []ReplicatedIsContained
BY ContainsReplicated, SpecIInv, PTL

\* ConfirmHistory::contains holds of no other tick of its window, of those that came
\* after the last jump of the window's length or more.
THEOREM OnlyReplicatedContained == Spec => []ContainedSinceJump
<1>1. IInv => ContainedSinceJump
  <2>. SUFFICES ASSUME IInv, NEW t \in Recent, Contains(history, Wire(t))
                PROVE  t \in replicated \/ t < jump
    BY DEF ContainedSinceJump
  <2>1. PICK h \in Ticks : MaskInv(h)
    BY DEF IInv, HistoryInv
  <2>2. /\ TypeOK /\ t \in Ticks
        /\ ~Newer(Wire(t), history.last) /\ Minus(history.last, Wire(t)) < Bits
    BY DEF IInv, Recent
  <2>3. /\ h \in Nat /\ t \in Nat /\ h \in InPlay /\ t \in InPlay /\ history.last = Wire(h)
        /\ Bits \in Nat
    BY <2>1, <2>2, TicksInPlay, Widths DEF MaskInv
  <2>4. t <= h
    BY <2>2, <2>3, NewerIsLater
  <2>5. h - t < Bits
    BY <2>2, <2>3, <2>4, Distance
  <2>6. h - t \in history.mask
    BY <2>1, <2>2, <2>3, <2>5, HistoryContains
  <2>7. h - (h - t) \in replicated \/ h - (h - t) < jump
    BY <2>1, <2>6 DEF MaskInv
  <2>8. h - (h - t) = t
    BY <2>3
  <2>. QED  BY <2>7, <2>8
<1>. QED  BY <1>1, SpecIInv, PTL

\* What rollback relies on: an entity that asks for history did not change in a tick
\* all of whose mutate messages arrived, if its history does not have the tick.
THEOREM UnchangedIfUnconfirmed == Spec => []UnconfirmedIsUnchanged
<1>1. IInv => UnconfirmedIsUnchanged
  <2>. SUFFICES ASSUME IInv, needHistory, NEW t \in received,
                       ~Contains(history, Wire(t)), t \in changed
                PROVE  FALSE
    BY DEF UnconfirmedIsUnchanged
  <2>1. PICK h \in Ticks : MaskInv(h)
    BY DEF IInv, HistoryInv
  <2>2. PICK c \in Ticks : UpdatesInv(c)
    BY DEF IInv, ClientTickInv
  <2>3. TypeOK /\ BatchesInv /\ t \in Ticks /\ t \in Nat /\ h \in Nat /\ c \in Nat
        /\ Bits \in Nat \ {0}
    BY <2>1, <2>2, TicksInPlay, Widths DEF IInv, TypeOK
  <2>4. IsComplete(t)
    BY <2>3 DEF IInv, ReceivedWhenComplete
  <2>5. MessagesOf(t) \subseteq applied
    BY <2>3, <2>4, CompleteWhenApplied
  <2>6. t \notin replicated
    BY ContainsReplicated DEF ReplicatedIsContained
  <2>7. CASE \E i \in DOMAIN updates : updates[i] = t
    <3>1. PICK i \in DOMAIN updates : updates[i] = t
      BY <2>7
    <3>2. PICK m \in applied : m.tick = t
      BY <2>4 DEF IsComplete
    <3>3. m.update \in Nat
      BY <2>3, TicksInPlay DEF TypeOK, MutateMessages
    <3>4. t <= t => t <= m.update
      BY <2>2, <3>1, <3>2 DEF UpdatesInv
    <3>5. m.update <= c /\ c < t
      BY <2>2, <3>1 DEF UpdatesInv
    <3>. QED  BY <2>3, <3>3, <3>4, <3>5
  <2>8. CASE \E m \in mutates \cup applied : m.tick = t /\ m.entity
    <3>1. PICK m \in mutates \cup applied : m.tick = t /\ m.entity
      BY <2>8
    <3>2. m \in applied
      BY <2>5, <3>1 DEF MessagesOf
    <3>3. h - t >= Bits
      BY <2>1, <2>6, <3>1, <3>2 DEF MaskInv
    <3>4. t <= h
      BY <2>3, <3>3
    <3>. QED  BY <2>1, <2>3, <3>3, <3>4, HistoryContains
  <2>. QED  BY <2>6, <2>7, <2>8 DEF IInv, ChangedInv
<1>. QED  BY <1>1, SpecIInv, PTL

-----------------------------------------------------------------------------
(* The queries for a range of ticks.                                       *)

LEMMA TicksBetween ==
  ASSUME TypeOK, NEW s \in Ticks
  PROVE  /\ \A e \in s..now : e \in Ticks /\ s <= e
         /\ \A e \in Ticks : \A t \in s..e : t \in Ticks
<1>1. Start \in Nat /\ now \in Nat
  BY Widths DEF TypeOK, AllTicks
<1>. QED  BY <1>1 DEF Ticks

\* The end of the range, and its distance from the last tick.
LEMMA RangeEnds ==
  ASSUME NEW last \in InPlay, NEW e \in InPlay, NEW record, record.last = Wire(last),
         NEW stop, stop = IF last > e THEN e ELSE last
  PROVE  /\ stop \in InPlay /\ RangeEnd(record, Wire(e)) = Wire(stop)
         /\ RangeOffset(record, Wire(e)) = last - stop
<1>1. last \in Int /\ e \in Int /\ stop \in InPlay /\ stop <= last
  BY Widths DEF InPlay
<1>2. RangeEnd(record, Wire(e)) = Wire(stop)
  BY NewerIsLater DEF RangeEnd
<1>3. Minus(Wire(last), Wire(stop)) = last - stop
  BY <1>1, Distance
<1>. QED  BY <1>1, <1>2, <1>3 DEF RangeOffset

\* ServerMutateTicks::contains_any.
LEMMA MutateRange ==
  ASSUME TypeOK, NEW l \in Ticks, WindowInv(l), NEW s \in Ticks, NEW e \in Ticks, s <= e
  PROVE  MutateContainsAny(mutateTicks, Wire(s), Wire(e)) <=>
           \E t \in s..e : MutateContains(mutateTicks, Wire(t))
<1>1. /\ l \in Nat /\ s \in Nat /\ e \in Nat /\ l \in InPlay /\ s \in InPlay /\ e \in InPlay
      /\ mutateTicks.last = Wire(l) /\ Bits \in Nat \ {0}
  BY TicksInPlay, Widths DEF WindowInv
<1>2. PICK stop : stop = IF l > e THEN e ELSE l
  OBVIOUS
<1>3. stop \in InPlay /\ RangeOffset(mutateTicks, Wire(e)) = l - stop
  BY <1>1, <1>2, RangeEnds
<1>4. Newer(Wire(s), mutateTicks.last) <=> s > l
  BY <1>1, NewerIsLater
<1>5. \A t \in s..e : t \in Ticks
  BY TicksBetween
<1>6. \A t \in s..e : MutateContains(mutateTicks, Wire(t)) <=>
        t <= l /\ (l - t >= Bits \/ AllReceived(mutateTicks.ticks[l - t]))
  BY <1>5, WindowContains
<1>7. CASE s > l
  BY <1>1, <1>4, <1>6, <1>7 DEF MutateContainsAny
<1>8. CASE s <= l
  <2>1. Newer(Wire(s), Minus(mutateTicks.last, Bits)) <=> l - s < Bits
    BY <1>1, <1>8, BeyondWindow
  <2>2. Minus(mutateTicks.last, Wire(s)) = l - s
    BY <1>1, <1>8, Distance
  <2>3. MutateContainsAny(mutateTicks, Wire(s), Wire(e)) <=>
          l - s >= Bits \/ \E i \in (l - stop)..(l - s) : AllReceived(mutateTicks.ticks[i])
    BY <1>1, <1>3, <1>4, <1>8, <2>1, <2>2 DEF MutateContainsAny
  <2>4. CASE l - s >= Bits
    <3>1. s \in s..e
      BY <1>1
    <3>. QED  BY <1>6, <1>8, <2>3, <2>4, <3>1
  <2>5. CASE l - s < Bits
    <3>1. ASSUME NEW i \in (l - stop)..(l - s), AllReceived(mutateTicks.ticks[i])
          PROVE  \E t \in s..e : MutateContains(mutateTicks, Wire(t))
      <4>1. l - i \in s..e /\ l - i <= l /\ l - (l - i) = i
        BY <1>1, <1>2, <1>8
      <4>. QED  BY <1>6, <3>1, <4>1
    <3>2. ASSUME NEW t \in s..e, MutateContains(mutateTicks, Wire(t))
          PROVE  \E i \in (l - stop)..(l - s) : AllReceived(mutateTicks.ticks[i])
      <4>1. t <= l /\ (l - t >= Bits \/ AllReceived(mutateTicks.ticks[l - t]))
        BY <1>6, <3>2
      <4>2. l - t \in (l - stop)..(l - s) /\ ~(l - t >= Bits)
        BY <1>1, <1>2, <2>5, <4>1
      <4>. QED  BY <4>1, <4>2
    <3>3. ~(l - s >= Bits)
      BY <1>1, <2>5
    <3>. QED  BY <2>3, <3>1, <3>2, <3>3
  <2>. QED  BY <1>1, <2>4, <2>5
<1>. QED  BY <1>1, <1>7, <1>8

\* ConfirmHistory::contains_any, but for the length for which the code's shift of 1 by
\* the width of the mask gives a range without ticks.
LEMMA HistoryRange ==
  ASSUME TypeOK, NEW h \in Ticks, MaskInv(h), NEW s \in Ticks, NEW e \in Ticks, s <= e,
         Newer(Wire(s), history.last) \/ RangeLength(history, Wire(s), Wire(e)) # Bits
  PROVE  ContainsAny(history, Wire(s), Wire(e)) <=>
           \E t \in s..e : Contains(history, Wire(t))
<1>1. /\ h \in Nat /\ s \in Nat /\ e \in Nat /\ h \in InPlay /\ s \in InPlay /\ e \in InPlay
      /\ history.last = Wire(h) /\ Bits \in Nat \ {0}
  BY TicksInPlay, Widths DEF MaskInv
<1>2. PICK stop : stop = IF h > e THEN e ELSE h
  OBVIOUS
<1>3. stop \in InPlay /\ stop \in Nat /\ stop <= h /\ stop <= e
  BY <1>1, <1>2
<1>4. /\ RangeEnd(history, Wire(e)) = Wire(stop)
      /\ RangeOffset(history, Wire(e)) = h - stop
  BY <1>1, <1>2, RangeEnds
<1>5. Newer(Wire(s), history.last) <=> s > h
  BY <1>1, NewerIsLater
<1>6. \A t \in s..e : t \in Ticks
  BY TicksBetween
<1>7. \A t \in s..e : Contains(history, Wire(t)) <=>
        t <= h /\ (h - t >= Bits \/ h - t \in history.mask)
  BY <1>6, HistoryContains
<1>8. CASE s > h
  BY <1>1, <1>5, <1>7, <1>8 DEF ContainsAny
<1>9. CASE s <= h
  <2>1. Newer(Wire(s), Minus(history.last, Bits)) <=> h - s < Bits
    BY <1>1, <1>9, BeyondWindow
  <2>2. s <= stop
    BY <1>1, <1>2, <1>9
  <2>3. RangeLength(history, Wire(s), Wire(e)) = stop - s + 1
    BY <1>1, <1>3, <1>4, <2>2, Distance DEF RangeLength
  <2>4. stop - s + 1 # Bits
    BY <1>1, <1>5, <1>9, <2>3
  <2>5. Ones(stop - s + 1) = 0..(stop - s)
    <3>1. (stop - s + 1) - 1 = stop - s
      BY <1>1, <1>3
    <3>. QED  BY <2>4, <3>1 DEF Ones
  <2>6. ContainsAny(history, Wire(s), Wire(e)) <=>
          h - s >= Bits \/ \E i \in 0..(stop - s) : i + (h - stop) \in history.mask
    <3>1. ~Newer(Wire(s), history.last)
      BY <1>1, <1>5, <1>9
    <3>2. ~Newer(Wire(s), Minus(history.last, Bits)) <=> h - s >= Bits
      BY <1>1, <2>1
    <3>. DEFINE offset == h - stop
                length == stop - s
    <3>3. /\ RangeOffset(history, Wire(e)) = offset
          /\ Ones(RangeLength(history, Wire(s), Wire(e))) = 0..length
      BY <1>4, <2>3, <2>5
    <3>. HIDE DEF offset, length
    <3>4. ContainsAny(history, Wire(s), Wire(e)) <=>
            h - s >= Bits \/ \E i \in 0..length : i + offset \in history.mask
      BY <3>1, <3>2, <3>3, Zenon DEF ContainsAny
    <3>. QED  BY <3>4 DEF offset, length
  <2>7. CASE h - s >= Bits
    <3>1. s \in s..e
      BY <1>1
    <3>. QED  BY <1>7, <1>9, <2>6, <2>7, <3>1
  <2>8. CASE h - s < Bits
    <3>1. ASSUME NEW i \in 0..(stop - s), i + (h - stop) \in history.mask
          PROVE  \E t \in s..e : Contains(history, Wire(t))
      <4>1. stop - i \in s..e /\ stop - i <= h /\ h - (stop - i) = i + (h - stop)
        BY <1>1, <1>3, <2>2
      <4>. QED  BY <1>7, <3>1, <4>1
    <3>2. ASSUME NEW t \in s..e, Contains(history, Wire(t))
          PROVE  \E i \in 0..(stop - s) : i + (h - stop) \in history.mask
      <4>1. t <= h /\ (h - t >= Bits \/ h - t \in history.mask)
        BY <1>7, <3>2
      <4>2. /\ stop - t \in 0..(stop - s) /\ (stop - t) + (h - stop) = h - t
            /\ ~(h - t >= Bits)
        BY <1>1, <1>2, <1>3, <2>8, <4>1
      <4>. QED  BY <4>1, <4>2
    <3>3. ~(h - s >= Bits)
      BY <1>1, <2>8
    <3>. QED  BY <2>6, <3>1, <3>2, <3>3
  <2>. QED  BY <1>1, <2>7, <2>8
<1>. QED  BY <1>1, <1>8, <1>9

\* The queries for a range of ticks, of the history and of all mutate messages, agree
\* with those for its ticks; but the history's may not for a range of the window's
\* length.
THEOREM RangeQueriesAgree == Spec => []RangesAgree
<1>1. IInv => RangesAgree
  <2>. DEFINE contained == {t \in Ticks : Contains(history, Wire(t))}
              complete  == {t \in Ticks : MutateContains(mutateTicks, Wire(t))}
  <2>. SUFFICES ASSUME IInv, NEW s \in Ticks, NEW e \in s..now
                PROVE  /\ MutateContainsAny(mutateTicks, Wire(s), Wire(e)) <=>
                            (s..e) \cap complete # {}
                       /\ \/ Newer(Wire(s), history.last)
                          \/ RangeLength(history, Wire(s), Wire(e)) # Bits
                          => (ContainsAny(history, Wire(s), Wire(e)) <=>
                                (s..e) \cap contained # {})
    BY DEF RangesAgree
  <2>1. PICK h \in Ticks : MaskInv(h)
    BY DEF IInv, HistoryInv
  <2>2. PICK l \in Ticks : WindowInv(l)
    BY DEF IInv, MutateTicksInv
  <2>3. TypeOK /\ e \in Ticks /\ s <= e /\ (s..e) \subseteq Ticks
    <3>1. TypeOK
      BY DEF IInv
    <3>. QED  BY <3>1, TicksBetween
  <2>4. (s..e) \cap complete # {} <=> \E t \in s..e : MutateContains(mutateTicks, Wire(t))
    BY <2>3
  <2>5. (s..e) \cap contained # {} <=> \E t \in s..e : Contains(history, Wire(t))
    BY <2>3
  <2>. HIDE DEF contained, complete
  <2>6. MutateContainsAny(mutateTicks, Wire(s), Wire(e)) <=> (s..e) \cap complete # {}
    BY <2>2, <2>3, <2>4, MutateRange
  <2>7. ASSUME \/ Newer(Wire(s), history.last)
               \/ RangeLength(history, Wire(s), Wire(e)) # Bits
        PROVE  ContainsAny(history, Wire(s), Wire(e)) <=> (s..e) \cap contained # {}
    BY <2>1, <2>3, <2>5, <2>7, HistoryRange
  <2>. QED  BY <2>6, <2>7
<1>. QED  BY <1>1, SpecIInv, PTL
=============================================================================
