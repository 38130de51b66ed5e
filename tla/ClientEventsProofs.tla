--------------------------- MODULE ClientEventsProofs ---------------------------
(***************************************************************************)
(* Proofs about ClientEvents: its types, that no event is handled twice,   *)
(* that the sessions of a client stay separate, and that messages of       *)
(* removed clients are not emitted.                                        *)
(***************************************************************************)
EXTENDS ClientEvents, SequenceTheorems, WellFoundedInduction, TLAPS

(***************************************************************************)
(* Sequences: selection from them, and their elements.                     *)
(***************************************************************************)

\* A non-empty set of numbers has a least element.
LEMMA LeastExists ==
  ASSUME NEW I, I \subseteq Nat, I # {}
  PROVE  \E n \in I : \A i \in I : n <= i
<1>1. PICK n \in I : \A i \in I : <<i, n>> \notin OpToRel(<, Nat)
  BY NatLessThanWellFounded, WFMin
<1>2. ASSUME NEW i \in I, i < n PROVE FALSE
  <2>1. <<i, n>> \in Nat \X Nat
    OBVIOUS
  <2>2. <<i, n>>[1] < <<i, n>>[2]
    BY <1>2
  <2>3. <<i, n>> \in OpToRel(<, Nat)
    BY <2>1, <2>2, Zenon DEF OpToRel
  <2>. QED  BY <1>1, <2>3
<1>. QED  BY <1>2

\* Induction up to a bound.
LEMMA UpTo ==
  ASSUME NEW n \in Nat, NEW good, 0 \in good, \A m \in 1..n : m - 1 \in good => m \in good
  PROVE  0..n \subseteq good
<1>. DEFINE bad == (0..n) \ good
<1>. SUFFICES ASSUME bad # {} PROVE FALSE
  OBVIOUS
<1>1. bad \subseteq Nat
  OBVIOUS
<1>. HIDE DEF bad
<1>2. PICK m \in bad : \A i \in bad : m <= i
  BY <1>1, LeastExists
<1>3. m \in 0..n /\ m \notin good /\ m # 0
  BY <1>2 DEF bad
<1>4. m \in 1..n /\ m - 1 \in 0..n /\ m - 1 \notin bad
  BY <1>1, <1>2, <1>3
<1>. QED  BY <1>3, <1>4 DEF bad

\* The sequences that the recursion in Selected goes through exist.
LEMMA SelectedSteps ==
  ASSUME NEW T, NEW s \in Seq(T), NEW S
  PROVE  \E kept :
            /\ kept = [n \in 0..Len(s) |->
                         IF n = 0 THEN <<>>
                         ELSE IF s[n] \in S THEN Append(kept[n - 1], s[n]) ELSE kept[n - 1]]
            /\ Selected(s, S) = kept[Len(s)]
<1>. DEFINE After(k, n) == IF s[n] \in S THEN Append(k, s[n]) ELSE k
            Steps(m) == \E f : f = [n \in 0..m |-> IF n = 0 THEN <<>> ELSE After(f[n - 1], n)]
            good == {m \in 0..Len(s) : Steps(m)}
<1>1. Len(s) \in Nat
  OBVIOUS
<1>. HIDE DEF After
<1>2. 0 \in good
  <2>. DEFINE f == [n \in 0..0 |-> <<>>]
  <2>1. f = [n \in 0..0 |-> IF n = 0 THEN <<>> ELSE After(f[n - 1], n)]
    OBVIOUS
  <2>. HIDE DEF f
  <2>2. Steps(0)
    BY <2>1
  <2>. HIDE DEF Steps
  <2>. QED  BY <1>1, <2>2
<1>3. ASSUME NEW m \in 1..Len(s), m - 1 \in good PROVE m \in good
  <2>1. Steps(m - 1)
    BY <1>3
  <2>2. PICK f : f = [n \in 0..(m - 1) |-> IF n = 0 THEN <<>> ELSE After(f[n - 1], n)]
    BY <2>1
  <2>. DEFINE g == [n \in 0..m |-> IF n = m THEN After(f[m - 1], m) ELSE f[n]]
  <2>3. g = [n \in 0..m |-> IF n = 0 THEN <<>> ELSE After(g[n - 1], n)]
    <3>. SUFFICES ASSUME NEW n \in 0..m
                  PROVE  g[n] = IF n = 0 THEN <<>> ELSE After(g[n - 1], n)
      OBVIOUS
    <3>1. CASE n = m
      <4>1. m - 1 \in 0..m /\ m - 1 # m /\ m # 0
        BY <1>1
      <4>2. g[n - 1] = f[m - 1]
        BY <3>1, <4>1
      <4>. QED  BY <3>1, <4>1, <4>2
    <3>2. CASE n # m
      <4>1. n \in 0..(m - 1) /\ (n # 0 => n - 1 \in 0..m /\ n - 1 # m)
        BY <1>1, <3>2
      <4>2. f[n] = IF n = 0 THEN <<>> ELSE After(f[n - 1], n)
        BY <2>2, <4>1
      <4>3. n # 0 => g[n - 1] = f[n - 1]
        BY <4>1
      <4>. QED  BY <3>2, <4>2, <4>3
    <3>. QED  BY <3>1, <3>2
  <2>. HIDE DEF g
  <2>4. Steps(m)
    BY <2>3
  <2>. HIDE DEF Steps
  <2>. QED  BY <1>1, <2>4
<1>4. Steps(Len(s))
  <2>. HIDE DEF good
  <2>1. 0..Len(s) \subseteq good
    BY <1>1, <1>2, <1>3, UpTo
  <2>. QED  BY <1>1, <2>1 DEF good
<1>. DEFINE kept == CHOOSE f : f = [n \in 0..Len(s) |->
                                      IF n = 0 THEN <<>> ELSE After(f[n - 1], n)]
<1>5. kept = [n \in 0..Len(s) |-> IF n = 0 THEN <<>> ELSE After(kept[n - 1], n)]
  BY <1>4
<1>6. Selected(s, S) = kept[Len(s)]
  BY DEF Selected, After
<1>. HIDE DEF kept
<1>7. kept = [n \in 0..Len(s) |->
                IF n = 0 THEN <<>>
                ELSE IF s[n] \in S THEN Append(kept[n - 1], s[n]) ELSE kept[n - 1]]
  BY <1>5 DEF After
<1>. QED  BY <1>6, <1>7

\* A sequence keeps what is in the set, at places in rising order.
KeepsAt(kept, s, S, n, at) ==
  /\ at \in [1..Len(kept) -> 1..n]
  /\ \A i \in 1..Len(kept) : kept[i] = s[at[i]] /\ kept[i] \in S
  /\ \A i, j \in 1..Len(kept) : i < j => at[i] < at[j]
  /\ \A k \in 1..n : s[k] \in S => \E i \in 1..Len(kept) : at[i] = k

\* Selection keeps what is in the set, and nothing else, in order.
LEMMA SelectedPlaces ==
  ASSUME NEW T, NEW s \in Seq(T), NEW S
  PROVE  /\ Selected(s, S) \in Seq(T)
         /\ \E at : KeepsAt(Selected(s, S), s, S, Len(s), at)
<1>1. PICK kept :
         /\ kept = [n \in 0..Len(s) |->
                      IF n = 0 THEN <<>>
                      ELSE IF s[n] \in S THEN Append(kept[n - 1], s[n]) ELSE kept[n - 1]]
         /\ Selected(s, S) = kept[Len(s)]
  BY SelectedSteps
<1>2. Len(s) \in Nat
  OBVIOUS
<1>3. \A n \in 0..Len(s) :
         kept[n] = IF n = 0 THEN <<>>
                   ELSE IF s[n] \in S THEN Append(kept[n - 1], s[n]) ELSE kept[n - 1]
  BY <1>1
<1>. DEFINE Good(n) == kept[n] \in Seq(T) /\ \E at : KeepsAt(kept[n], s, S, n, at)
            good == {n \in 0..Len(s) : Good(n)}
<1>4. 0 \in good
  <2>1. kept[0] = <<>>
    BY <1>2, <1>3
  <2>2. <<>> \in Seq(T) /\ Len(<<>>) = 0
    OBVIOUS
  <2>. DEFINE at == [i \in 1..0 |-> i]
  <2>3. KeepsAt(<<>>, s, S, 0, at)
    BY <2>2 DEF KeepsAt
  <2>. HIDE DEF at
  <2>4. Good(0)
    BY <2>1, <2>2, <2>3
  <2>. HIDE DEF Good
  <2>. QED  BY <1>2, <2>4
<1>5. ASSUME NEW n \in 1..Len(s), n - 1 \in good PROVE n \in good
  <2>. DEFINE before == kept[n - 1]
              after  == kept[n]
  <2>1. before \in Seq(T) /\ n - 1 \in 0..Len(s) /\ n \in 0..Len(s) /\ n # 0
    BY <1>2, <1>5
  <2>2. PICK at : KeepsAt(before, s, S, n - 1, at)
    BY <1>5
  <2>3. after = IF s[n] \in S THEN Append(before, s[n]) ELSE before
    BY <1>3, <2>1
  <2>. HIDE DEF before
  <2>4. CASE s[n] \notin S
    <3>1. KeepsAt(before, s, S, n, at)
      <4>1. 1..(n - 1) \subseteq 1..n /\ \A k \in 1..n : k \in 1..(n - 1) \/ k = n
        BY <2>1
      <4>. QED  BY <2>2, <2>4, <4>1 DEF KeepsAt
    <3>. QED  BY <2>1, <2>3, <2>4, <3>1
  <2>5. CASE s[n] \in S
    <3>. DEFINE l  == Len(before) + 1
                to == [i \in 1..l |-> IF i = l THEN n ELSE at[i]]
                e  == s[n]
    <3>1. e \in T
      BY <1>2
    <3>2. after = Append(before, e)
      BY <2>3, <2>5
    <3>. HIDE DEF after, e
    <3>3. /\ after \in Seq(T) /\ Len(after) = l /\ l \in Nat /\ Len(before) \in Nat
          /\ after[l] = e
          /\ \A i \in 1..Len(before) : after[i] = before[i]
      BY <2>1, <3>1, <3>2
    <3>4. \A i \in 1..l : i = l \/ i \in 1..Len(before)
      BY <3>3
    <3>5. \A i \in 1..Len(before) : i \in 1..l /\ i # l /\ to[i] = at[i] /\ at[i] \in 1..(n - 1)
      BY <2>2, <3>3 DEF KeepsAt
    <3>6. l \in 1..l /\ to[l] = n
      BY <3>3
    <3>7. to \in [1..l -> 1..n]
      <4>1. \A i \in 1..l : to[i] \in 1..n
        <5>. TAKE i \in 1..l
        <5>1. CASE i = l
          BY <2>1, <3>6, <5>1
        <5>2. CASE i \in 1..Len(before)
          <6>1. to[i] \in 1..(n - 1)
            BY <3>5, <5>2
          <6>. HIDE DEF to
          <6>. QED  BY <2>1, <6>1
        <5>. QED  BY <3>4, <5>1, <5>2
      <4>. QED  BY <4>1
    <3>. HIDE DEF l, to
    <3>8. \A i \in 1..l : after[i] = s[to[i]] /\ after[i] \in S
      BY <2>2, <2>5, <3>3, <3>4, <3>5, <3>6 DEF KeepsAt, e
    <3>9. ASSUME NEW i \in 1..l, NEW j \in 1..l, i < j PROVE to[i] < to[j]
      <4>1. i \in 1..Len(before)
        BY <3>3, <3>4, <3>9 DEF l
      <4>2. CASE j = l
        BY <2>1, <3>5, <3>6, <4>1, <4>2
      <4>3. CASE j \in 1..Len(before)
        BY <2>2, <3>5, <3>9, <4>1, <4>3 DEF KeepsAt
      <4>. QED  BY <3>4, <4>2, <4>3
    <3>10. ASSUME NEW k \in 1..n, s[k] \in S PROVE \E i \in 1..l : to[i] = k
      <4>1. CASE k = n
        BY <3>6, <4>1
      <4>2. CASE k # n
        <5>1. k \in 1..(n - 1)
          BY <2>1, <4>2
        <5>2. PICK i \in 1..Len(before) : at[i] = k
          BY <2>2, <3>10, <5>1 DEF KeepsAt
        <5>. QED  BY <3>5, <5>2
      <4>. QED  BY <4>1, <4>2
    <3>11. KeepsAt(after, s, S, n, to)
      BY <3>3, <3>7, <3>8, <3>9, <3>10 DEF KeepsAt
    <3>. QED  BY <2>1, <3>3, <3>11 DEF after
  <2>. QED  BY <2>4, <2>5
<1>6. Good(Len(s))
  <2>. HIDE DEF good
  <2>1. 0..Len(s) \subseteq good
    BY <1>2, <1>4, <1>5, UpTo
  <2>. QED  BY <1>2, <2>1 DEF good
<1>. QED  BY <1>1, <1>6

\* What a selection has.
LEMMA SelectedHas ==
  ASSUME NEW T, NEW s \in Seq(T), NEW S
  PROVE  /\ Selected(s, S) \in Seq(T)
         /\ Selected(s, S) \in Seq(S)
         /\ ToSet(Selected(s, S)) = ToSet(s) \cap S
<1>. DEFINE kept == Selected(s, S)
<1>1. kept \in Seq(T)
  BY SelectedPlaces
<1>2. PICK at : KeepsAt(kept, s, S, Len(s), at)
  BY SelectedPlaces
<1>. HIDE DEF kept
<1>3. kept \in Seq(S)
  <2>1. Len(kept) \in Nat /\ kept \in [1..Len(kept) -> T]
    BY <1>1
  <2>2. kept \in [1..Len(kept) -> S]
    BY <1>2, <2>1 DEF KeepsAt
  <2>. QED  BY <2>1, <2>2
<1>4. DOMAIN kept = 1..Len(kept) /\ DOMAIN s = 1..Len(s)
  BY <1>1
<1>5. ASSUME NEW e PROVE e \in ToSet(kept) <=> e \in ToSet(s) \cap S
  <2>1. ASSUME e \in ToSet(kept) PROVE e \in ToSet(s) \cap S
    <3>1. PICK i \in 1..Len(kept) : kept[i] = e
      BY <1>4, <2>1 DEF ToSet
    <3>2. e = s[at[i]] /\ e \in S /\ at[i] \in 1..Len(s)
      BY <1>2, <3>1 DEF KeepsAt
    <3>. QED  BY <1>4, <3>2 DEF ToSet
  <2>2. ASSUME e \in ToSet(s) \cap S PROVE e \in ToSet(kept)
    <3>1. PICK k \in 1..Len(s) : s[k] = e
      BY <1>4, <2>2 DEF ToSet
    <3>2. PICK i \in 1..Len(kept) : at[i] = k
      BY <1>2, <2>2, <3>1 DEF KeepsAt
    <3>3. kept[i] = e
      BY <1>2, <3>1, <3>2 DEF KeepsAt
    <3>. QED  BY <1>4, <3>3 DEF ToSet
  <2>. QED  BY <2>1, <2>2
<1>. QED  BY <1>1, <1>3, <1>5 DEF kept

\* The elements are what the positions hold, and of the sequence's type.
LEMMA HasElements ==
  ASSUME NEW T, NEW s \in Seq(T)
  PROVE  /\ ToSet(s) \subseteq T
         /\ \A e : e \in ToSet(s) <=> \E i \in 1..Len(s) : s[i] = e
         /\ s # <<>> => Head(s) \in ToSet(s) /\ Head(s) = s[1]
<1>1. DOMAIN s = 1..Len(s) /\ Len(s) \in Nat /\ \A i \in 1..Len(s) : s[i] \in T
  OBVIOUS
<1>2. ASSUME s # <<>> PROVE 1 \in 1..Len(s) /\ Head(s) = s[1]
  BY <1>2
<1>3. \A e : e \in ToSet(s) <=> \E i \in 1..Len(s) : s[i] = e
  BY <1>1 DEF ToSet
<1>4. ToSet(s) \subseteq T
  BY <1>1, <1>3
<1>. QED  BY <1>2, <1>3, <1>4

\* The empty sequence has none.
LEMMA EmptyHas ==
  ToSet(<<>>) = {} /\ IsInjective(<<>>)
BY DEF ToSet, IsInjective

\* Concatenation unites the elements.
LEMMA ConcatHas ==
  ASSUME NEW T, NEW s \in Seq(T), NEW t \in Seq(T)
  PROVE  /\ s \o t \in Seq(T)
         /\ ToSet(s \o t) = ToSet(s) \cup ToSet(t)
         /\ IsInjective(s \o t) <=>
              IsInjective(s) /\ IsInjective(t) /\ ToSet(s) \cap ToSet(t) = {}
<1>. DEFINE u == s \o t
            n == Len(s)
            m == Len(t)
<1>1. /\ u \in Seq(T) /\ n \in Nat /\ m \in Nat /\ Len(u) = n + m
      /\ DOMAIN u = 1..(n + m) /\ DOMAIN s = 1..n /\ DOMAIN t = 1..m
  OBVIOUS
<1>2. \A i \in 1..n : u[i] = s[i] /\ i \in 1..(n + m)
  OBVIOUS
<1>3. \A i \in 1..m : u[i + n] = t[i] /\ i + n \in 1..(n + m)
  OBVIOUS
<1>4. \A k \in 1..(n + m) : k \in 1..n \/ \E i \in 1..m : k = i + n
  <2>. TAKE k \in 1..(n + m)
  <2>1. CASE k <= n
    BY <1>1, <2>1
  <2>2. CASE ~(k <= n)
    <3>1. k - n \in 1..m /\ k = (k - n) + n
      BY <1>1, <2>2
    <3>. QED  BY <3>1
  <2>. QED  BY <2>1, <2>2
<1>5. \A e : e \in ToSet(s) <=> \E i \in 1..n : s[i] = e
  BY HasElements
<1>6. \A e : e \in ToSet(t) <=> \E i \in 1..m : t[i] = e
  BY HasElements
<1>7. \A e : e \in ToSet(u) <=> \E i \in 1..(n + m) : u[i] = e
  BY <1>1 DEF ToSet
<1>. HIDE DEF u, n, m
<1>8. ToSet(u) = ToSet(s) \cup ToSet(t)
  <2>1. ASSUME NEW e \in ToSet(u) PROVE e \in ToSet(s) \cup ToSet(t)
    <3>1. PICK k \in 1..(n + m) : u[k] = e
      BY <1>7
    <3>. QED  BY <1>2, <1>3, <1>4, <1>5, <1>6, <3>1
  <2>2. ASSUME NEW e \in ToSet(s) PROVE e \in ToSet(u)
    BY <1>2, <1>5, <1>7
  <2>3. ASSUME NEW e \in ToSet(t) PROVE e \in ToSet(u)
    BY <1>3, <1>6, <1>7
  <2>. QED  BY <2>1, <2>2, <2>3
<1>9. ASSUME IsInjective(s), IsInjective(t), ToSet(s) \cap ToSet(t) = {}
      PROVE  IsInjective(u)
  <2>. SUFFICES ASSUME NEW a \in 1..(n + m), NEW b \in 1..(n + m), u[a] = u[b] PROVE a = b
    BY <1>1 DEF IsInjective
  <2>1. ASSUME NEW i \in 1..n, NEW j \in 1..m, s[i] = t[j] PROVE FALSE
    BY <1>5, <1>6, <1>9, <2>1
  <2>2. \A i \in 1..n, j \in 1..n : s[i] = s[j] => i = j
    BY <1>1, <1>9 DEF IsInjective
  <2>3. \A i \in 1..m, j \in 1..m : t[i] = t[j] => i = j
    BY <1>1, <1>9 DEF IsInjective
  <2>4. CASE a \in 1..n /\ b \in 1..n
    BY <1>2, <2>2, <2>4
  <2>5. CASE a \in 1..n /\ \E j \in 1..m : b = j + n
    BY <1>2, <1>3, <2>1, <2>5
  <2>6. CASE b \in 1..n /\ \E i \in 1..m : a = i + n
    BY <1>2, <1>3, <2>1, <2>6
  <2>7. CASE (\E i \in 1..m : a = i + n) /\ \E j \in 1..m : b = j + n
    BY <1>3, <2>3, <2>7
  <2>. QED  BY <1>4, <2>4, <2>5, <2>6, <2>7
<1>10. ASSUME IsInjective(u)
       PROVE  IsInjective(s) /\ IsInjective(t) /\ ToSet(s) \cap ToSet(t) = {}
  <2>. USE <1>10
  <2>0. \A a \in 1..(n + m), b \in 1..(n + m) : u[a] = u[b] => a = b
    BY <1>1 DEF IsInjective
  <2>1. IsInjective(s)
    <3>1. \A a \in 1..n, b \in 1..n : s[a] = s[b] => a = b
      BY <1>2, <2>0
    <3>. QED  BY <1>1, <3>1 DEF IsInjective
  <2>2. IsInjective(t)
    <3>1. ASSUME NEW a \in 1..m, NEW b \in 1..m, t[a] = t[b] PROVE a = b
      <4>1. a + n = b + n
        BY <1>3, <2>0, <3>1
      <4>. QED  BY <1>1, <4>1
    <3>. QED  BY <1>1, <3>1 DEF IsInjective
  <2>3. ASSUME NEW e \in ToSet(s), e \in ToSet(t) PROVE FALSE
    <3>1. PICK i \in 1..n : s[i] = e
      BY <1>5
    <3>2. PICK j \in 1..m : t[j] = e
      BY <1>6, <2>3
    <3>3. i = j + n
      BY <1>2, <1>3, <2>0, <3>1, <3>2
    <3>. QED  BY <1>1, <3>3
  <2>. QED  BY <2>1, <2>2, <2>3
<1>. QED  BY <1>1, <1>8, <1>9, <1>10 DEF u

\* Append adds one.
LEMMA AppendHas ==
  ASSUME NEW T, NEW s \in Seq(T), NEW e \in T
  PROVE  /\ Append(s, e) \in Seq(T)
         /\ ToSet(Append(s, e)) = ToSet(s) \cup {e}
         /\ IsInjective(Append(s, e)) <=> IsInjective(s) /\ e \notin ToSet(s)
<1>1. Append(s, e) = s \o <<e>> /\ <<e>> \in Seq(T)
  OBVIOUS
<1>2. ToSet(<<e>>) = {e} /\ IsInjective(<<e>>)
  BY DEF ToSet, IsInjective
<1>3. ToSet(s) \cap {e} = {} <=> e \notin ToSet(s)
  OBVIOUS
<1>4. /\ s \o <<e>> \in Seq(T)
      /\ ToSet(s \o <<e>>) = ToSet(s) \cup ToSet(<<e>>)
      /\ IsInjective(s \o <<e>>) <=>
           IsInjective(s) /\ IsInjective(<<e>>) /\ ToSet(s) \cap ToSet(<<e>>) = {}
  BY <1>1, ConcatHas
<1>. QED  BY <1>1, <1>2, <1>3, <1>4

\* Tail adds none.
LEMMA TailHas ==
  ASSUME NEW T, NEW s \in Seq(T), s # <<>>
  PROVE  Tail(s) \in Seq(T) /\ ToSet(Tail(s)) \subseteq ToSet(s)
<1>1. Tail(s) \in Seq(T) /\ Len(Tail(s)) = Len(s) - 1 /\ Len(s) \in Nat
      /\ \A i \in 1..(Len(s) - 1) : Tail(s)[i] = s[i + 1] /\ i + 1 \in 1..Len(s)
  OBVIOUS
<1>2. \A e : e \in ToSet(s) <=> \E i \in 1..Len(s) : s[i] = e
  BY HasElements
<1>3. \A e : e \in ToSet(Tail(s)) <=> \E i \in 1..(Len(s) - 1) : Tail(s)[i] = e
  BY <1>1, HasElements
<1>. QED  BY <1>1, <1>2, <1>3

(***************************************************************************)
(* The invariant.                                                          *)
(***************************************************************************)

\* What the frames of the app know of the status: while one runs the status
\* stays, and what waits to be sent was put there in this session, which the
\* app has noticed or took for the one before.
FramesInv ==
  /\ lastConnected <=> seen = "Connected"
  /\ phase = "update" => status = seen
  /\ sent # <<>> => seen = "Connected"
  /\ status = "Connected" => session # 0

\* Events that were not read were not sent, and no event is in the buffers
\* twice.
BuffersInv ==
  /\ \A e \in Events : e > cursor => sentIn[e] = <<>>
  /\ IsInjective(old \o new)

EmittedIn(e, s) == emittedIn[e] = <<"Connected", s>>

\* Since a session was noticed it is the only one whose events are in the
\* buffers and wait to be sent.
OwnInv ==
  session \in noticed =>
    /\ status = "Connected" =>
         seen = "Connected" /\ \A e \in ToSet(old \o new) : EmittedIn(e, session)
    /\ \A e \in ToSet(sent) : EmittedIn(e, session)

\* A message is of its session if that was noticed, and it was sent only after
\* the app took the session for its own.
Separate(m) ==
  /\ m[1] \in noticed => EmittedIn(m[2], m[1])
  /\ m[1] = session /\ status = "Connected" => seen = "Connected"

SeparateInv ==
  /\ \A m \in ToSet(link) : Separate(m)
  /\ \A m \in ToSet(inbox) : Separate(m)
  /\ \A m \in ToSet(received) : Separate(m)

\* Messages of removed clients are gone.
SendersInv ==
  /\ \A m \in ToSet(link) : m[1] \in clients
  /\ \A m \in ToSet(inbox) : m[1] \in clients

IInv ==
  /\ TypeOK
  /\ FramesInv
  /\ BuffersInv
  /\ HandledOnce
  /\ OwnInv
  /\ SeparateInv
  /\ SendersInv

-----------------------------------------------------------------------------
(* The initial states.                                                     *)

\* The invariant holds at first.
LEMMA InitIInv ==
  Init => IInv
<1>. SUFFICES ASSUME Init PROVE IInv
  OBVIOUS
<1>. USE DEF Init
<1>1. Len(emittedIn) = 0 /\ Events = {} /\ Sessions = {}
  BY DEF Events, Sessions
<1>2. ToSet(old \o new) = {} /\ IsInjective(old \o new)
  <2>1. old \o new = <<>>
    OBVIOUS
  <2>. QED  BY <2>1, EmptyHas
<1>3. ToSet(local) = {} /\ IsInjective(local)
  BY EmptyHas
<1>4. ToSet(sent) = {} /\ ToSet(link) = {} /\ ToSet(inbox) = {} /\ ToSet(received) = {}
  BY EmptyHas
<1>5. TypeOK
  <2>1. \A S : <<>> \in Seq(S)
    OBVIOUS
  <2>2. old \in Seq(Events) /\ new \in Seq(Events) /\ sent \in Seq(Events) /\ local \in Seq(Events)
    BY <2>1
  <2>3. link \in Seq(Messages) /\ inbox \in Seq(Messages) /\ received \in Seq(Messages)
    BY <2>1
  <2>4. emittedIn \in Seq(Statuses \X (Sessions \cup {0}))
    BY <2>1
  <2>5. sentIn \in [Events -> Seq(Sessions)]
    <3>1. sentIn = [e \in {} |-> <<>>]
      OBVIOUS
    <3>. QED  BY <1>1, <3>1
  <2>6. session \in 0..MaxSessions /\ Len(emittedIn) <= MaxEvents
    BY <1>1, BoundsAssumption
  <2>7. clients \subseteq Sessions /\ noticed \subseteq Sessions /\ cursor \in Events \cup {0}
    OBVIOUS
  <2>. QED  BY <2>2, <2>3, <2>4, <2>5, <2>6, <2>7 DEF TypeOK, Statuses
<1>6. FramesInv
  BY DEF FramesInv
<1>7. BuffersInv
  BY <1>1, <1>2 DEF BuffersInv
<1>8. HandledOnce
  BY <1>1, <1>2, <1>3 DEF HandledOnce
<1>9. OwnInv
  BY DEF OwnInv
<1>10. SeparateInv
  BY <1>4 DEF SeparateInv
<1>11. SendersInv
  BY <1>4 DEF SendersInv
<1>. QED  BY <1>5, <1>6, <1>7, <1>8, <1>9, <1>10, <1>11 DEF IInv

-----------------------------------------------------------------------------
(* The messaging backend of the client.                                    *)

\* StartConnecting changes only the status.
LEMMA StartConnectingStep ==
  ASSUME IInv, StartConnecting
  PROVE  IInv'
<1>. USE DEF IInv, StartConnecting, bufferVars, serverVars, historyVars
<1>1. Events' = Events /\ Sessions' = Sessions /\ Messages' = Messages
  BY DEF Events, Sessions, Messages
<1>2. TypeOK'
  BY <1>1 DEF TypeOK, Statuses
<1>3. FramesInv'
  BY DEF FramesInv
<1>4. BuffersInv'
  BY <1>1 DEF BuffersInv
<1>5. HandledOnce'
  BY <1>1 DEF HandledOnce
<1>6. OwnInv'
  BY DEF OwnInv, EmittedIn
<1>7. SeparateInv'
  BY DEF SeparateInv, Separate, EmittedIn
<1>8. SendersInv'
  BY DEF SendersInv
<1>. QED  BY <1>2, <1>3, <1>4, <1>5, <1>6, <1>7, <1>8

\* Connect begins a session that is not noticed and has no messages.
LEMMA ConnectStep ==
  ASSUME IInv, Connect
  PROVE  IInv'
<1>. USE DEF IInv, Connect, bufferVars, historyVars
<1>1. Events' = Events /\ Sessions \subseteq Sessions' /\ session' \in Sessions'
      /\ Sessions' = 1..session' /\ session' \notin Sessions /\ session' # 0
      /\ session' \in 0..MaxSessions
  BY BoundsAssumption DEF TypeOK, Events, Sessions
<1>2. Messages \subseteq Messages'
  BY <1>1 DEF Messages
<1>3. session' \notin noticed
  BY <1>1 DEF TypeOK
<1>4. TypeOK'
  <2>1. link \in Seq(Messages') /\ inbox \in Seq(Messages') /\ received \in Seq(Messages')
    BY <1>2, SeqMonotonic DEF TypeOK
  <2>2. emittedIn \in Seq(Statuses \X (Sessions' \cup {0}))
    <3>1. Statuses \X (Sessions \cup {0}) \subseteq Statuses \X (Sessions' \cup {0})
      BY <1>1
    <3>. QED  BY <3>1, SeqMonotonic DEF TypeOK
  <2>3. sentIn \in [Events -> Seq(Sessions')]
    <3>1. \A e \in Events : sentIn[e] \in Seq(Sessions')
      <4>. TAKE e \in Events
      <4>1. sentIn[e] \in Seq(Sessions)
        BY DEF TypeOK
      <4>. QED  BY <1>1, <4>1, SeqMonotonic
    <3>. QED  BY <3>1 DEF TypeOK
  <2>4. clients' \subseteq Sessions' /\ noticed \subseteq Sessions'
    BY <1>1 DEF TypeOK
  <2>. QED  BY <1>1, <2>1, <2>2, <2>3, <2>4 DEF TypeOK, Statuses
<1>5. FramesInv'
  BY <1>1 DEF FramesInv
<1>6. BuffersInv'
  BY <1>1 DEF BuffersInv
<1>7. HandledOnce'
  BY <1>1 DEF HandledOnce
<1>8. OwnInv'
  BY <1>3 DEF OwnInv
<1>9. SeparateInv'
  <2>1. ASSUME NEW S, S \in {link, inbox, received}, \A m \in ToSet(S) : Separate(m)
        PROVE  \A m \in ToSet(S) : Separate(m)'
    <3>. TAKE m \in ToSet(S)
    <3>1. m \in Messages
      BY <2>1, HasElements DEF TypeOK
    <3>2. m[1] # session'
      BY <1>1, <3>1 DEF Messages
    <3>. QED  BY <2>1, <3>2 DEF Separate, EmittedIn
  <2>. QED  BY <2>1 DEF SeparateInv
<1>10. SendersInv'
  BY DEF SendersInv
<1>. QED  BY <1>4, <1>5, <1>6, <1>7, <1>8, <1>9, <1>10

\* Disconnect discards what was to be sent.
LEMMA DisconnectStep ==
  ASSUME IInv, Disconnect
  PROVE  IInv'
<1>. USE DEF IInv, Disconnect, Discarded, bufferVars, serverVars, historyVars
<1>1. Events' = Events /\ Sessions' = Sessions /\ Messages' = Messages
  BY DEF Events, Sessions, Messages
<1>2. sent' = <<>> /\ ToSet(sent') = {}
  BY EmptyHas DEF TypeOK
<1>3. TypeOK'
  <2>1. <<>> \in Seq(Events)
    OBVIOUS
  <2>2. sent' \in Seq(Events)
    BY ONLY <1>2, <2>1
  <2>. QED  BY <1>1, <1>2, <2>2 DEF TypeOK, Statuses
<1>4. FramesInv'
  BY <1>2 DEF FramesInv
<1>5. BuffersInv'
  BY <1>1 DEF BuffersInv
<1>6. HandledOnce'
  BY <1>1 DEF HandledOnce
<1>7. OwnInv'
  BY <1>2 DEF OwnInv
<1>8. SeparateInv'
  BY DEF SeparateInv, Separate, EmittedIn
<1>9. SendersInv'
  BY DEF SendersInv
<1>. QED  BY <1>3, <1>4, <1>5, <1>6, <1>7, <1>8, <1>9

\* SendPackets sends in the session of the events, while it lasts.
LEMMA SendPacketsStep ==
  ASSUME IInv, SendPackets
  PROVE  IInv'
<1>. USE DEF IInv, SendPackets, bufferVars, historyVars
<1>1. Events' = Events /\ Sessions' = Sessions /\ Messages' = Messages
  BY DEF Events, Sessions, Messages
<1>2. sent' = <<>> /\ ToSet(sent') = {}
  BY EmptyHas
<1>3. status = "Connected" /\ seen = "Connected" /\ session \in Sessions
  BY DEF TypeOK, FramesInv, Sessions
<1>. DEFINE packets == [i \in DOMAIN sent |-> <<session, sent[i]>>]
<1>4. packets \in Seq(Messages) /\ ToSet(packets) = {<<session, e>> : e \in ToSet(sent)}
  <2>1. /\ DOMAIN sent = 1..Len(sent) /\ Len(sent) \in Nat
        /\ \A i \in 1..Len(sent) : sent[i] \in Events
    BY DEF TypeOK
  <2>2. packets \in [1..Len(sent) -> Messages]
    BY <1>3, <2>1 DEF Messages
  <2>3. packets \in Seq(Messages)
    BY <2>1, <2>2
  <2>4. DOMAIN packets = DOMAIN sent /\ \A i \in DOMAIN sent : packets[i] = <<session, sent[i]>>
    OBVIOUS
  <2>. HIDE DEF packets
  <2>5. ToSet(packets) = {<<session, e>> : e \in ToSet(sent)}
    BY <2>4 DEF ToSet
  <2>. QED  BY <2>3, <2>5
<1>5. link' = link \/ (session \in clients /\ link' = link \o packets)
  OBVIOUS
<1>. HIDE DEF packets
<1>6. link' \in Seq(Messages)
      /\ \A m \in ToSet(link') :
           m \in ToSet(link) \/ (session \in clients /\ \E e \in ToSet(sent) : m = <<session, e>>)
  <2>1. CASE link' = link
    BY <2>1 DEF TypeOK
  <2>2. CASE session \in clients /\ link' = link \o packets
    <3>1. link \in Seq(Messages)
      BY DEF TypeOK
    <3>2. /\ link \o packets \in Seq(Messages)
          /\ ToSet(link \o packets) = ToSet(link) \cup ToSet(packets)
      BY <1>4, <3>1, ConcatHas
    <3>. QED  BY <1>4, <2>2, <3>2
  <2>. QED  BY <1>5, <2>1, <2>2
<1>7. TypeOK'
  <2>1. sent' \in Seq(Events)
    BY <1>2
  <2>. QED  BY <1>1, <1>2, <1>6, <2>1 DEF TypeOK
<1>8. FramesInv'
  BY <1>2 DEF FramesInv
<1>9. BuffersInv'
  BY <1>1 DEF BuffersInv
<1>10. HandledOnce'
  BY <1>1 DEF HandledOnce
<1>11. OwnInv'
  BY <1>2 DEF OwnInv, EmittedIn
<1>12. SeparateInv'
  <2>1. \A m : Separate(m)' <=> Separate(m)
    BY DEF Separate, EmittedIn
  <2>2. ASSUME NEW m \in ToSet(link') PROVE Separate(m)
    <3>1. CASE m \in ToSet(link)
      BY <3>1 DEF SeparateInv
    <3>2. ASSUME NEW e \in ToSet(sent), m = <<session, e>> PROVE Separate(m)
      BY <1>3, <3>2 DEF OwnInv, Separate
    <3>. QED  BY <1>6, <3>1, <3>2
  <2>. QED  BY <2>1, <2>2 DEF SeparateInv
<1>13. SendersInv'
  <2>1. ASSUME NEW m \in ToSet(link') PROVE m[1] \in clients
    <3>1. CASE m \in ToSet(link)
      BY <3>1 DEF SendersInv
    <3>2. CASE session \in clients /\ \E e \in ToSet(sent) : m = <<session, e>>
      <4>1. m[1] = session
        BY <3>2
      <4>. QED  BY <3>2, <4>1
    <3>. QED  BY <1>6, <3>1, <3>2
  <2>. QED  BY <2>1 DEF SendersInv
<1>. QED  BY <1>7, <1>8, <1>9, <1>10, <1>11, <1>12, <1>13

-----------------------------------------------------------------------------
(* Frames of the client app.                                               *)

\* Emit adds an event that is newer than any other.
LEMMA EmitStep ==
  ASSUME IInv, Emit
  PROVE  IInv'
<1>. DEFINE n == Len(emittedIn) + 1
<1>1. /\ emittedIn \in Seq(Statuses \X (Sessions \cup {0}))
      /\ <<status, session>> \in Statuses \X (Sessions \cup {0})
  <2>1. session \in Sessions \cup {0}
    BY BoundsAssumption DEF IInv, TypeOK, Sessions
  <2>. QED  BY <2>1 DEF IInv, TypeOK
<1>2. /\ Len(emittedIn) \in Nat
      /\ emittedIn' \in Seq(Statuses \X (Sessions \cup {0}))
      /\ Len(emittedIn') = n
      /\ emittedIn'[n] = <<status, session>>
      /\ \A e \in 1..Len(emittedIn) : emittedIn'[e] = emittedIn[e]
  BY <1>1 DEF Emit
<1>3. /\ Events' = Events \cup {n} /\ n \notin Events /\ n \in Nat
      /\ Events \subseteq Nat /\ \A e \in Events : e < n
  BY <1>2 DEF Events
<1>4. Sessions' = Sessions /\ Messages \subseteq Messages'
  BY <1>3 DEF Emit, Sessions, Messages
<1>5. Len(emittedIn') <= MaxEvents
  BY <1>2, BoundsAssumption DEF Emit
<1>6. /\ sentIn' \in [Events' -> Seq(Sessions)]
      /\ sentIn'[n] = <<>>
      /\ \A e \in Events : sentIn'[e] = sentIn[e]
  <2>1. sentIn \in [1..(n - 1) -> Seq(Sessions)] /\ <<>> \in Seq(Sessions) /\ n - 1 \in Nat
    BY <1>2 DEF IInv, TypeOK, Events
  <2>. DEFINE T == Seq(Sessions)
              none == <<>>
  <2>2. sentIn \in [1..(n - 1) -> T] /\ none \in T /\ n - 1 \in Nat
    BY <2>1
  <2>. HIDE DEF T, none
  <2>3. sentIn \in Seq(T) /\ Len(sentIn) = n - 1
    BY <2>2
  <2>4. /\ Append(sentIn, none) \in [1..n -> T]
        /\ Append(sentIn, none)[n] = none
        /\ \A e \in 1..(n - 1) : Append(sentIn, none)[e] = sentIn[e]
    <3>1. Append(sentIn, none) \in Seq(T) /\ Len(Append(sentIn, none)) = (n - 1) + 1
      BY <2>2, <2>3
    <3>2. (n - 1) + 1 = n
      BY <2>2, <1>2 DEF n
    <3>3. Append(sentIn, none)[(n - 1) + 1] = none
      BY <2>2, <2>3
    <3>4. \A e \in 1..(n - 1) : Append(sentIn, none)[e] = sentIn[e]
      BY <2>2, <2>3
    <3>5. Append(sentIn, none) \in [1..n -> T]
      <4>1. \A a \in Seq(T) : a \in [1..Len(a) -> T]
        OBVIOUS
      <4>2. Len(Append(sentIn, none)) = n
        BY <3>1, <3>2
      <4>. QED  BY <3>1, <4>1, <4>2, Zenon
    <3>. QED  BY <3>2, <3>3, <3>4, <3>5
  <2>5. sentIn' = Append(sentIn, none)
    BY DEF Emit, none
  <2>6. Events' = 1..n /\ Events = 1..(n - 1)
    BY <1>2 DEF Events
  <2>. QED  BY <2>4, <2>5, <2>6 DEF T, none
<1>. HIDE DEF n
<1>7. new' \in Seq(Events') /\ old \in Seq(Events') /\ old \in Seq(Events) /\ new \in Seq(Events)
  <2>1. old \in Seq(Events) /\ new \in Seq(Events)
    BY DEF IInv, TypeOK
  <2>2. old \in Seq(Events') /\ new \in Seq(Events')
    BY <1>3, <2>1, SeqMonotonic
  <2>3. new' = Append(new, n) /\ n \in Events'
    BY <1>3 DEF Emit, n
  <2>. QED  BY <2>1, <2>2, <2>3, AppendHas
<1>8. /\ ToSet(old \o new') = ToSet(old \o new) \cup {n}
      /\ IsInjective(old \o new')
      /\ ToSet(old \o new) \subseteq Events
  <2>1. new' = Append(new, n) /\ n \in Events'
    BY <1>3 DEF Emit, n
  <2>2. old \in Seq(Events') /\ new \in Seq(Events')
    BY <1>3, <1>7, SeqMonotonic
  <2>3. /\ old \o new \in Seq(Events')
        /\ ToSet(old \o new) = ToSet(old) \cup ToSet(new)
        /\ IsInjective(old \o new) <=>
             IsInjective(old) /\ IsInjective(new) /\ ToSet(old) \cap ToSet(new) = {}
    BY <2>2, ConcatHas
  <2>4. /\ ToSet(new') = ToSet(new) \cup {n}
        /\ IsInjective(new') <=> IsInjective(new) /\ n \notin ToSet(new)
    BY <2>1, <2>2, AppendHas
  <2>5. /\ ToSet(old \o new') = ToSet(old) \cup ToSet(new')
        /\ IsInjective(old \o new') <=>
             IsInjective(old) /\ IsInjective(new') /\ ToSet(old) \cap ToSet(new') = {}
    BY <1>7, ConcatHas
  <2>6. ToSet(old) \subseteq Events /\ ToSet(new) \subseteq Events
    BY <1>7, HasElements
  <2>7. IsInjective(old \o new)
    BY DEF IInv, BuffersInv
  <2>. QED  BY <1>3, <2>3, <2>4, <2>5, <2>6, <2>7
<1>9. TypeOK'
  <2>1. sent \in Seq(Events') /\ local \in Seq(Events')
    <3>1. sent \in Seq(Events) /\ local \in Seq(Events)
      BY DEF IInv, TypeOK
    <3>. QED  BY <1>3, <3>1, SeqMonotonic
  <2>2. link \in Seq(Messages') /\ inbox \in Seq(Messages') /\ received \in Seq(Messages')
    <3>1. link \in Seq(Messages) /\ inbox \in Seq(Messages) /\ received \in Seq(Messages)
      BY DEF IInv, TypeOK
    <3>. QED  BY <1>4, <3>1, SeqMonotonic
  <2>3. cursor \in Events' \cup {0}
    BY <1>3 DEF IInv, TypeOK
  <2>4. UNCHANGED <<phase, status, session, lastConnected, old, cursor, sent, local,
                    link, clients, inbox, received, seen, noticed>>
    BY DEF Emit, serverVars
  <2>. QED  BY <1>2, <1>4, <1>5, <1>6, <1>7, <2>1, <2>2, <2>3, <2>4 DEF IInv, TypeOK
<1>10. UNCHANGED <<phase, status, session, lastConnected, old, cursor, sent, local,
                   link, clients, inbox, received, seen, noticed>>
  BY DEF Emit, serverVars
<1>11. \A e \in Events : \A s : EmittedIn(e, s)' <=> EmittedIn(e, s)
  BY <1>2 DEF EmittedIn, Events
<1>12. FramesInv'
  BY <1>10 DEF IInv, FramesInv
<1>13. BuffersInv'
  <2>1. \A e \in Events' : e > cursor => sentIn'[e] = <<>>
    BY <1>3, <1>6 DEF IInv, BuffersInv
  <2>. QED  BY <1>8, <1>10, <2>1 DEF BuffersInv
<1>14. HandledOnce'
  <2>1. ASSUME NEW e \in Events' PROVE Len(sentIn'[e]) <= 1
    <3>1. CASE e \in Events
      BY <1>6, <3>1 DEF IInv, HandledOnce
    <3>2. CASE e = n
      <4>1. Len(sentIn'[e]) = 0
        BY <1>6, <3>2
      <4>. QED  BY <4>1
    <3>. QED  BY <1>3, <3>1, <3>2
  <2>2. ToSet(local) \subseteq Events
    <3>1. local \in Seq(Events)
      BY DEF IInv, TypeOK
    <3>. QED  BY <3>1, HasElements
  <2>3. ToSet(local) \cap ToSet(old \o new') = {}
    BY <1>3, <1>8, <2>2 DEF IInv, HandledOnce
  <2>. QED  BY <1>10, <2>1, <2>3 DEF IInv, HandledOnce
<1>15. OwnInv'
  <2>. SUFFICES ASSUME session \in noticed
                PROVE  /\ status = "Connected" =>
                            /\ seen = "Connected"
                            /\ \A e \in ToSet(old \o new') : EmittedIn(e, session)'
                       /\ \A e \in ToSet(sent) : EmittedIn(e, session)'
    BY <1>10 DEF OwnInv
  <2>0. /\ status = "Connected" =>
             seen = "Connected" /\ \A e \in ToSet(old \o new) : EmittedIn(e, session)
        /\ \A e \in ToSet(sent) : EmittedIn(e, session)
    BY DEF IInv, OwnInv
  <2>1. ASSUME NEW e \in ToSet(sent) PROVE EmittedIn(e, session)'
    <3>1. sent \in Seq(Events)
      BY DEF IInv, TypeOK
    <3>2. ToSet(sent) \subseteq Events
      BY <3>1, HasElements
    <3>3. e \in Events /\ EmittedIn(e, session)
      BY <2>0, <3>2
    <3>. QED  BY <1>10, <1>11, <3>3
  <2>2. ASSUME status = "Connected", NEW e \in ToSet(old \o new')
        PROVE  EmittedIn(e, session)'
    <3>1. CASE e \in ToSet(old \o new)
      <4>1. e \in Events /\ EmittedIn(e, session)
        BY <1>8, <2>0, <2>2, <3>1
      <4>. QED  BY <1>10, <1>11, <4>1
    <3>2. CASE e = n
      BY <1>2, <1>10, <2>2, <3>2 DEF EmittedIn
    <3>. QED  BY <1>8, <3>1, <3>2
  <2>. QED  BY <2>0, <2>1, <2>2
<1>16. SeparateInv'
  <2>1. ASSUME NEW S, S \in {link, inbox, received}, \A m \in ToSet(S) : Separate(m)
        PROVE  \A m \in ToSet(S) : Separate(m)'
    <3>. TAKE m \in ToSet(S)
    <3>1. m \in Messages
      <4>1. S \in Seq(Messages)
        BY <2>1 DEF IInv, TypeOK
      <4>. QED  BY <4>1, HasElements
    <3>2. m[2] \in Events
      BY <3>1 DEF Messages
    <3>3. EmittedIn(m[2], m[1])' <=> EmittedIn(m[2], m[1])
      BY <1>11, <3>2
    <3>. QED  BY <1>10, <2>1, <3>3 DEF Separate
  <2>. QED  BY <1>10, <2>1 DEF IInv, SeparateInv
<1>17. SendersInv'
  BY <1>10 DEF IInv, SendersInv
<1>. QED  BY <1>9, <1>12, <1>13, <1>14, <1>15, <1>16, <1>17 DEF IInv

\* What BeginFrame does to the buffers: it drops events from them, and all if
\* the app notices a session.
LEMMA BeginFrameBuffers ==
  ASSUME IInv, NEW update \in BOOLEAN, BeginFrame(update)
  PROVE  /\ old' \in Seq(Events) /\ new' \in Seq(Events)
         /\ ToSet(old' \o new') \subseteq ToSet(old \o new)
         /\ IsInjective(old' \o new')
         /\ JustConnected => ToSet(old' \o new') = {}
<1>1. old \in Seq(Events) /\ new \in Seq(Events) /\ <<>> \in Seq(Events)
  BY DEF IInv, TypeOK
<1>2. IsInjective(old \o new)
  BY DEF IInv, BuffersInv
<1>3. CASE JustConnected
  <2>1. old' = <<>> /\ new' = <<>>
    BY <1>3 DEF BeginFrame, Drained
  <2>2. old' \o new' = <<>>
    BY <2>1
  <2>. QED  BY <1>1, <2>1, <2>2, EmptyHas
<1>4. CASE ~JustConnected /\ update
  <2>1. old' = new /\ new' = <<>>
    BY <1>4 DEF BeginFrame
  <2>2. old' \o new' = new
    BY <1>1, <2>1
  <2>3. /\ ToSet(old \o new) = ToSet(old) \cup ToSet(new)
        /\ IsInjective(old \o new) <=>
             IsInjective(old) /\ IsInjective(new) /\ ToSet(old) \cap ToSet(new) = {}
    BY <1>1, ConcatHas
  <2>. QED  BY <1>1, <1>2, <1>4, <2>1, <2>2, <2>3
<1>5. CASE ~JustConnected /\ ~update
  <2>1. old' = old /\ new' = new
    BY <1>5 DEF BeginFrame
  <2>. QED  BY <1>1, <1>2, <1>5, <2>1
<1>. QED  BY <1>3, <1>4, <1>5

\* BeginFrame notices a session only when none of its events are waiting.
LEMMA BeginFrameStep ==
  ASSUME IInv, NEW update \in BOOLEAN, BeginFrame(update)
  PROVE  IInv'
<1>1. Events' = Events /\ Sessions' = Sessions /\ Messages' = Messages
  BY DEF BeginFrame, Events, Sessions, Messages
<1>2. /\ old' \in Seq(Events) /\ new' \in Seq(Events)
      /\ ToSet(old' \o new') \subseteq ToSet(old \o new)
      /\ IsInjective(old' \o new')
      /\ JustConnected => ToSet(old' \o new') = {}
  BY BeginFrameBuffers
<1>3. UNCHANGED <<status, session, cursor, sent, local, link, clients, inbox, received,
                  emittedIn, sentIn>>
  BY DEF BeginFrame, serverVars
<1>4. /\ phase' = "update" /\ seen' = status
      /\ lastConnected' = (status = "Connected")
  BY DEF BeginFrame, Noted
<1>5. JustConnected <=> seen # "Connected" /\ status = "Connected"
  BY DEF JustConnected, IInv, FramesInv
<1>6. noticed' = IF JustConnected THEN noticed \cup {session} ELSE noticed
  BY <1>5 DEF BeginFrame
<1>7. status = "Connected" => session \in Sessions
  BY DEF IInv, TypeOK, FramesInv, Sessions
<1>8. TypeOK'
  <2>1. noticed' \subseteq Sessions
    BY <1>5, <1>6, <1>7 DEF IInv, TypeOK
  <2>2. lastConnected' \in BOOLEAN /\ phase' \in {"receive", "update"}
    BY <1>4
  <2>. QED  BY <1>1, <1>2, <1>3, <1>4, <2>1, <2>2 DEF IInv, TypeOK
<1>9. FramesInv'
  <2>1. lastConnected' <=> seen' = "Connected"
    BY <1>4
  <2>2. sent # <<>> => status = "Connected"
    BY DEF IInv, TypeOK
  <2>. QED  BY <1>3, <1>4, <2>1, <2>2 DEF IInv, FramesInv
<1>10. BuffersInv'
  BY <1>1, <1>2, <1>3 DEF IInv, BuffersInv
<1>11. HandledOnce'
  BY <1>1, <1>2, <1>3 DEF IInv, HandledOnce
<1>12. \A e, s : EmittedIn(e, s)' <=> EmittedIn(e, s)
  BY <1>3 DEF EmittedIn
<1>13. OwnInv'
  <2>. SUFFICES ASSUME session \in noticed'
                PROVE  /\ status = "Connected" =>
                            \A e \in ToSet(old' \o new') : EmittedIn(e, session)
                       /\ \A e \in ToSet(sent) : EmittedIn(e, session)
    BY <1>3, <1>4, <1>12 DEF OwnInv
  <2>1. CASE JustConnected
    <3>1. sent = <<>>
      BY <1>5, <2>1 DEF IInv, FramesInv
    <3>2. ToSet(sent) = {}
      BY <3>1, EmptyHas
    <3>. QED  BY <1>2, <2>1, <3>2
  <2>2. CASE ~JustConnected
    BY <1>2, <1>6, <2>2 DEF IInv, OwnInv
  <2>. QED  BY <2>1, <2>2
<1>14. SeparateInv'
  <2>1. ASSUME NEW m, Separate(m) PROVE Separate(m)'
    BY <1>3, <1>4, <1>5, <1>6, <1>12, <2>1 DEF Separate
  <2>. QED  BY <1>3, <2>1 DEF IInv, SeparateInv
<1>15. SendersInv'
  BY <1>3 DEF IInv, SendersInv
<1>. QED  BY <1>8, <1>9, <1>10, <1>11, <1>13, <1>14, <1>15 DEF IInv

\* What EndFrame sends: what is in the buffers and was not read yet.
LEMMA UnreadHas ==
  ASSUME IInv
  PROVE  /\ Unread \in Seq(Events)
         /\ ToSet(Unread) = {e \in ToSet(old \o new) : e \in Events /\ e > cursor}
<1>1. old \o new \in Seq(Events)
  BY ConcatHas DEF IInv, TypeOK
<1>. DEFINE S == {e \in Events : e > cursor}
            buffer == old \o new
<1>2. Unread = Selected(buffer, S)
  BY DEF Unread
<1>3. buffer \in Seq(Events)
  BY <1>1
<1>. HIDE DEF S, buffer
<1>4. Selected(buffer, S) \in Seq(Events) /\ ToSet(Selected(buffer, S)) = ToSet(buffer) \cap S
  BY <1>3, SelectedHas
<1>. QED  BY <1>2, <1>4 DEF S, buffer

\* EndFrame while the client is connected: what was not read is sent, and then
\* everything was read.
LEMMA EndFrameConnected ==
  ASSUME IInv, EndFrame, status = "Connected"
  PROVE  IInv'
<1>1. Events' = Events /\ Sessions' = Sessions /\ Messages' = Messages
  BY DEF EndFrame, Events, Sessions, Messages
<1>2. /\ phase' = "receive"
      /\ sent' = sent \o Unread
      /\ cursor' = Len(emittedIn)
      /\ sentIn' = [e \in Events |->
           IF e \in ToSet(Unread) THEN Append(sentIn[e], session) ELSE sentIn[e]]
      /\ UNCHANGED <<old, new, local, status, session, lastConnected, link, clients, inbox,
                     received, emittedIn, seen, noticed>>
  BY DEF EndFrame, serverVars
<1>3. /\ Unread \in Seq(Events)
      /\ ToSet(Unread) = {e \in ToSet(old \o new) : e \in Events /\ e > cursor}
  BY UnreadHas
<1>4. sent' \in Seq(Events) /\ ToSet(sent') = ToSet(sent) \cup ToSet(Unread)
  <2>1. sent \in Seq(Events)
    BY DEF IInv, TypeOK
  <2>. QED  BY <1>2, <1>3, <2>1, ConcatHas
<1>5. session \in Sessions /\ seen = "Connected"
  BY DEF IInv, TypeOK, FramesInv, Sessions, EndFrame
<1>6. Len(emittedIn) \in Nat /\ Events = 1..Len(emittedIn)
  BY DEF IInv, TypeOK, Events
<1>7. ASSUME NEW e \in Events
      PROVE  sentIn'[e] \in Seq(Sessions) /\ Len(sentIn'[e]) <= 1
  <2>1. sentIn[e] \in Seq(Sessions) /\ Len(sentIn[e]) <= 1 /\ (e > cursor => sentIn[e] = <<>>)
    BY DEF IInv, TypeOK, HandledOnce, BuffersInv
  <2>2. sentIn'[e] = IF e \in ToSet(Unread) THEN Append(sentIn[e], session) ELSE sentIn[e]
    BY <1>2
  <2>3. CASE e \in ToSet(Unread)
    <3>1. sentIn[e] = <<>>
      BY <1>3, <2>1, <2>3
    <3>2. Append(sentIn[e], session) \in Seq(Sessions)
      BY <1>5, <2>1
    <3>3. sentIn'[e] = <<session>>
      BY <2>2, <2>3, <3>1
    <3>4. Len(<<session>>) = 1
      OBVIOUS
    <3>. QED  BY <2>2, <2>3, <3>2, <3>3, <3>4
  <2>. QED  BY <2>1, <2>2, <2>3
<1>8. TypeOK'
  <2>1. sentIn' \in [Events -> Seq(Sessions)]
    BY <1>2, <1>7
  <2>2. cursor' \in Events \cup {0}
    BY <1>2, <1>6
  <2>3. phase' \in {"receive", "update"}
    BY <1>2
  <2>. QED  BY <1>1, <1>2, <1>4, <2>1, <2>2, <2>3 DEF IInv, TypeOK
<1>9. FramesInv'
  BY <1>2, <1>5 DEF IInv, FramesInv
<1>10. BuffersInv'
  <2>1. \A e \in Events : ~(e > cursor')
    BY <1>2, <1>6
  <2>. QED  BY <1>1, <1>2, <2>1 DEF IInv, BuffersInv
<1>11. HandledOnce'
  BY <1>1, <1>2, <1>7 DEF IInv, HandledOnce
<1>12. \A e, s : EmittedIn(e, s)' <=> EmittedIn(e, s)
  BY <1>2 DEF EmittedIn
<1>13. OwnInv'
  <2>. SUFFICES ASSUME session \in noticed
                PROVE  /\ \A e \in ToSet(old \o new) : EmittedIn(e, session)
                       /\ \A e \in ToSet(sent') : EmittedIn(e, session)
    BY <1>2, <1>5, <1>12 DEF OwnInv
  <2>1. /\ \A e \in ToSet(old \o new) : EmittedIn(e, session)
        /\ \A e \in ToSet(sent) : EmittedIn(e, session)
    BY DEF IInv, OwnInv
  <2>. QED  BY <1>3, <1>4, <2>1
<1>14. SeparateInv'
  <2>1. ASSUME NEW m, Separate(m) PROVE Separate(m)'
    BY <1>2, <1>12, <2>1 DEF Separate
  <2>. QED  BY <1>2, <2>1 DEF IInv, SeparateInv
<1>15. SendersInv'
  BY <1>2 DEF IInv, SendersInv
<1>. QED  BY <1>8, <1>9, <1>10, <1>11, <1>13, <1>14, <1>15 DEF IInv

\* What EndFrame re-emits: events that were not re-emitted, from buffers that
\* are empty after that.
LEMMA ReEmittedOnce ==
  ASSUME IInv, EndFrame, status # "Connected"
  PROVE  /\ old' \in Seq(Events) /\ new' \in Seq(Events) /\ local' \in Seq(Events)
         /\ ToSet(old' \o new') \subseteq ToSet(old \o new)
         /\ IsInjective(old' \o new') /\ IsInjective(local')
         /\ ToSet(local') \cap ToSet(old' \o new') = {}
<1>1. old \in Seq(Events) /\ new \in Seq(Events) /\ local \in Seq(Events) /\ <<>> \in Seq(Events)
  BY DEF IInv, TypeOK
<1>2. /\ IsInjective(old \o new) /\ IsInjective(local)
      /\ ToSet(local) \cap ToSet(old \o new) = {}
  BY DEF IInv, BuffersInv, HandledOnce
<1>3. CASE status = "Disconnected"
  <2>1. old' = <<>> /\ new' = <<>> /\ local' = local \o (old \o new)
    BY <1>3 DEF EndFrame, Drained, ReEmitted
  <2>2. old' \o new' = <<>>
    BY <2>1
  <2>3. old \o new \in Seq(Events)
    BY <1>1
  <2>4. /\ local \o (old \o new) \in Seq(Events)
        /\ IsInjective(local \o (old \o new)) <=>
             /\ IsInjective(local) /\ IsInjective(old \o new)
             /\ ToSet(local) \cap ToSet(old \o new) = {}
    BY <1>1, <2>3, ConcatHas
  <2>. QED  BY <1>1, <1>2, <2>1, <2>2, <2>4, EmptyHas
<1>4. CASE status # "Disconnected"
  <2>1. UNCHANGED <<old, new, local>>
    BY <1>4 DEF EndFrame
  <2>. QED  BY <1>1, <1>2, <2>1
<1>. QED  BY <1>3, <1>4

\* EndFrame while the client is not connected.
LEMMA EndFrameElse ==
  ASSUME IInv, EndFrame, status # "Connected"
  PROVE  IInv'
<1>1. Events' = Events /\ Sessions' = Sessions /\ Messages' = Messages
  BY DEF EndFrame, Events, Sessions, Messages
<1>2. /\ phase' = "receive"
      /\ UNCHANGED <<sent, cursor, sentIn, status, session, lastConnected, link, clients, inbox,
                     received, emittedIn, seen, noticed>>
  BY DEF EndFrame, serverVars
<1>3. /\ old' \in Seq(Events) /\ new' \in Seq(Events) /\ local' \in Seq(Events)
      /\ IsInjective(old' \o new') /\ IsInjective(local')
      /\ ToSet(local') \cap ToSet(old' \o new') = {}
  BY ReEmittedOnce
<1>4. TypeOK'
  <2>1. phase' \in {"receive", "update"}
    BY <1>2
  <2>. QED  BY <1>1, <1>2, <1>3, <2>1 DEF IInv, TypeOK
<1>5. FramesInv'
  BY <1>2 DEF IInv, FramesInv
<1>6. BuffersInv'
  BY <1>1, <1>2, <1>3 DEF IInv, BuffersInv
<1>7. HandledOnce'
  BY <1>1, <1>2, <1>3 DEF IInv, HandledOnce
<1>8. \A e, s : EmittedIn(e, s)' <=> EmittedIn(e, s)
  BY <1>2 DEF EmittedIn
<1>9. OwnInv'
  BY <1>2, <1>8 DEF IInv, OwnInv
<1>10. SeparateInv'
  <2>1. ASSUME NEW m, Separate(m) PROVE Separate(m)'
    BY <1>2, <1>8, <2>1 DEF Separate
  <2>. QED  BY <1>2, <2>1 DEF IInv, SeparateInv
<1>11. SendersInv'
  BY <1>2 DEF IInv, SendersInv
<1>. QED  BY <1>4, <1>5, <1>6, <1>7, <1>9, <1>10, <1>11 DEF IInv

-----------------------------------------------------------------------------
(* The server.                                                             *)

\* Steps of the server that let messages go on, or drop them.
LEMMA ServerStep ==
  ASSUME IInv, UNCHANGED <<clientVars, historyVars>>,
         link' \in Seq(Messages), inbox' \in Seq(Messages), received' \in Seq(Messages),
         clients' \subseteq clients,
         ToSet(link') \subseteq ToSet(link),
         ToSet(inbox') \subseteq ToSet(link) \cup ToSet(inbox),
         ToSet(received') \subseteq ToSet(inbox) \cup ToSet(received),
         \A m \in ToSet(link') \cup ToSet(inbox') : m[1] \in clients => m[1] \in clients'
  PROVE  IInv'
<1>1. UNCHANGED <<phase, status, session, lastConnected, old, new, cursor, sent, local,
                  emittedIn, sentIn, seen, noticed>>
  BY DEF clientVars, bufferVars, historyVars
<1>2. Events' = Events /\ Sessions' = Sessions /\ Messages' = Messages
  BY <1>1 DEF Events, Sessions, Messages
<1>3. TypeOK'
  <2>1. clients' \subseteq Sessions
    BY DEF IInv, TypeOK
  <2>. QED  BY <1>1, <1>2, <2>1 DEF IInv, TypeOK
<1>4. FramesInv'
  BY <1>1 DEF IInv, FramesInv
<1>5. BuffersInv'
  BY <1>1, <1>2 DEF IInv, BuffersInv
<1>6. HandledOnce'
  BY <1>1, <1>2 DEF IInv, HandledOnce
<1>7. \A e, s : EmittedIn(e, s)' <=> EmittedIn(e, s)
  BY <1>1 DEF EmittedIn
<1>8. OwnInv'
  BY <1>1, <1>7 DEF IInv, OwnInv
<1>9. SeparateInv'
  <2>1. ASSUME NEW m, Separate(m) PROVE Separate(m)'
    BY <1>1, <1>7, <2>1 DEF Separate
  <2>. QED  BY <2>1 DEF IInv, SeparateInv
<1>10. SendersInv'
  BY DEF IInv, SendersInv
<1>. QED  BY <1>3, <1>4, <1>5, <1>6, <1>8, <1>9, <1>10 DEF IInv

\* ReceivePacket moves a message.
LEMMA ReceivePacketStep ==
  ASSUME IInv, ReceivePacket
  PROVE  IInv'
<1>1. /\ link # <<>> /\ link' = Tail(link) /\ inbox' = Append(inbox, Head(link))
      /\ UNCHANGED <<clientVars, clients, received, historyVars>>
  BY DEF ReceivePacket
<1>2. link \in Seq(Messages) /\ inbox \in Seq(Messages) /\ received \in Seq(Messages)
  BY DEF IInv, TypeOK
<1>3. Head(link) \in ToSet(link) /\ ToSet(link) \subseteq Messages
  BY <1>1, <1>2, HasElements
<1>4. link' \in Seq(Messages) /\ ToSet(link') \subseteq ToSet(link)
  BY <1>1, <1>2, TailHas
<1>5. Head(link) \in Messages
  BY <1>3
<1>6. inbox' \in Seq(Messages) /\ ToSet(inbox') = ToSet(inbox) \cup {Head(link)}
  BY <1>1, <1>2, <1>5, AppendHas
<1>7. ToSet(inbox') \subseteq ToSet(link) \cup ToSet(inbox)
  BY <1>3, <1>6
<1>. QED  BY <1>1, <1>2, <1>4, <1>6, <1>7, ServerStep

\* Receive emits the messages.
LEMMA ReceiveStep ==
  ASSUME IInv, Receive
  PROVE  IInv'
<1>1. /\ inbox' = <<>> /\ received' = received \o inbox
      /\ UNCHANGED <<clientVars, link, clients, historyVars>>
  BY DEF Receive
<1>2. /\ link \in Seq(Messages) /\ inbox \in Seq(Messages) /\ received \in Seq(Messages)
      /\ <<>> \in Seq(Messages)
  BY DEF IInv, TypeOK
<1>3. received' \in Seq(Messages) /\ ToSet(received') = ToSet(received) \cup ToSet(inbox)
  BY <1>1, <1>2, ConcatHas
<1>4. ToSet(inbox') = {} /\ inbox' \in Seq(Messages)
  BY <1>1, <1>2, EmptyHas
<1>. QED  BY <1>1, <1>2, <1>3, <1>4, ServerStep

\* RemoveClient drops the messages of the client.
LEMMA RemoveClientStep ==
  ASSUME IInv, NEW s \in Sessions, RemoveClient(s)
  PROVE  IInv'
<1>1. /\ clients' = clients \ {s}
      /\ link' = Selected(link, FromOthers(s))
      /\ inbox' = Selected(inbox, FromOthers(s))
      /\ UNCHANGED <<clientVars, received, historyVars>>
  BY DEF RemoveClient, WithoutClient
<1>2. link \in Seq(Messages) /\ inbox \in Seq(Messages) /\ received \in Seq(Messages)
  BY DEF IInv, TypeOK
<1>3. link' \in Seq(Messages) /\ ToSet(link') = ToSet(link) \cap FromOthers(s)
  BY <1>1, <1>2, SelectedHas
<1>4. inbox' \in Seq(Messages) /\ ToSet(inbox') = ToSet(inbox) \cap FromOthers(s)
  BY <1>1, <1>2, SelectedHas
<1>5. \A m \in FromOthers(s) : m[1] # s
  BY DEF FromOthers
<1>6. \A m \in ToSet(link') \cup ToSet(inbox') : m[1] \in clients => m[1] \in clients'
  BY <1>1, <1>3, <1>4, <1>5
<1>. QED  BY <1>1, <1>2, <1>3, <1>4, <1>6, ServerStep

(***************************************************************************)
(* The stream of events.  Numbers of events rise from where they were read *)
(* to where they still wait.                                               *)
(***************************************************************************)

Rising(s)   == \A i, j \in 1..Len(s) : i < j => s[i] < s[j]
Below(S, T) == \A x \in S, y \in T : x < y

\* The events of a sequence of messages.
Numbers(s) == [i \in DOMAIN s |-> s[i][2]]

\* What was sent is on its way to the game code of the server, in order, and was
\* read from the buffers, where the others are, in order as well.
Way == Numbers(received) \o (Numbers(inbox) \o (Numbers(link) \o sent))

OrderInv ==
  /\ Rising(local \o (old \o new))
  /\ Rising(Way)
  /\ \A e \in ToSet(Way) : e <= cursor

\* A concatenation rises if its parts do, and the first stays below the second.
LEMMA ConcatRises ==
  ASSUME NEW s \in Seq(Nat), NEW t \in Seq(Nat)
  PROVE  /\ s \o t \in Seq(Nat)
         /\ Rising(s \o t) <=> Rising(s) /\ Rising(t) /\ Below(ToSet(s), ToSet(t))
<1>. DEFINE u == s \o t
            n == Len(s)
            m == Len(t)
<1>1. n \in Nat /\ m \in Nat /\ Len(u) = n + m /\ u \in Seq(Nat)
  OBVIOUS
<1>2. \A i \in 1..n : u[i] = s[i] /\ i \in 1..(n + m)
  OBVIOUS
<1>3. \A i \in 1..m : u[i + n] = t[i] /\ i + n \in 1..(n + m)
  OBVIOUS
<1>4. \A k \in 1..(n + m) : k \in 1..n \/ \E i \in 1..m : k = i + n
  <2>. TAKE k \in 1..(n + m)
  <2>1. CASE k <= n
    BY <1>1, <2>1
  <2>2. CASE ~(k <= n)
    <3>1. k - n \in 1..m /\ k = (k - n) + n
      BY <1>1, <2>2
    <3>. QED  BY <3>1
  <2>. QED  BY <2>1, <2>2
<1>5. \A e : e \in ToSet(s) <=> \E i \in 1..n : s[i] = e
  BY HasElements
<1>6. \A e : e \in ToSet(t) <=> \E i \in 1..m : t[i] = e
  BY HasElements
<1>. HIDE DEF u
<1>7. ASSUME Rising(s), Rising(t), Below(ToSet(s), ToSet(t))
      PROVE  Rising(u)
  <2>. SUFFICES ASSUME NEW a \in 1..(n + m), NEW b \in 1..(n + m), a < b PROVE u[a] < u[b]
    BY <1>1 DEF Rising
  <2>1. CASE a \in 1..n /\ b \in 1..n
    BY <1>2, <1>7, <2>1 DEF Rising
  <2>2. CASE a \in 1..n /\ \E j \in 1..m : b = j + n
    BY <1>2, <1>3, <1>5, <1>6, <1>7, <2>2 DEF Below
  <2>3. CASE b \in 1..n /\ \E i \in 1..m : a = i + n
    BY <1>1, <2>3
  <2>4. CASE (\E i \in 1..m : a = i + n) /\ \E j \in 1..m : b = j + n
    <3>1. PICK i \in 1..m : a = i + n
      BY <2>4
    <3>2. PICK j \in 1..m : b = j + n
      BY <2>4
    <3>3. i < j
      BY <1>1, <3>1, <3>2
    <3>. QED  BY <1>3, <1>7, <3>1, <3>2, <3>3 DEF Rising
  <2>. QED  BY <1>4, <2>1, <2>2, <2>3, <2>4
<1>8. ASSUME Rising(u)
      PROVE  Rising(s) /\ Rising(t) /\ Below(ToSet(s), ToSet(t))
  <2>0. \A a, b \in 1..(n + m) : a < b => u[a] < u[b]
    BY <1>1, <1>8 DEF Rising
  <2>1. Rising(s)
    BY <1>2, <2>0 DEF Rising
  <2>2. ASSUME NEW i \in 1..m, NEW j \in 1..m, i < j PROVE t[i] < t[j]
    <3>1. i + n < j + n
      BY <1>1, <2>2
    <3>2. u[i + n] < u[j + n]
      BY <1>3, <2>0, <3>1
    <3>. QED  BY <1>3, <3>2
  <2>3. ASSUME NEW i \in 1..n, NEW j \in 1..m PROVE s[i] < t[j]
    <3>1. i < j + n
      BY <1>1
    <3>2. u[i] < u[j + n]
      BY <1>2, <1>3, <2>0, <3>1
    <3>. QED  BY <1>2, <1>3, <3>2
  <2>. QED  BY <1>5, <1>6, <2>1, <2>2, <2>3 DEF Rising, Below
<1>. QED  BY <1>1, <1>7, <1>8 DEF u

\* A selection of events rises with them.
LEMMA SelectedRises ==
  ASSUME NEW s \in Seq(Nat), NEW X, Rising(s)
  PROVE  Rising(Selected(s, X))
<1>. DEFINE kept == Selected(s, X)
<1>1. PICK at : KeepsAt(kept, s, X, Len(s), at)
  BY SelectedPlaces
<1>. HIDE DEF kept
<1>2. ASSUME NEW i \in 1..Len(kept), NEW j \in 1..Len(kept), i < j
      PROVE  kept[i] < kept[j]
  <2>1. /\ at[i] \in 1..Len(s) /\ at[j] \in 1..Len(s) /\ at[i] < at[j]
        /\ kept[i] = s[at[i]] /\ kept[j] = s[at[j]]
    BY <1>1, <1>2 DEF KeepsAt
  <2>. QED  BY <2>1 DEF Rising
<1>. QED  BY <1>2 DEF Rising, kept

\* The events of messages are a sequence as long as they are.
LEMMA NumbersHas ==
  ASSUME NEW s \in Seq(Nat \X Nat)
  PROVE  /\ Numbers(s) \in Seq(Nat) /\ Len(Numbers(s)) = Len(s)
         /\ \A i \in 1..Len(s) : Numbers(s)[i] = s[i][2]
<1>1. DOMAIN s = 1..Len(s) /\ Len(s) \in Nat /\ \A i \in 1..Len(s) : s[i] \in Nat \X Nat
  OBVIOUS
<1>2. \A m \in Nat \X Nat : m[2] \in Nat
  OBVIOUS
<1>3. Numbers(s) \in [1..Len(s) -> Nat]
  BY <1>1, <1>2 DEF Numbers
<1>. QED  BY <1>1, <1>3 DEF Numbers

\* A concatenation is known by its places.
LEMMA ConcatIs ==
  ASSUME NEW S, NEW s \in Seq(S), NEW t \in Seq(S), NEW u \in Seq(S), Len(u) = Len(s) + Len(t),
         \A i \in 1..Len(s) : u[i] = s[i], \A i \in 1..Len(t) : u[i + Len(s)] = t[i]
  PROVE  u = s \o t
<1>. DEFINE n == Len(s)
            m == Len(t)
            v == s \o t
<1>1. /\ n \in Nat /\ m \in Nat
      /\ u \in [1..(n + m) -> S] /\ v \in [1..(n + m) -> S]
  <2>1. n \in Nat /\ m \in Nat /\ v \in Seq(S) /\ Len(v) = n + m
    OBVIOUS
  <2>2. \A q \in Seq(S) : q \in [1..Len(q) -> S]
    OBVIOUS
  <2>. HIDE DEF v
  <2>. QED  BY <2>1, <2>2
<1>2. \A i \in 1..n : v[i] = s[i]
  OBVIOUS
<1>3. \A i \in 1..m : v[i + n] = t[i]
  OBVIOUS
<1>. HIDE DEF v
<1>4. ASSUME NEW k \in 1..(n + m) PROVE u[k] = v[k]
  <2>1. CASE k <= n
    <3>1. k \in 1..n
      BY <1>1, <2>1
    <3>. QED  BY <1>2, <3>1
  <2>2. CASE ~(k <= n)
    <3>1. k - n \in 1..m /\ k = (k - n) + n
      BY <1>1, <2>2
    <3>2. PICK i \in 1..m : k = i + n
      BY <3>1
    <3>. QED  BY <1>3, <3>2
  <2>. QED  BY <2>1, <2>2
<1>. HIDE DEF n, m
<1>5. u = v
  BY <1>1, <1>4
<1>. QED  BY <1>5 DEF v

\* The numbers of a concatenation are those of the first and then of the second.
LEMMA NumbersConcat ==
  ASSUME NEW s \in Seq(Nat \X Nat), NEW t \in Seq(Nat \X Nat)
  PROVE  Numbers(s \o t) = Numbers(s) \o Numbers(t)
<1>. DEFINE u == s \o t
            a == Numbers(s)
            b == Numbers(t)
            c == Numbers(u)
<1>1. u \in Seq(Nat \X Nat) /\ Len(u) = Len(s) + Len(t) /\ Len(s) \in Nat /\ Len(t) \in Nat
  OBVIOUS
<1>2. \A i \in 1..Len(s) : u[i] = s[i] /\ i \in 1..Len(u)
  OBVIOUS
<1>3. \A i \in 1..Len(t) : u[i + Len(s)] = t[i] /\ i + Len(s) \in 1..Len(u)
  OBVIOUS
<1>4. a \in Seq(Nat) /\ Len(a) = Len(s) /\ \A i \in 1..Len(s) : a[i] = s[i][2]
  BY NumbersHas
<1>5. b \in Seq(Nat) /\ Len(b) = Len(t) /\ \A i \in 1..Len(t) : b[i] = t[i][2]
  BY NumbersHas
<1>. HIDE DEF u
<1>6. c \in Seq(Nat) /\ Len(c) = Len(u) /\ \A i \in 1..Len(u) : c[i] = u[i][2]
  BY <1>1, NumbersHas
<1>. HIDE DEF a, b, c
<1>7. Len(c) = Len(a) + Len(b)
  BY <1>1, <1>4, <1>5, <1>6
<1>8. ASSUME NEW i \in 1..Len(a) PROVE c[i] = a[i]
  <2>1. i \in 1..Len(s)
    BY <1>4
  <2>. QED  BY <1>2, <1>4, <1>6, <2>1
<1>9. ASSUME NEW i \in 1..Len(b) PROVE c[i + Len(a)] = b[i]
  <2>1. i \in 1..Len(t)
    BY <1>5
  <2>2. i + Len(a) = i + Len(s)
    BY <1>4
  <2>3. u[i + Len(s)] = t[i] /\ i + Len(s) \in 1..Len(u)
    BY <1>3, <2>1
  <2>4. c[i + Len(s)] = u[i + Len(s)][2]
    BY <1>6, <2>3
  <2>. QED  BY <1>5, <2>1, <2>2, <2>3, <2>4
<1>10. c = a \o b
  BY <1>4, <1>5, <1>6, <1>7, <1>8, <1>9, ConcatIs
<1>. QED  BY <1>10 DEF a, b, c, u

\* A selection of messages rises with them, and has none that they do not have.
LEMMA SelectedNumbers ==
  ASSUME NEW s \in Seq(Nat \X Nat), NEW X
  PROVE  /\ Selected(s, X) \in Seq(Nat \X Nat)
         /\ Rising(Numbers(s)) => Rising(Numbers(Selected(s, X)))
         /\ ToSet(Numbers(Selected(s, X))) \subseteq ToSet(Numbers(s))
<1>. DEFINE kept == Selected(s, X)
            a == Numbers(s)
            b == Numbers(kept)
<1>1. kept \in Seq(Nat \X Nat)
  BY SelectedPlaces
<1>2. PICK at : KeepsAt(kept, s, X, Len(s), at)
  BY SelectedPlaces
<1>. HIDE DEF kept
<1>3. a \in Seq(Nat) /\ Len(a) = Len(s) /\ \A i \in 1..Len(s) : a[i] = s[i][2]
  BY NumbersHas
<1>4. b \in Seq(Nat) /\ Len(b) = Len(kept) /\ \A i \in 1..Len(kept) : b[i] = kept[i][2]
  BY <1>1, NumbersHas
<1>. HIDE DEF a, b
<1>5. \A i \in 1..Len(kept) : at[i] \in 1..Len(s) /\ b[i] = a[at[i]]
  <2>1. \A i \in 1..Len(kept) : at[i] \in 1..Len(s) /\ kept[i] = s[at[i]]
    BY <1>2 DEF KeepsAt
  <2>. QED  BY <1>3, <1>4, <2>1
<1>6. ASSUME Rising(a), NEW i \in 1..Len(kept), NEW j \in 1..Len(kept), i < j PROVE b[i] < b[j]
  <2>1. at[i] < at[j]
    BY <1>2, <1>6 DEF KeepsAt
  <2>2. a[at[i]] < a[at[j]]
    BY <1>3, <1>5, <1>6, <2>1 DEF Rising
  <2>. QED  BY <1>5, <2>2
<1>7. \A e : e \in ToSet(a) <=> \E i \in 1..Len(s) : a[i] = e
  BY <1>3, HasElements
<1>8. \A e : e \in ToSet(b) <=> \E i \in 1..Len(kept) : b[i] = e
  BY <1>4, HasElements
<1>9. Rising(a) => Rising(b)
  BY <1>4, <1>6 DEF Rising
<1>10. ToSet(b) \subseteq ToSet(a)
  BY <1>5, <1>7, <1>8
<1>. QED  BY <1>1, <1>9, <1>10 DEF kept, a, b

\* What the variables are to the following: sequences of numbers.
NumbersOK ==
  /\ received \in Seq(Nat \X Nat) /\ inbox \in Seq(Nat \X Nat) /\ link \in Seq(Nat \X Nat)
  /\ sent \in Seq(Nat) /\ local \in Seq(Nat) /\ old \in Seq(Nat) /\ new \in Seq(Nat)
  /\ Numbers(received) \in Seq(Nat) /\ Numbers(inbox) \in Seq(Nat) /\ Numbers(link) \in Seq(Nat)
  /\ cursor \in Nat

LEMMA Typed ==
  TypeOK => NumbersOK
<1>. SUFFICES ASSUME TypeOK PROVE NumbersOK
  OBVIOUS
<1>1. Events \subseteq Nat /\ Messages \subseteq Nat \X Nat
  BY DEF Events, Sessions, Messages
<1>2. received \in Seq(Nat \X Nat) /\ inbox \in Seq(Nat \X Nat) /\ link \in Seq(Nat \X Nat)
  BY <1>1, SeqMonotonic DEF TypeOK
<1>3. sent \in Seq(Nat) /\ local \in Seq(Nat) /\ old \in Seq(Nat) /\ new \in Seq(Nat)
  BY <1>1, SeqMonotonic DEF TypeOK
<1>4. cursor \in Nat
  BY <1>1 DEF TypeOK
<1>. QED  BY <1>2, <1>3, <1>4, NumbersHas DEF NumbersOK

\* Four sequences rise together.
FourRise(a, b, c, d) ==
  /\ Rising(a) /\ Rising(b) /\ Rising(c) /\ Rising(d)
  /\ Below(ToSet(a), ToSet(b)) /\ Below(ToSet(a), ToSet(c)) /\ Below(ToSet(a), ToSet(d))
  /\ Below(ToSet(b), ToSet(c)) /\ Below(ToSet(b), ToSet(d))
  /\ Below(ToSet(c), ToSet(d))

LEMMA FourConcat ==
  ASSUME NEW a \in Seq(Nat), NEW b \in Seq(Nat), NEW c \in Seq(Nat), NEW d \in Seq(Nat)
  PROVE  /\ ToSet(a \o (b \o (c \o d))) = ToSet(a) \cup ToSet(b) \cup ToSet(c) \cup ToSet(d)
         /\ Rising(a \o (b \o (c \o d))) <=> FourRise(a, b, c, d)
<1>1. /\ c \o d \in Seq(Nat) /\ ToSet(c \o d) = ToSet(c) \cup ToSet(d)
      /\ Rising(c \o d) <=> Rising(c) /\ Rising(d) /\ Below(ToSet(c), ToSet(d))
  BY ConcatHas, ConcatRises
<1>. DEFINE cd == c \o d
            bcd == b \o cd
<1>. HIDE DEF cd
<1>2. /\ bcd \in Seq(Nat) /\ ToSet(bcd) = ToSet(b) \cup ToSet(cd)
      /\ Rising(bcd) <=> Rising(b) /\ Rising(cd) /\ Below(ToSet(b), ToSet(cd))
  BY <1>1, ConcatHas, ConcatRises DEF cd
<1>. HIDE DEF bcd
<1>3. /\ ToSet(a \o bcd) = ToSet(a) \cup ToSet(bcd)
      /\ Rising(a \o bcd) <=> Rising(a) /\ Rising(bcd) /\ Below(ToSet(a), ToSet(bcd))
  BY <1>2, ConcatHas, ConcatRises
<1>4. Below(ToSet(b), ToSet(cd)) <=> Below(ToSet(b), ToSet(c)) /\ Below(ToSet(b), ToSet(d))
  BY <1>1 DEF Below, cd
<1>5. Below(ToSet(a), ToSet(bcd)) <=>
        /\ Below(ToSet(a), ToSet(b)) /\ Below(ToSet(a), ToSet(c)) /\ Below(ToSet(a), ToSet(d))
  BY <1>1, <1>2 DEF Below, cd
<1>. QED  BY <1>1, <1>2, <1>3, <1>4, <1>5 DEF FourRise, cd, bcd

\* The way in its parts.
Travelling == ToSet(Numbers(received)) \cup ToSet(Numbers(inbox)) \cup ToSet(Numbers(link)) \cup ToSet(sent)

WayInv ==
  /\ FourRise(Numbers(received), Numbers(inbox), Numbers(link), sent)
  /\ \A e \in Travelling : e <= cursor

LEMMA WayParts ==
  ASSUME NumbersOK
  PROVE  Rising(Way) /\ (\A e \in ToSet(Way) : e <= cursor) <=> WayInv
<1>. DEFINE a == Numbers(received)
            b == Numbers(inbox)
            c == Numbers(link)
<1>1. a \in Seq(Nat) /\ b \in Seq(Nat) /\ c \in Seq(Nat) /\ sent \in Seq(Nat)
  BY DEF NumbersOK
<1>2. Way = a \o (b \o (c \o sent))
  BY DEF Way
<1>. HIDE DEF a, b, c
<1>3. /\ ToSet(a \o (b \o (c \o sent))) = ToSet(a) \cup ToSet(b) \cup ToSet(c) \cup ToSet(sent)
      /\ Rising(a \o (b \o (c \o sent))) <=> FourRise(a, b, c, sent)
  BY <1>1, FourConcat
<1>. QED  BY <1>2, <1>3 DEF WayInv, Travelling, a, b, c

\* The buffers and what was taken from them.
BufferInv == Rising(local \o (old \o new))

LEMMA OrderParts ==
  NumbersOK => (OrderInv <=> BufferInv /\ WayInv)
BY WayParts DEF OrderInv, BufferInv

\* The backend of the client: what it loses comes last.
LEMMA DisconnectOrder ==
  ASSUME WayInv, Disconnect
  PROVE  WayInv'
<1>1. /\ UNCHANGED <<received, inbox, link, cursor>>
      /\ sent' = sent \/ sent' = <<>>
  BY DEF Disconnect, Discarded, bufferVars, serverVars
<1>2. Numbers(received)' = Numbers(received) /\ Numbers(inbox)' = Numbers(inbox)
      /\ Numbers(link)' = Numbers(link)
  BY <1>1 DEF Numbers
<1>3. CASE sent' = sent
  BY <1>1, <1>2, <1>3 DEF WayInv, Travelling
<1>4. CASE sent' = <<>>
  <2>1. ToSet(sent') = {} /\ Rising(sent')
    <3>1. Len(<<>>) = 0
      OBVIOUS
    <3>. QED  BY <1>4, <3>1, EmptyHas DEF Rising
  <2>2. Travelling' \subseteq Travelling
    BY <1>2, <2>1 DEF Travelling
  <2>. QED  BY <1>1, <1>2, <2>1, <2>2 DEF WayInv, FourRise, Below
<1>. QED  BY <1>1, <1>3, <1>4

\* Nothing rises, and has no events.
LEMMA EmptyRises ==
  Rising(<<>>) /\ ToSet(<<>>) = {} /\ Numbers(<<>>) = <<>>
<1>1. Len(<<>>) = 0 /\ DOMAIN <<>> = {}
  OBVIOUS
<1>2. Numbers(<<>>) = [i \in {} |-> <<>>[i][2]]
  BY <1>1 DEF Numbers
<1>3. <<>> = [i \in {} |-> <<>>[i][2]]
  OBVIOUS
<1>. QED  BY <1>1, <1>2, <1>3, EmptyHas DEF Rising

LEMMA SendPacketsOrder ==
  ASSUME TypeOK, NumbersOK, WayInv, SendPackets
  PROVE  WayInv'
<1>. DEFINE packets == [i \in DOMAIN sent |-> <<session, sent[i]>>]
<1>1. /\ UNCHANGED <<received, inbox, cursor>>
      /\ sent' = <<>>
      /\ link' = link \/ link' = link \o packets
  BY DEF SendPackets, bufferVars
<1>2. packets \in Seq(Nat \X Nat) /\ Len(packets) = Len(sent)
      /\ \A i \in 1..Len(sent) : packets[i][2] = sent[i]
  <2>1. /\ DOMAIN sent = 1..Len(sent) /\ Len(sent) \in Nat
        /\ \A i \in 1..Len(sent) : sent[i] \in Nat
    BY DEF NumbersOK
  <2>2. session \in Nat
    BY BoundsAssumption DEF TypeOK
  <2>3. packets \in [1..Len(sent) -> Nat \X Nat]
    BY <2>1, <2>2
  <2>4. packets \in Seq(Nat \X Nat) /\ Len(packets) = Len(sent)
    BY <2>1, <2>3
  <2>5. \A i \in 1..Len(sent) : packets[i][2] = sent[i]
    BY <2>1
  <2>. QED  BY <2>4, <2>5
<1>. HIDE DEF packets
<1>3. Numbers(packets) = sent
  <2>. DEFINE q == Numbers(packets)
  <2>1. q \in Seq(Nat) /\ Len(q) = Len(sent) /\ \A i \in 1..Len(sent) : q[i] = sent[i]
    BY <1>2, NumbersHas
  <2>2. sent \in Seq(Nat)
    BY DEF NumbersOK
  <2>3. \A s \in Seq(Nat) : s \in [1..Len(s) -> Nat]
    OBVIOUS
  <2>. HIDE DEF q
  <2>4. q = sent
    BY <2>1, <2>2, <2>3
  <2>. QED  BY <2>4 DEF q
<1>4. Numbers(received)' = Numbers(received) /\ Numbers(inbox)' = Numbers(inbox)
  BY <1>1 DEF Numbers
<1>5. ToSet(sent') = {} /\ Rising(sent')
  BY <1>1, EmptyRises
<1>6. CASE link' = link
  <2>1. Numbers(link)' = Numbers(link)
    BY <1>6 DEF Numbers
  <2>2. Travelling' \subseteq Travelling
    BY <1>4, <1>5, <2>1 DEF Travelling
  <2>. QED  BY <1>1, <1>4, <1>5, <2>1, <2>2 DEF WayInv, FourRise, Below
<1>7. CASE link' = link \o packets
  <2>. DEFINE l == Numbers(link)
  <2>0. l \in Seq(Nat) /\ link \in Seq(Nat \X Nat) /\ sent \in Seq(Nat)
    BY DEF NumbersOK
  <2>1. Numbers(link') = l \o sent
    BY <1>2, <1>3, <1>7, <2>0, NumbersConcat
  <2>. HIDE DEF l
  <2>2. /\ ToSet(l \o sent) = ToSet(l) \cup ToSet(sent)
        /\ Rising(l \o sent) <=> Rising(l) /\ Rising(sent) /\ Below(ToSet(l), ToSet(sent))
    BY <2>0, ConcatHas, ConcatRises
  <2>3. Numbers(link)' = Numbers(link')
    BY DEF Numbers
  <2>4. ToSet(Numbers(link)') = ToSet(l) \cup ToSet(sent)
    BY <2>1, <2>2, <2>3
  <2>5. Travelling' = Travelling
    BY <1>4, <1>5, <2>4 DEF Travelling, l
  <2>6. Rising(Numbers(link)')
    BY <2>1, <2>2, <2>3 DEF WayInv, FourRise, l
  <2>. QED  BY <1>1, <1>4, <1>5, <2>4, <2>5, <2>6 DEF WayInv, FourRise, Below, l
<1>. QED  BY <1>1, <1>6, <1>7

\* The end of a frame: what was not read is newer than what was sent.
LEMMA EndFrameOrder ==
  ASSUME IInv, NumbersOK, WayInv, BufferInv, EndFrame
  PROVE  WayInv'
<1>1. UNCHANGED <<received, inbox, link>>
  BY DEF EndFrame, serverVars
<1>2. Numbers(received)' = Numbers(received) /\ Numbers(inbox)' = Numbers(inbox)
      /\ Numbers(link)' = Numbers(link)
  BY <1>1 DEF Numbers
<1>3. CASE status # "Connected"
  <2>1. UNCHANGED <<sent, cursor>>
    BY <1>3 DEF EndFrame
  <2>. QED  BY <1>2, <2>1 DEF WayInv, Travelling
<1>4. CASE status = "Connected"
  <2>1. sent' = sent \o Unread /\ cursor' = Len(emittedIn)
    BY <1>4 DEF EndFrame
  <2>2. local \in Seq(Nat) /\ old \in Seq(Nat) /\ new \in Seq(Nat) /\ sent \in Seq(Nat)
        /\ old \o new \in Seq(Nat)
    BY ConcatHas DEF NumbersOK
  <2>3. Rising(old \o new)
    BY <2>2, ConcatRises DEF BufferInv
  <2>4. Rising(Unread)
    BY <2>2, <2>3, SelectedRises DEF Unread
  <2>5. /\ Unread \in Seq(Events)
        /\ ToSet(Unread) = {e \in ToSet(old \o new) : e \in Events /\ e > cursor}
    BY UnreadHas
  <2>6. Events \subseteq Nat /\ (\A e \in Events : e <= Len(emittedIn)) /\ Len(emittedIn) \in Nat
    BY DEF IInv, TypeOK, Events
  <2>7. Unread \in Seq(Nat)
    BY <2>5, <2>6, SeqMonotonic
  <2>8. /\ ToSet(sent \o Unread) = ToSet(sent) \cup ToSet(Unread)
        /\ Rising(sent \o Unread) <=>
             Rising(sent) /\ Rising(Unread) /\ Below(ToSet(sent), ToSet(Unread))
    BY <2>2, <2>7, ConcatHas, ConcatRises
  <2>9. Travelling \subseteq Nat /\ cursor \in Nat
    <3>1. /\ ToSet(Numbers(received)) \subseteq Nat /\ ToSet(Numbers(inbox)) \subseteq Nat
          /\ ToSet(Numbers(link)) \subseteq Nat /\ ToSet(sent) \subseteq Nat
      BY HasElements DEF NumbersOK
    <3>. QED  BY <3>1 DEF Travelling, NumbersOK
  <2>10. \A e \in Travelling, f \in ToSet(Unread) : e < f
    <3>. SUFFICES ASSUME NEW e \in Travelling, NEW f \in ToSet(Unread) PROVE e < f
      OBVIOUS
    <3>1. e <= cursor /\ e \in Nat /\ cursor \in Nat
      BY <2>9 DEF WayInv
    <3>2. f \in Nat /\ f > cursor
      BY <2>5, <2>6
    <3>. QED  BY <3>1, <3>2
  <2>11. \A e \in Travelling \cup ToSet(Unread) : e <= Len(emittedIn)
    <3>1. cursor <= Len(emittedIn)
      BY <2>6 DEF IInv, TypeOK
    <3>2. \A e \in Travelling : e <= Len(emittedIn)
      BY <2>6, <2>9, <3>1 DEF WayInv
    <3>3. \A e \in ToSet(Unread) : e <= Len(emittedIn)
      BY <2>5, <2>6
    <3>. QED  BY <3>2, <3>3
  <2>12. Rising(sent') /\ ToSet(sent') = ToSet(sent) \cup ToSet(Unread)
    BY <2>1, <2>4, <2>8, <2>10 DEF WayInv, FourRise, Travelling, Below
  <2>13. Travelling' = Travelling \cup ToSet(Unread)
    BY <1>2, <2>12 DEF Travelling
  <2>14. FourRise(Numbers(received)', Numbers(inbox)', Numbers(link)', sent')
    BY <1>2, <2>10, <2>12 DEF WayInv, FourRise, Travelling, Below
  <2>. QED  BY <2>1, <2>11, <2>13, <2>14 DEF WayInv
<1>. QED  BY <1>3, <1>4

\* The server moves messages on in order.
LEMMA ReceivePacketOrder ==
  ASSUME NumbersOK, WayInv, ReceivePacket
  PROVE  WayInv'
<1>. DEFINE h == <<Head(link)>>
            t == Tail(link)
<1>1. /\ link # <<>> /\ link' = t /\ inbox' = inbox \o h
      /\ UNCHANGED <<received, sent, cursor>>
  <2>1. inbox \in Seq(Nat \X Nat) /\ link \in Seq(Nat \X Nat)
    BY DEF NumbersOK
  <2>2. link # <<>>
    BY DEF ReceivePacket
  <2>3. Head(link) \in Nat \X Nat
    BY <2>1, <2>2
  <2>4. Append(inbox, Head(link)) = inbox \o h
    BY <2>1, <2>3, AppendIsConcat
  <2>. QED  BY <2>2, <2>4 DEF ReceivePacket, clientVars, bufferVars
<1>2. /\ h \in Seq(Nat \X Nat) /\ t \in Seq(Nat \X Nat) /\ link = h \o t
      /\ inbox \in Seq(Nat \X Nat)
  <2>1. link \in Seq(Nat \X Nat) /\ inbox \in Seq(Nat \X Nat)
    BY DEF NumbersOK
  <2>. QED  BY <1>1, <2>1
<1>. HIDE DEF h, t
<1>. DEFINE i == Numbers(inbox)
            m == Numbers(h)
            l == Numbers(t)
<1>3. i \in Seq(Nat) /\ m \in Seq(Nat) /\ l \in Seq(Nat)
  BY <1>2, NumbersHas
<1>4. Numbers(inbox)' = i \o m /\ Numbers(link) = m \o l /\ Numbers(link)' = l
  <2>1. Numbers(inbox \o h) = i \o m /\ Numbers(h \o t) = m \o l
    BY <1>2, NumbersConcat
  <2>2. Numbers(inbox)' = Numbers(inbox') /\ Numbers(link)' = Numbers(link')
    BY DEF Numbers
  <2>. QED  BY <1>1, <1>2, <2>1, <2>2
<1>5. Numbers(received)' = Numbers(received)
  BY <1>1 DEF Numbers
<1>. HIDE DEF m, l
<1>6. /\ ToSet(m \o l) = ToSet(m) \cup ToSet(l)
      /\ Rising(m \o l) <=> Rising(m) /\ Rising(l) /\ Below(ToSet(m), ToSet(l))
  BY <1>3, ConcatHas, ConcatRises
<1>7. /\ ToSet(i \o m) = ToSet(i) \cup ToSet(m)
      /\ Rising(i \o m) <=> Rising(i) /\ Rising(m) /\ Below(ToSet(i), ToSet(m))
  <2>. HIDE DEF i
  <2>. QED  BY <1>3, ConcatHas, ConcatRises
<1>8. Travelling' = Travelling
  BY <1>1, <1>4, <1>5, <1>6, <1>7 DEF Travelling
<1>9. FourRise(Numbers(received), i, m \o l, sent)
  BY <1>4 DEF WayInv
<1>10. FourRise(Numbers(received), i \o m, l, sent)
  BY <1>6, <1>7, <1>9 DEF FourRise, Below
<1>11. FourRise(Numbers(received)', Numbers(inbox)', Numbers(link)', sent')
  BY <1>1, <1>4, <1>5, <1>10
<1>. QED  BY <1>1, <1>8, <1>11 DEF WayInv

LEMMA ReceiveOrder ==
  ASSUME NumbersOK, WayInv, Receive
  PROVE  WayInv'
<1>1. /\ inbox' = <<>> /\ received' = received \o inbox
      /\ UNCHANGED <<link, sent, cursor>>
  BY DEF Receive, clientVars, bufferVars
<1>. DEFINE r == Numbers(received)
            i == Numbers(inbox)
<1>2. r \in Seq(Nat) /\ i \in Seq(Nat)
  BY DEF NumbersOK
<1>3. Numbers(received)' = r \o i
  <2>1. received \in Seq(Nat \X Nat) /\ inbox \in Seq(Nat \X Nat)
    BY DEF NumbersOK
  <2>2. Numbers(received') = r \o i
    BY <1>1, <2>1, NumbersConcat
  <2>. QED  BY <2>2 DEF Numbers
<1>4. Numbers(inbox)' = <<>>
  <2>1. Numbers(inbox') = <<>>
    BY <1>1, EmptyRises
  <2>. QED  BY <2>1 DEF Numbers
<1>5. Numbers(link)' = Numbers(link)
  BY <1>1 DEF Numbers
<1>6. FourRise(r, i, Numbers(link), sent)
  BY DEF WayInv
<1>7. Travelling' = ToSet(r \o i) \cup ToSet(<<>>) \cup ToSet(Numbers(link)) \cup ToSet(sent)
  BY <1>1, <1>3, <1>4, <1>5 DEF Travelling
<1>8. Travelling = ToSet(r) \cup ToSet(i) \cup ToSet(Numbers(link)) \cup ToSet(sent)
  BY DEF Travelling
<1>. HIDE DEF r, i
<1>9. /\ ToSet(r \o i) = ToSet(r) \cup ToSet(i)
      /\ Rising(r \o i) <=> Rising(r) /\ Rising(i) /\ Below(ToSet(r), ToSet(i))
  BY <1>2, ConcatHas, ConcatRises
<1>10. FourRise(r \o i, <<>>, Numbers(link), sent)
  BY <1>6, <1>9, EmptyRises DEF FourRise, Below
<1>11. FourRise(Numbers(received)', Numbers(inbox)', Numbers(link)', sent')
  BY <1>1, <1>3, <1>4, <1>5, <1>10
<1>12. Travelling' = Travelling
  BY <1>7, <1>8, <1>9, EmptyRises
<1>. QED  BY <1>1, <1>11, <1>12 DEF WayInv

LEMMA RemoveClientOrder ==
  ASSUME NumbersOK, WayInv, NEW s \in Sessions, RemoveClient(s)
  PROVE  WayInv'
<1>1. /\ link' = Selected(link, FromOthers(s))
      /\ inbox' = Selected(inbox, FromOthers(s))
      /\ UNCHANGED <<received, sent, cursor>>
  BY DEF RemoveClient, WithoutClient, clientVars, bufferVars
<1>2. link \in Seq(Nat \X Nat) /\ inbox \in Seq(Nat \X Nat)
  BY DEF NumbersOK
<1>3. /\ Numbers(received)' = Numbers(received) /\ Numbers(link)' = Numbers(link')
      /\ Numbers(inbox)' = Numbers(inbox')
  BY <1>1 DEF Numbers
<1>4. /\ Rising(Numbers(link)) => Rising(Numbers(link'))
      /\ ToSet(Numbers(link')) \subseteq ToSet(Numbers(link))
  BY <1>1, <1>2, SelectedNumbers
<1>5. /\ Rising(Numbers(inbox)) => Rising(Numbers(inbox'))
      /\ ToSet(Numbers(inbox')) \subseteq ToSet(Numbers(inbox))
  BY <1>1, <1>2, SelectedNumbers
<1>6. Travelling' \subseteq Travelling
  BY <1>1, <1>3, <1>4, <1>5 DEF Travelling
<1>7. FourRise(Numbers(received), Numbers(inbox'), Numbers(link'), sent)
  BY <1>4, <1>5 DEF WayInv, FourRise, Below
<1>8. FourRise(Numbers(received)', Numbers(inbox)', Numbers(link)', sent')
  BY <1>1, <1>3, <1>7
<1>. QED  BY <1>1, <1>6, <1>8 DEF WayInv

\* Three sequences rise together.
LEMMA ThreeConcat ==
  ASSUME NEW a \in Seq(Nat), NEW b \in Seq(Nat), NEW c \in Seq(Nat)
  PROVE  Rising(a \o (b \o c)) <=>
           /\ Rising(a) /\ Rising(b) /\ Rising(c)
           /\ Below(ToSet(a), ToSet(b)) /\ Below(ToSet(a), ToSet(c)) /\ Below(ToSet(b), ToSet(c))
<1>. DEFINE bc == b \o c
<1>1. /\ bc \in Seq(Nat) /\ ToSet(bc) = ToSet(b) \cup ToSet(c)
      /\ Rising(bc) <=> Rising(b) /\ Rising(c) /\ Below(ToSet(b), ToSet(c))
  BY ConcatHas, ConcatRises
<1>. HIDE DEF bc
<1>2. Rising(a \o bc) <=> Rising(a) /\ Rising(bc) /\ Below(ToSet(a), ToSet(bc))
  BY <1>1, ConcatRises
<1>3. Below(ToSet(a), ToSet(bc)) <=> Below(ToSet(a), ToSet(b)) /\ Below(ToSet(a), ToSet(c))
  BY <1>1 DEF Below
<1>. QED  BY <1>1, <1>2, <1>3 DEF bc

\* A new event is the last of the buffers.
LEMMA EmitOrder ==
  ASSUME IInv, NumbersOK, BufferInv, Emit
  PROVE  BufferInv'
<1>. DEFINE n == Len(emittedIn) + 1
<1>1. /\ new' = Append(new, n) /\ local' = local /\ old' = old
  BY DEF Emit
<1>2. local \in Seq(Nat) /\ old \in Seq(Nat) /\ new \in Seq(Nat) /\ n \in Nat
  BY DEF NumbersOK, IInv, TypeOK
<1>3. \A e \in Events : e < n
  BY DEF Events
<1>4. /\ ToSet(local) \subseteq Events /\ ToSet(old) \subseteq Events /\ ToSet(new) \subseteq Events
  BY HasElements DEF IInv, TypeOK
<1>. HIDE DEF n
<1>5. new' = new \o <<n>> /\ <<n>> \in Seq(Nat) /\ ToSet(<<n>>) = {n}
  BY <1>1, <1>2 DEF ToSet
<1>6. Rising(<<n>>)
  BY DEF Rising
<1>7. /\ new' \in Seq(Nat) /\ ToSet(new') = ToSet(new) \cup {n}
      /\ Rising(new') <=> Rising(new) /\ Rising(<<n>>) /\ Below(ToSet(new), ToSet(<<n>>))
  BY <1>2, <1>5, ConcatHas, ConcatRises
<1>8. /\ Rising(local) /\ Rising(old) /\ Rising(new)
      /\ Below(ToSet(local), ToSet(old)) /\ Below(ToSet(local), ToSet(new))
      /\ Below(ToSet(old), ToSet(new))
  BY <1>2, ThreeConcat DEF BufferInv
<1>9. Rising(new')
  BY <1>3, <1>4, <1>5, <1>6, <1>7, <1>8 DEF Below
<1>10. Below(ToSet(local), ToSet(new')) /\ Below(ToSet(old), ToSet(new'))
  BY <1>3, <1>4, <1>7, <1>8 DEF Below
<1>11. Rising(local \o (old \o new'))
  BY <1>2, <1>7, <1>8, <1>9, <1>10, ThreeConcat
<1>. QED  BY <1>1, <1>11 DEF BufferInv

\* The beginning of a frame drops events from the front of the buffers.
LEMMA BeginFrameOrder ==
  ASSUME NumbersOK, BufferInv, NEW update \in BOOLEAN, BeginFrame(update)
  PROVE  BufferInv'
<1>1. /\ local' = local
      /\ \/ old' = <<>> /\ new' = <<>>
         \/ old' = new /\ new' = <<>>
         \/ old' = old /\ new' = new
  BY DEF BeginFrame, Drained
<1>2. local \in Seq(Nat) /\ old \in Seq(Nat) /\ new \in Seq(Nat) /\ <<>> \in Seq(Nat)
  BY DEF NumbersOK
<1>3. /\ Rising(local) /\ Rising(old) /\ Rising(new)
      /\ Below(ToSet(local), ToSet(old)) /\ Below(ToSet(local), ToSet(new))
      /\ Below(ToSet(old), ToSet(new))
  BY <1>2, ThreeConcat DEF BufferInv
<1>4. old' \in Seq(Nat) /\ new' \in Seq(Nat)
  BY <1>1, <1>2
<1>5. /\ Rising(old') /\ Rising(new') /\ Below(ToSet(local), ToSet(old'))
      /\ Below(ToSet(local), ToSet(new')) /\ Below(ToSet(old'), ToSet(new'))
  BY <1>1, <1>3, EmptyRises DEF Below
<1>6. Rising(local \o (old' \o new'))
  BY <1>2, <1>3, <1>4, <1>5, ThreeConcat
<1>. QED  BY <1>1, <1>6 DEF BufferInv

\* What is re-emitted follows what was, and leaves the buffers empty.
LEMMA EndFrameBuffers ==
  ASSUME NumbersOK, BufferInv, EndFrame
  PROVE  BufferInv'
<1>1. CASE UNCHANGED <<local, old, new>>
  BY <1>1 DEF BufferInv
<1>2. CASE local' = local \o (old \o new) /\ old' = <<>> /\ new' = <<>>
  <2>1. local \in Seq(Nat) /\ old \in Seq(Nat) /\ new \in Seq(Nat)
    BY DEF NumbersOK
  <2>2. local \o (old \o new) \in Seq(Nat)
    BY <2>1, ConcatHas
  <2>3. local' \o (old' \o new') = local \o (old \o new)
    BY <1>2, <2>2
  <2>. QED  BY <2>3 DEF BufferInv
<1>. QED  BY <1>1, <1>2 DEF EndFrame, ReEmitted, Drained

\* The numbers rise at first, and in every step.
LEMMA InitOrder ==
  Init => OrderInv
<1>. SUFFICES ASSUME Init PROVE OrderInv
  OBVIOUS
<1>1. /\ Numbers(received) = <<>> /\ Numbers(inbox) = <<>> /\ Numbers(link) = <<>>
      /\ sent = <<>> /\ local = <<>> /\ old = <<>> /\ new = <<>>
  BY EmptyRises DEF Init
<1>2. <<>> \o <<>> = <<>>
  OBVIOUS
<1>3. Way = <<>> /\ local \o (old \o new) = <<>>
  BY <1>1, <1>2 DEF Way
<1>. QED  BY <1>3, EmptyRises DEF OrderInv

LEMMA NextOrder ==
  IInv /\ NumbersOK /\ BufferInv /\ WayInv /\ [Next]_vars => BufferInv' /\ WayInv'
<1>. SUFFICES ASSUME IInv, NumbersOK, BufferInv, WayInv, [Next]_vars PROVE BufferInv' /\ WayInv'
  OBVIOUS
<1>1. ASSUME UNCHANGED <<local, old, new>> PROVE BufferInv'
  BY <1>1 DEF BufferInv
<1>2. ASSUME UNCHANGED <<received, inbox, link, sent, cursor>> PROVE WayInv'
  <2>1. Numbers(received)' = Numbers(received) /\ Numbers(inbox)' = Numbers(inbox)
        /\ Numbers(link)' = Numbers(link)
    BY <1>2 DEF Numbers
  <2>. QED  BY <1>2, <2>1 DEF WayInv, Travelling
<1>3. CASE StartConnecting \/ Connect \/ UNCHANGED vars
  BY <1>1, <1>2, <1>3 DEF StartConnecting, Connect, vars, clientVars, bufferVars, serverVars
<1>4. CASE Disconnect
  BY <1>1, <1>4, DisconnectOrder DEF Disconnect, bufferVars
<1>5. CASE SendPackets
  BY <1>1, <1>5, SendPacketsOrder DEF SendPackets, bufferVars, IInv
<1>6. CASE Emit
  BY <1>2, <1>6, EmitOrder DEF Emit, serverVars
<1>7. CASE \E update \in BOOLEAN : BeginFrame(update)
  BY <1>2, <1>7, BeginFrameOrder DEF BeginFrame, serverVars
<1>8. CASE EndFrame
  BY <1>8, EndFrameOrder, EndFrameBuffers
<1>9. CASE ReceivePacket
  BY <1>1, <1>9, ReceivePacketOrder DEF ReceivePacket, clientVars, bufferVars
<1>10. CASE Receive
  BY <1>1, <1>10, ReceiveOrder DEF Receive, clientVars, bufferVars
<1>11. CASE \E s \in Sessions : RemoveClient(s)
  BY <1>1, <1>11, RemoveClientOrder DEF RemoveClient, clientVars, bufferVars
<1>. QED  BY <1>3, <1>4, <1>5, <1>6, <1>7, <1>8, <1>9, <1>10, <1>11 DEF Next, Frame

\* A sequence is a prefix of one that has its elements at its places.
LEMMA PrefixIs ==
  ASSUME NEW S, NEW s \in Seq(S), NEW t \in Seq(S), Len(s) <= Len(t),
         \A i \in 1..Len(s) : t[i] = s[i]
  PROVE  IsPrefix(s, t)
<1>1. ASSUME NEW n \in 0..Len(t)
      PROVE  SubSeq(t, 1, n) \in [1..n -> S] /\ \A i \in 1..n : SubSeq(t, 1, n)[i] = t[i]
  <2>1. SubSeq(t, 1, n) = [i \in 1..n |-> t[i]]
    OBVIOUS
  <2>2. \A i \in 1..n : t[i] \in S
    OBVIOUS
  <2>. QED  BY <2>1, <2>2
<1>2. Len(s) \in 0..Len(t) /\ s \in [1..Len(s) -> S]
  <2>1. Len(s) \in Nat /\ Len(t) \in Nat
    OBVIOUS
  <2>2. \A q \in Seq(S) : q \in [1..Len(q) -> S]
    OBVIOUS
  <2>. QED  BY <2>1, <2>2
<1>3. SubSeq(t, 1, Len(s)) \in [1..Len(s) -> S]
      /\ \A i \in 1..Len(s) : SubSeq(t, 1, Len(s))[i] = s[i]
  BY <1>1, <1>2
<1>. DEFINE u == SubSeq(t, 1, Len(s))
<1>. HIDE DEF u
<1>4. u = s
  BY <1>2, <1>3 DEF u
<1>5. SubSeq(s, 1, Len(s)) = s
  OBVIOUS
<1>. QED  BY <1>4, <1>5 DEF IsPrefix, u

\* The same in the next state.
LEMMA TypedNext ==
  TypeOK' => NumbersOK'
BY Typed, PTL

LEMMA OrderPartsNext ==
  NumbersOK' => (OrderInv' <=> BufferInv' /\ WayInv')
BY OrderParts, PTL

\* What is read follows what was.
Extends(q, r) ==
  /\ IsPrefix(q, r)
  /\ \A i \in DOMAIN r : i > Len(q) =>
       r[i][2] \in 1..Len(emittedIn) /\ \A j \in 1..(i - 1) : r[j][2] < r[i][2]

\* A longer sequence of messages does if its numbers rise.
LEMMA RisingExtends ==
  ASSUME NEW q \in Seq(Nat \X Nat), NEW r \in Seq(Nat \X Nat), Len(q) <= Len(r),
         \A i \in 1..Len(q) : r[i] = q[i],
         \A i \in 1..Len(r) : r[i][2] \in 1..Len(emittedIn),
         \A i, j \in 1..Len(r) : i < j => r[i][2] < r[j][2]
  PROVE  Extends(q, r)
<1>1. IsPrefix(q, r)
  BY PrefixIs
<1>2. DOMAIN r = 1..Len(r) /\ Len(r) \in Nat
  OBVIOUS
<1>3. ASSUME NEW i \in 1..Len(r), NEW j \in 1..(i - 1) PROVE r[j][2] < r[i][2]
  <2>1. j \in 1..Len(r) /\ j < i
    BY <1>2
  <2>. QED  BY <2>1
<1>. QED  BY <1>1, <1>2, <1>3 DEF Extends

\* The server reads what was in its inbox.
LEMMA ServerReads ==
  ASSUME NumbersOK, NumbersOK', TypeOK', WayInv', emittedIn' = emittedIn,
         received' = received \/ received' = received \o inbox
  PROVE  Extends(received, received')
<1>1. /\ received \in Seq(Nat \X Nat) /\ inbox \in Seq(Nat \X Nat)
      /\ received' \in Seq(Nat \X Nat)
  BY DEF NumbersOK
<1>2. Len(received) <= Len(received') /\ \A i \in 1..Len(received) : received'[i] = received[i]
  <2>1. CASE received' = received
    BY <1>1, <2>1
  <2>2. CASE received' = received \o inbox
    BY <1>1, <2>2
  <2>. QED  BY <2>1, <2>2
<1>3. ASSUME NEW i \in 1..Len(received') PROVE received'[i][2] \in 1..Len(emittedIn)
  <2>1. received' \in Seq(Messages') /\ Messages' = Sessions' \X (1..Len(emittedIn))
    BY DEF TypeOK, Messages, Events
  <2>2. received'[i] \in Messages'
    BY <2>1
  <2>. QED  BY <2>1, <2>2
<1>4. ASSUME NEW i \in 1..Len(received'), NEW j \in 1..Len(received'), i < j
      PROVE  received'[i][2] < received'[j][2]
  <2>. DEFINE a == Numbers(received')
  <2>1. Len(a) = Len(received') /\ \A k \in 1..Len(received') : a[k] = received'[k][2]
    BY <1>1, NumbersHas
  <2>2. Rising(Numbers(received)')
    BY DEF WayInv, FourRise
  <2>3. Rising(a)
    BY <2>2 DEF Numbers
  <2>. HIDE DEF a
  <2>4. a[i] < a[j]
    BY <1>4, <2>1, <2>3 DEF Rising
  <2>. QED  BY <2>1, <2>4
<1>. QED  BY <1>1, <1>2, <1>3, <1>4, RisingExtends

\* The app reads what it re-emits.
LEMMA ClientReads ==
  ASSUME NumbersOK, NumbersOK', TypeOK', BufferInv', emittedIn' = emittedIn,
         local' = local \/ local' = local \o (old \o new)
  PROVE  Extends(Read("client"), Read("client")')
<1>. DEFINE q == [i \in DOMAIN local |-> <<0, local[i]>>]
            r == [i \in DOMAIN local' |-> <<0, local'[i]>>]
<1>1. local \in Seq(Nat) /\ old \o new \in Seq(Nat) /\ local' \in Seq(Nat)
  BY ConcatHas DEF NumbersOK
<1>2. Len(local) <= Len(local') /\ \A i \in 1..Len(local) : local'[i] = local[i]
  <2>1. CASE local' = local
    BY <1>1, <2>1
  <2>. DEFINE t == old \o new
  <2>2. CASE local' = local \o t
    <3>. HIDE DEF t
    <3>1. local \in Seq(Nat) /\ t \in Seq(Nat)
      BY <1>1 DEF t
    <3>. QED  BY <2>2, <3>1
  <2>. QED  BY <2>1, <2>2
<1>3. ASSUME NEW s \in Seq(Nat), NEW p, p = [i \in DOMAIN s |-> <<0, s[i]>>]
      PROVE  /\ p \in Seq(Nat \X Nat) /\ Len(p) = Len(s)
             /\ \A i \in 1..Len(s) : p[i] = <<0, s[i]>> /\ p[i][2] = s[i]
  <2>1. DOMAIN s = 1..Len(s) /\ Len(s) \in Nat /\ \A i \in 1..Len(s) : s[i] \in Nat
    OBVIOUS
  <2>2. p \in [1..Len(s) -> Nat \X Nat]
    BY <1>3, <2>1
  <2>. QED  BY <1>3, <2>1, <2>2
<1>4. /\ q \in Seq(Nat \X Nat) /\ Len(q) = Len(local)
      /\ \A i \in 1..Len(local) : q[i] = <<0, local[i]>> /\ q[i][2] = local[i]
  BY <1>1, <1>3
<1>5. /\ r \in Seq(Nat \X Nat) /\ Len(r) = Len(local')
      /\ \A i \in 1..Len(local') : r[i] = <<0, local'[i]>> /\ r[i][2] = local'[i]
  BY <1>1, <1>3
<1>. HIDE DEF q, r
<1>6. Len(local) \in Nat /\ Len(local') \in Nat
  BY <1>1
<1>7. Len(q) <= Len(r) /\ \A i \in 1..Len(q) : r[i] = q[i]
  <2>1. Len(q) <= Len(r)
    BY <1>2, <1>4, <1>5
  <2>2. ASSUME NEW i \in 1..Len(q) PROVE r[i] = q[i]
    <3>1. i \in 1..Len(local) /\ i \in 1..Len(local')
      BY <1>2, <1>4, <1>6, <2>2
    <3>2. local'[i] = local[i]
      BY <1>2, <3>1
    <3>3. q[i] = <<0, local[i]>> /\ r[i] = <<0, local'[i]>>
      BY <1>4, <1>5, <3>1
    <3>. QED  BY <3>2, <3>3
  <2>. QED  BY <2>1, <2>2
<1>8. ASSUME NEW i \in 1..Len(r) PROVE r[i][2] \in 1..Len(emittedIn)
  <2>1. local' \in Seq(1..Len(emittedIn))
    BY DEF TypeOK, Events
  <2>2. local'[i] \in 1..Len(emittedIn)
    BY <1>5, <2>1
  <2>. QED  BY <1>5, <2>2
<1>9. ASSUME NEW i \in 1..Len(r), NEW j \in 1..Len(r), i < j PROVE r[i][2] < r[j][2]
  <2>1. old' \in Seq(Nat) /\ new' \in Seq(Nat) /\ old' \o new' \in Seq(Nat)
    BY ConcatHas DEF NumbersOK
  <2>2. Rising(local' \o (old' \o new'))
    BY DEF BufferInv, Rising
  <2>3. Rising(local')
    BY <1>1, <2>1, <2>2, ConcatRises
  <2>4. local'[i] < local'[j]
    BY <1>5, <1>9, <2>3 DEF Rising
  <2>. QED  BY <1>5, <2>4
<1>10. Extends(q, r)
  BY <1>4, <1>5, <1>7, <1>8, <1>9, RisingExtends
<1>. QED  BY <1>10 DEF Read, q, r

-----------------------------------------------------------------------------
(* The theorems.                                                           *)

\* Every step keeps the invariant.
LEMMA NextIInv ==
  IInv /\ [Next]_vars => IInv'
<1>. SUFFICES ASSUME IInv, [Next]_vars PROVE IInv'
  OBVIOUS
<1>1. CASE StartConnecting
  BY <1>1, StartConnectingStep
<1>2. CASE Connect
  BY <1>2, ConnectStep
<1>3. CASE Disconnect
  BY <1>3, DisconnectStep
<1>4. CASE SendPackets
  BY <1>4, SendPacketsStep
<1>5. CASE Emit
  BY <1>5, EmitStep
<1>6. CASE \E update \in BOOLEAN : BeginFrame(update)
  BY <1>6, BeginFrameStep
<1>7. CASE EndFrame
  BY <1>7, EndFrameConnected, EndFrameElse
<1>8. CASE ReceivePacket
  BY <1>8, ReceivePacketStep
<1>9. CASE Receive
  BY <1>9, ReceiveStep
<1>10. CASE \E s \in Sessions : RemoveClient(s)
  BY <1>10, RemoveClientStep
<1>11. CASE UNCHANGED vars
  <2>1. UNCHANGED <<clientVars, serverVars, historyVars>>
    BY <1>11 DEF vars
  <2>2. UNCHANGED <<link, clients, inbox, received>>
    BY <2>1 DEF serverVars
  <2>3. link \in Seq(Messages) /\ inbox \in Seq(Messages) /\ received \in Seq(Messages)
    BY DEF IInv, TypeOK
  <2>. QED  BY <2>1, <2>2, <2>3, ServerStep
<1>. QED  BY <1>1, <1>2, <1>3, <1>4, <1>5, <1>6, <1>7, <1>8, <1>9, <1>10, <1>11 DEF Next, Frame

\* The invariant of every state that is reached.
THEOREM SpecIInv ==
  Spec => []IInv
<1>. QED  BY InitIInv, NextIInv, PTL DEF Spec

\* The variables keep their types; messages wait to be sent only while the
\* client is connected.
THEOREM TypeCorrect ==
  Spec => []TypeOK
<1>1. IInv => TypeOK
  BY DEF IInv
<1>. QED  BY <1>1, SpecIInv, PTL

\* However the client connects and disconnects between the frames, no event is
\* sent twice, none is re-emitted twice, and none is sent after that.
THEOREM EventsAreHandledOnce ==
  Spec => []HandledOnce
<1>1. IInv => HandledOnce
  BY DEF IInv
<1>. QED  BY <1>1, SpecIInv, PTL

\* What the server gets in a session that the app has noticed was emitted in it.
THEOREM CleanSeparation ==
  Spec => []SessionsAreSeparate
<1>1. IInv => SessionsAreSeparate
  <2>. SUFFICES ASSUME IInv, NEW i \in DOMAIN received, received[i][1] \in noticed
                PROVE  emittedIn[received[i][2]] = <<"Connected", received[i][1]>>
    BY DEF SessionsAreSeparate
  <2>1. received[i] \in ToSet(received)
    BY DEF ToSet
  <2>2. Separate(received[i])
    BY <2>1 DEF IInv, SeparateInv
  <2>. QED  BY <2>2 DEF Separate, EmittedIn
<1>. QED  BY <1>1, SpecIInv, PTL

\* Game code never reads an event of a client that was removed before it was
\* received.
THEOREM SendersAreConnected ==
  Spec => SenderIsConnected
<1>. DEFINE New == \A i \in DOMAIN received' : i > Len(received) => received'[i][1] \in clients
<1>1. ASSUME IInv, [Next]_vars PROVE [New]_vars
  <2>1. received \in Seq(Messages) /\ inbox \in Seq(Messages)
    BY <1>1 DEF IInv, TypeOK
  <2>2. CASE Receive
    <3>. SUFFICES ASSUME NEW i \in DOMAIN received', i > Len(received)
                  PROVE  received'[i][1] \in clients
      OBVIOUS
    <3>1. received' = received \o inbox
      BY <2>2 DEF Receive
    <3>2. i - Len(received) \in 1..Len(inbox) /\ received'[i] = inbox[i - Len(received)]
      BY <2>1, <3>1
    <3>3. received'[i] \in ToSet(inbox)
      BY <2>1, <3>2, HasElements
    <3>. QED  BY <1>1, <3>3 DEF IInv, SendersInv
  <2>3. CASE received' = received
    <3>1. \A i \in DOMAIN received : ~(i > Len(received))
      BY <2>1
    <3>. QED  BY <2>3, <3>1
  <2>4. Receive \/ received' = received
    BY <1>1 DEF Next, StartConnecting, Connect, Disconnect, SendPackets, Emit, Frame, BeginFrame,
      EndFrame, ReceivePacket, RemoveClient, vars, serverVars
  <2>. QED  BY <2>2, <2>3, <2>4
<1>. HIDE DEF New
<1>2. Spec => [][New]_vars
  BY <1>1, SpecIInv, PTL DEF Spec
<1>. QED  BY <1>2 DEF SenderIsConnected, New

\* Every event is where its number puts it: the sequences that it goes through
\* rise, and so does their concatenation.
THEOREM NumbersRise ==
  Spec => []OrderInv
<1>1. IInv => TypeOK
  BY DEF IInv
<1>2. IInv => NumbersOK
  BY <1>1, Typed
<1>. QED  BY <1>2, InitOrder, NextOrder, OrderParts, SpecIInv, PTL DEF Spec

\* ClientEvents implements EventStream: the server and the app itself read events
\* in the order in which they were emitted, and none twice, whatever happens to
\* the connection (send, resend_locally and receive of client_event.rs).
THEOREM ImplementsEventStream ==
  Spec => ImplementsStream
<1>. DEFINE zero == [app \in Apps |-> 0]
            reads == [app \in Apps |-> Read(app)]
<1>1. Init => Stream!Init
  <2>. SUFFICES ASSUME Init
                PROVE  Len(emittedIn) = 0 /\ zero = [r \in Apps |-> 0] /\ reads = [r \in Apps |-> <<>>]
    BY DEF Stream!Init
  <2>1. [i \in DOMAIN local |-> <<0, local[i]>>] = <<>>
    <3>1. [i \in {} |-> <<0, local[i]>>] = <<>> /\ DOMAIN local = {}
      BY DEF Init
    <3>. QED  BY <3>1
  <2>2. ASSUME NEW app \in Apps PROVE Read(app) = <<>>
    BY <2>1 DEF Init, Read
  <2>. QED  BY <2>2 DEF Init
<1>2. ASSUME IInv, IInv', OrderInv', [Next]_vars
      PROVE  [Stream!Next]_<<Len(emittedIn), zero, reads, {}>>
  <2>1. TypeOK /\ TypeOK' /\ NumbersOK /\ NumbersOK' /\ BufferInv' /\ WayInv'
    BY <1>2, Typed, TypedNext, OrderPartsNext DEF IInv
  <2>2. CASE Emit
    <3>1. UNCHANGED <<received, local>>
      BY <2>2 DEF Emit, serverVars
    <3>2. reads' = reads
      BY <3>1 DEF Read
    <3>3. Len(emittedIn') = Len(emittedIn) + 1
      BY <2>1, <2>2 DEF Emit, TypeOK
    <3>. QED  BY <3>2, <3>3 DEF Stream!Next, Stream!Emit
  <2>3. CASE ~Emit
    <3>1. /\ emittedIn' = emittedIn
          /\ received' = received \/ received' = received \o inbox
          /\ local' = local \/ local' = local \o (old \o new)
      BY <1>2, <2>3 DEF Next, StartConnecting, Connect, Disconnect, SendPackets, Frame, BeginFrame,
         EndFrame, ReEmitted, ReceivePacket, Receive, RemoveClient, vars, clientVars, serverVars,
         historyVars
    <3>2. ASSUME NEW app \in Apps PROVE Extends(Read(app), Read(app)')
      <4>1. CASE app = "server"
        BY <2>1, <3>1, <4>1, ServerReads DEF Read
      <4>2. CASE app = "client"
        BY <2>1, <3>1, <4>2, ClientReads DEF Read
      <4>. QED  BY <4>1, <4>2 DEF Apps
    <3>3. ASSUME NEW app \in Apps
          PROVE  /\ IsPrefix(reads[app], reads'[app])
                 /\ \A i \in DOMAIN reads'[app] : i > Len(reads[app]) => Stream!MayRead(app, i)
      <4>1. reads[app] = Read(app) /\ reads'[app] = Read(app)' /\ zero[app] = 0
        OBVIOUS
      <4>2. Extends(reads[app], reads'[app])
        BY <3>2, <4>1
      <4>. HIDE DEF reads
      <4>. QED  BY <4>1, <4>2 DEF Extends, Stream!MayRead, Stream!Follows, reads
    <3>. HIDE DEF reads
    <3>4. ASSUME NEW app \in Apps PROVE Stream!ReadsOn(app)
      <4>1. Stream!IsPrefix(reads[app], reads'[app])
        BY <3>3 DEF IsPrefix, Stream!IsPrefix
      <4>. QED  BY <3>3, <4>1 DEF Stream!ReadsOn, reads
    <3>5. UNCHANGED <<Len(emittedIn), zero, {}>>
      BY <3>1
    <3>6. Stream!Read
      BY <3>4, <3>5 DEF Stream!Read, reads
    <3>. QED  BY <3>6 DEF Stream!Next
  <2>. QED  BY <2>2, <2>3
<1>. QED  BY <1>1, <1>2, SpecIInv, NumbersRise, PTL DEF Spec, ImplementsStream, Stream!Spec
=============================================================================
