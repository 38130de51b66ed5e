--------------------------- MODULE ServerEventsProofs ---------------------------
(***************************************************************************)
(* Proofs about ServerEvents: its types, that an event is triggered only   *)
(* when the client has what it refers to, that connections are separate    *)
(* but for those that no frame of the client tells apart, that events of a *)
(* type and a connection are triggered in order, that none of them waits   *)
(* in vain, and that the clients and the server read events as EventStream *)
(* promises.                                                               *)
(***************************************************************************)
EXTENDS ServerEvents, SequenceTheorems, WellFoundedInduction, TLAPS

(***************************************************************************)
(* Sequences: selection from them, and their elements.                     *)
(***************************************************************************)

\* A non-empty set of numbers has a least element.
LEMMA LeastExists ==
  ASSUME NEW I, I \subseteq Nat, I # {}
  PROVE  \E n \in I : \A i \in I : n <= i
<1>1. PICK n \in I : \A i \in I : <<i, n>> \notin OpToRel(<, Nat)
  BY NatLessThanWellFounded, WFMin
<1>2. ASSUME NEW i \in I, i < n PROVE FALSE
  <2>1. <<i, n>> \in Nat \X Nat
    OBVIOUS
  <2>2. <<i, n>>[1] < <<i, n>>[2]
    BY <1>2
  <2>3. <<i, n>> \in OpToRel(<, Nat)
    BY <2>1, <2>2, Zenon DEF OpToRel
  <2>. QED  BY <1>1, <2>3
<1>. QED  BY <1>2

\* Induction up to a bound.
LEMMA UpTo ==
  ASSUME NEW n \in Nat, NEW good, 0 \in good, \A m \in 1..n : m - 1 \in good => m \in good
  PROVE  0..n \subseteq good
<1>. DEFINE bad == (0..n) \ good
<1>. SUFFICES ASSUME bad # {} PROVE FALSE
  OBVIOUS
<1>1. bad \subseteq Nat
  OBVIOUS
<1>. HIDE DEF bad
<1>2. PICK m \in bad : \A i \in bad : m <= i
  BY <1>1, LeastExists
<1>3. m \in 0..n /\ m \notin good /\ m # 0
  BY <1>2 DEF bad
<1>4. m \in 1..n /\ m - 1 \in 0..n /\ m - 1 \notin bad
  BY <1>1, <1>2, <1>3
<1>. QED  BY <1>3, <1>4 DEF bad

\* What Min selects.
LEMMA MinIsLeast ==
  ASSUME NEW I, I \subseteq Nat, I # {}
  PROVE  Min(I) \in I /\ \A i \in I : Min(I) <= i
BY LeastExists DEF Min

\* The sequences that the recursion in Selected goes through exist.
LEMMA SelectedSteps ==
  ASSUME NEW T, NEW s \in Seq(T), NEW S
  PROVE  \E kept :
            /\ kept = [n \in 0..Len(s) |->
                         IF n = 0 THEN <<>>
                         ELSE IF s[n] \in S THEN Append(kept[n - 1], s[n]) ELSE kept[n - 1]]
            /\ Selected(s, S) = kept[Len(s)]
<1>. DEFINE After(k, n) == IF s[n] \in S THEN Append(k, s[n]) ELSE k
            Steps(m) == \E f : f = [n \in 0..m |-> IF n = 0 THEN <<>> ELSE After(f[n - 1], n)]
            good == {m \in 0..Len(s) : Steps(m)}
<1>1. Len(s) \in Nat
  OBVIOUS
<1>. HIDE DEF After
<1>2. 0 \in good
  <2>. DEFINE f == [n \in 0..0 |-> <<>>]
  <2>1. f = [n \in 0..0 |-> IF n = 0 THEN <<>> ELSE After(f[n - 1], n)]
    OBVIOUS
  <2>. HIDE DEF f
  <2>2. Steps(0)
    BY <2>1
  <2>. HIDE DEF Steps
  <2>. QED  BY <1>1, <2>2
<1>3. ASSUME NEW m \in 1..Len(s), m - 1 \in good PROVE m \in good
  <2>1. Steps(m - 1)
    BY <1>3
  <2>2. PICK f : f = [n \in 0..(m - 1) |-> IF n = 0 THEN <<>> ELSE After(f[n - 1], n)]
    BY <2>1
  <2>. DEFINE g == [n \in 0..m |-> IF n = m THEN After(f[m - 1], m) ELSE f[n]]
  <2>3. g = [n \in 0..m |-> IF n = 0 THEN <<>> ELSE After(g[n - 1], n)]
    <3>. SUFFICES ASSUME NEW n \in 0..m
                  PROVE  g[n] = IF n = 0 THEN <<>> ELSE After(g[n - 1], n)
      OBVIOUS
    <3>1. CASE n = m
      <4>1. m - 1 \in 0..m /\ m - 1 # m /\ m # 0
        BY <1>1
      <4>2. g[n - 1] = f[m - 1]
        BY <3>1, <4>1
      <4>. QED  BY <3>1, <4>1, <4>2
    <3>2. CASE n # m
      <4>1. n \in 0..(m - 1) /\ (n # 0 => n - 1 \in 0..m /\ n - 1 # m)
        BY <1>1, <3>2
      <4>2. f[n] = IF n = 0 THEN <<>> ELSE After(f[n - 1], n)
        BY <2>2, <4>1
      <4>3. n # 0 => g[n - 1] = f[n - 1]
        BY <4>1
      <4>. QED  BY <3>2, <4>2, <4>3
    <3>. QED  BY <3>1, <3>2
  <2>. HIDE DEF g
  <2>4. Steps(m)
    BY <2>3
  <2>. HIDE DEF Steps
  <2>. QED  BY <1>1, <2>4
<1>4. Steps(Len(s))
  <2>. HIDE DEF good
  <2>1. 0..Len(s) \subseteq good
    BY <1>1, <1>2, <1>3, UpTo
  <2>. QED  BY <1>1, <2>1 DEF good
<1>. DEFINE kept == CHOOSE f : f = [n \in 0..Len(s) |->
                                      IF n = 0 THEN <<>> ELSE After(f[n - 1], n)]
<1>5. kept = [n \in 0..Len(s) |-> IF n = 0 THEN <<>> ELSE After(kept[n - 1], n)]
  BY <1>4
<1>6. Selected(s, S) = kept[Len(s)]
  BY DEF Selected, After
<1>. HIDE DEF kept
<1>7. kept = [n \in 0..Len(s) |->
                IF n = 0 THEN <<>>
                ELSE IF s[n] \in S THEN Append(kept[n - 1], s[n]) ELSE kept[n - 1]]
  BY <1>5 DEF After
<1>. QED  BY <1>6, <1>7

\* A sequence keeps what is in the set, at places in rising order.
KeepsAt(kept, s, S, n, at) ==
  /\ at \in [1..Len(kept) -> 1..n]
  /\ \A i \in 1..Len(kept) : kept[i] = s[at[i]] /\ kept[i] \in S
  /\ \A i, j \in 1..Len(kept) : i < j => at[i] < at[j]
  /\ \A k \in 1..n : s[k] \in S => \E i \in 1..Len(kept) : at[i] = k

\* Selection keeps what is in the set, and nothing else, in order.
LEMMA SelectedPlaces ==
  ASSUME NEW T, NEW s \in Seq(T), NEW S
  PROVE  /\ Selected(s, S) \in Seq(T)
         /\ \E at : KeepsAt(Selected(s, S), s, S, Len(s), at)
<1>1. PICK kept :
         /\ kept = [n \in 0..Len(s) |->
                      IF n = 0 THEN <<>>
                      ELSE IF s[n] \in S THEN Append(kept[n - 1], s[n]) ELSE kept[n - 1]]
         /\ Selected(s, S) = kept[Len(s)]
  BY SelectedSteps
<1>2. Len(s) \in Nat
  OBVIOUS
<1>3. \A n \in 0..Len(s) :
         kept[n] = IF n = 0 THEN <<>>
                   ELSE IF s[n] \in S THEN Append(kept[n - 1], s[n]) ELSE kept[n - 1]
  BY <1>1
<1>. DEFINE Good(n) == kept[n] \in Seq(T) /\ \E at : KeepsAt(kept[n], s, S, n, at)
            good == {n \in 0..Len(s) : Good(n)}
<1>4. 0 \in good
  <2>1. kept[0] = <<>>
    BY <1>2, <1>3
  <2>2. <<>> \in Seq(T) /\ Len(<<>>) = 0
    OBVIOUS
  <2>. DEFINE at == [i \in 1..0 |-> i]
  <2>3. KeepsAt(<<>>, s, S, 0, at)
    BY <2>2 DEF KeepsAt
  <2>. HIDE DEF at
  <2>4. Good(0)
    BY <2>1, <2>2, <2>3
  <2>. HIDE DEF Good
  <2>. QED  BY <1>2, <2>4
<1>5. ASSUME NEW n \in 1..Len(s), n - 1 \in good PROVE n \in good
  <2>. DEFINE old == kept[n - 1]
              new == kept[n]
  <2>1. old \in Seq(T) /\ n - 1 \in 0..Len(s) /\ n \in 0..Len(s) /\ n # 0
    BY <1>2, <1>5
  <2>2. PICK at : KeepsAt(old, s, S, n - 1, at)
    BY <1>5
  <2>3. new = IF s[n] \in S THEN Append(old, s[n]) ELSE old
    BY <1>3, <2>1
  <2>. HIDE DEF old
  <2>4. CASE s[n] \notin S
    <3>1. KeepsAt(old, s, S, n, at)
      <4>1. 1..(n - 1) \subseteq 1..n /\ \A k \in 1..n : k \in 1..(n - 1) \/ k = n
        BY <2>1
      <4>. QED  BY <2>2, <2>4, <4>1 DEF KeepsAt
    <3>. QED  BY <2>1, <2>3, <2>4, <3>1
  <2>5. CASE s[n] \in S
    <3>. DEFINE l  == Len(old) + 1
                to == [i \in 1..l |-> IF i = l THEN n ELSE at[i]]
                e  == s[n]
    <3>1. e \in T
      BY <1>2
    <3>2. new = Append(old, e)
      BY <2>3, <2>5
    <3>. HIDE DEF new, e
    <3>3. /\ new \in Seq(T) /\ Len(new) = l /\ l \in Nat /\ Len(old) \in Nat
          /\ new[l] = e
          /\ \A i \in 1..Len(old) : new[i] = old[i]
      BY <2>1, <3>1, <3>2
    <3>4. \A i \in 1..l : i = l \/ i \in 1..Len(old)
      BY <3>3
    <3>5. \A i \in 1..Len(old) : i \in 1..l /\ i # l /\ to[i] = at[i] /\ at[i] \in 1..(n - 1)
      BY <2>2, <3>3 DEF KeepsAt
    <3>6. l \in 1..l /\ to[l] = n
      BY <3>3
    <3>7. to \in [1..l -> 1..n]
      <4>1. \A i \in 1..l : to[i] \in 1..n
        <5>. TAKE i \in 1..l
        <5>1. CASE i = l
          BY <2>1, <3>6, <5>1
        <5>2. CASE i \in 1..Len(old)
          <6>1. to[i] \in 1..(n - 1)
            BY <3>5, <5>2
          <6>. HIDE DEF to
          <6>. QED  BY <2>1, <6>1
        <5>. QED  BY <3>4, <5>1, <5>2
      <4>. QED  BY <4>1
    <3>. HIDE DEF l, to
    <3>8. \A i \in 1..l : new[i] = s[to[i]] /\ new[i] \in S
      BY <2>2, <2>5, <3>3, <3>4, <3>5, <3>6 DEF KeepsAt, e
    <3>9. ASSUME NEW i \in 1..l, NEW j \in 1..l, i < j PROVE to[i] < to[j]
      <4>1. i \in 1..Len(old)
        BY <3>3, <3>4, <3>9 DEF l
      <4>2. CASE j = l
        BY <2>1, <3>5, <3>6, <4>1, <4>2
      <4>3. CASE j \in 1..Len(old)
        BY <2>2, <3>5, <3>9, <4>1, <4>3 DEF KeepsAt
      <4>. QED  BY <3>4, <4>2, <4>3
    <3>10. ASSUME NEW k \in 1..n, s[k] \in S PROVE \E i \in 1..l : to[i] = k
      <4>1. CASE k = n
        BY <3>6, <4>1
      <4>2. CASE k # n
        <5>1. k \in 1..(n - 1)
          BY <2>1, <4>2
        <5>2. PICK i \in 1..Len(old) : at[i] = k
          BY <2>2, <3>10, <5>1 DEF KeepsAt
        <5>. QED  BY <3>5, <5>2
      <4>. QED  BY <4>1, <4>2
    <3>11. KeepsAt(new, s, S, n, to)
      BY <3>3, <3>7, <3>8, <3>9, <3>10 DEF KeepsAt
    <3>. QED  BY <2>1, <3>3, <3>11 DEF new
  <2>. QED  BY <2>4, <2>5
<1>6. Good(Len(s))
  <2>. HIDE DEF good
  <2>1. 0..Len(s) \subseteq good
    BY <1>2, <1>4, <1>5, UpTo
  <2>. QED  BY <1>2, <2>1 DEF good
<1>. QED  BY <1>1, <1>6

\* What a selection has.
LEMMA SelectedHas ==
  ASSUME NEW T, NEW s \in Seq(T), NEW S
  PROVE  /\ Selected(s, S) \in Seq(T)
         /\ Selected(s, S) \in Seq(S)
         /\ ToSet(Selected(s, S)) = ToSet(s) \cap S
<1>. DEFINE kept == Selected(s, S)
<1>1. kept \in Seq(T)
  BY SelectedPlaces
<1>2. PICK at : KeepsAt(kept, s, S, Len(s), at)
  BY SelectedPlaces
<1>. HIDE DEF kept
<1>3. kept \in Seq(S)
  <2>1. Len(kept) \in Nat /\ kept \in [1..Len(kept) -> T]
    BY <1>1
  <2>2. kept \in [1..Len(kept) -> S]
    BY <1>2, <2>1 DEF KeepsAt
  <2>. QED  BY <2>1, <2>2
<1>4. DOMAIN kept = 1..Len(kept) /\ DOMAIN s = 1..Len(s)
  BY <1>1
<1>5. ASSUME NEW e PROVE e \in ToSet(kept) <=> e \in ToSet(s) \cap S
  <2>1. ASSUME e \in ToSet(kept) PROVE e \in ToSet(s) \cap S
    <3>1. PICK i \in 1..Len(kept) : kept[i] = e
      BY <1>4, <2>1 DEF ToSet
    <3>2. e = s[at[i]] /\ e \in S /\ at[i] \in 1..Len(s)
      BY <1>2, <3>1 DEF KeepsAt
    <3>. QED  BY <1>4, <3>2 DEF ToSet
  <2>2. ASSUME e \in ToSet(s) \cap S PROVE e \in ToSet(kept)
    <3>1. PICK k \in 1..Len(s) : s[k] = e
      BY <1>4, <2>2 DEF ToSet
    <3>2. PICK i \in 1..Len(kept) : at[i] = k
      BY <1>2, <2>2, <3>1 DEF KeepsAt
    <3>3. kept[i] = e
      BY <1>2, <3>1, <3>2 DEF KeepsAt
    <3>. QED  BY <1>4, <3>3 DEF ToSet
  <2>. QED  BY <2>1, <2>2
<1>. QED  BY <1>1, <1>3, <1>5 DEF kept

\* The elements are what the positions hold, and of the sequence's type.
LEMMA HasElements ==
  ASSUME NEW T, NEW s \in Seq(T)
  PROVE  /\ ToSet(s) \subseteq T
         /\ \A e : e \in ToSet(s) <=> \E i \in 1..Len(s) : s[i] = e
         /\ s # <<>> => Head(s) \in ToSet(s) /\ Head(s) = s[1]
<1>1. DOMAIN s = 1..Len(s) /\ Len(s) \in Nat /\ \A i \in 1..Len(s) : s[i] \in T
  OBVIOUS
<1>2. ASSUME s # <<>> PROVE 1 \in 1..Len(s) /\ Head(s) = s[1]
  BY <1>2
<1>3. \A e : e \in ToSet(s) <=> \E i \in 1..Len(s) : s[i] = e
  BY <1>1 DEF ToSet
<1>4. ToSet(s) \subseteq T
  BY <1>1, <1>3
<1>. QED  BY <1>2, <1>3, <1>4

\* The empty sequence has none.
LEMMA EmptyHas ==
  ToSet(<<>>) = {} /\ IsInjective(<<>>)
BY DEF ToSet, IsInjective

\* Concatenation unites the elements.
LEMMA ConcatHas ==
  ASSUME NEW T, NEW s \in Seq(T), NEW t \in Seq(T)
  PROVE  /\ s \o t \in Seq(T)
         /\ ToSet(s \o t) = ToSet(s) \cup ToSet(t)
         /\ IsInjective(s \o t) <=>
              IsInjective(s) /\ IsInjective(t) /\ ToSet(s) \cap ToSet(t) = {}
<1>. DEFINE u == s \o t
            n == Len(s)
            m == Len(t)
<1>1. /\ u \in Seq(T) /\ n \in Nat /\ m \in Nat /\ Len(u) = n + m
      /\ DOMAIN u = 1..(n + m) /\ DOMAIN s = 1..n /\ DOMAIN t = 1..m
  OBVIOUS
<1>2. \A i \in 1..n : u[i] = s[i] /\ i \in 1..(n + m)
  OBVIOUS
<1>3. \A i \in 1..m : u[i + n] = t[i] /\ i + n \in 1..(n + m)
  OBVIOUS
<1>4. \A k \in 1..(n + m) : k \in 1..n \/ \E i \in 1..m : k = i + n
  <2>. TAKE k \in 1..(n + m)
  <2>1. CASE k <= n
    BY <1>1, <2>1
  <2>2. CASE ~(k <= n)
    <3>1. k - n \in 1..m /\ k = (k - n) + n
      BY <1>1, <2>2
    <3>. QED  BY <3>1
  <2>. QED  BY <2>1, <2>2
<1>5. \A e : e \in ToSet(s) <=> \E i \in 1..n : s[i] = e
  BY HasElements
<1>6. \A e : e \in ToSet(t) <=> \E i \in 1..m : t[i] = e
  BY HasElements
<1>7. \A e : e \in ToSet(u) <=> \E i \in 1..(n + m) : u[i] = e
  BY <1>1 DEF ToSet
<1>. HIDE DEF u, n, m
<1>8. ToSet(u) = ToSet(s) \cup ToSet(t)
  <2>1. ASSUME NEW e \in ToSet(u) PROVE e \in ToSet(s) \cup ToSet(t)
    <3>1. PICK k \in 1..(n + m) : u[k] = e
      BY <1>7
    <3>. QED  BY <1>2, <1>3, <1>4, <1>5, <1>6, <3>1
  <2>2. ASSUME NEW e \in ToSet(s) PROVE e \in ToSet(u)
    BY <1>2, <1>5, <1>7
  <2>3. ASSUME NEW e \in ToSet(t) PROVE e \in ToSet(u)
    BY <1>3, <1>6, <1>7
  <2>. QED  BY <2>1, <2>2, <2>3
<1>9. ASSUME IsInjective(s), IsInjective(t), ToSet(s) \cap ToSet(t) = {}
      PROVE  IsInjective(u)
  <2>. SUFFICES ASSUME NEW a \in 1..(n + m), NEW b \in 1..(n + m), u[a] = u[b] PROVE a = b
    BY <1>1 DEF IsInjective
  <2>1. ASSUME NEW i \in 1..n, NEW j \in 1..m, s[i] = t[j] PROVE FALSE
    BY <1>5, <1>6, <1>9, <2>1
  <2>2. \A i \in 1..n, j \in 1..n : s[i] = s[j] => i = j
    BY <1>1, <1>9 DEF IsInjective
  <2>3. \A i \in 1..m, j \in 1..m : t[i] = t[j] => i = j
    BY <1>1, <1>9 DEF IsInjective
  <2>4. CASE a \in 1..n /\ b \in 1..n
    BY <1>2, <2>2, <2>4
  <2>5. CASE a \in 1..n /\ \E j \in 1..m : b = j + n
    BY <1>2, <1>3, <2>1, <2>5
  <2>6. CASE b \in 1..n /\ \E i \in 1..m : a = i + n
    BY <1>2, <1>3, <2>1, <2>6
  <2>7. CASE (\E i \in 1..m : a = i + n) /\ \E j \in 1..m : b = j + n
    BY <1>3, <2>3, <2>7
  <2>. QED  BY <1>4, <2>4, <2>5, <2>6, <2>7
<1>10. ASSUME IsInjective(u)
       PROVE  IsInjective(s) /\ IsInjective(t) /\ ToSet(s) \cap ToSet(t) = {}
  <2>. USE <1>10
  <2>0. \A a \in 1..(n + m), b \in 1..(n + m) : u[a] = u[b] => a = b
    BY <1>1 DEF IsInjective
  <2>1. IsInjective(s)
    <3>1. \A a \in 1..n, b \in 1..n : s[a] = s[b] => a = b
      BY <1>2, <2>0
    <3>. QED  BY <1>1, <3>1 DEF IsInjective
  <2>2. IsInjective(t)
    <3>1. ASSUME NEW a \in 1..m, NEW b \in 1..m, t[a] = t[b] PROVE a = b
      <4>1. a + n = b + n
        BY <1>3, <2>0, <3>1
      <4>. QED  BY <1>1, <4>1
    <3>. QED  BY <1>1, <3>1 DEF IsInjective
  <2>3. ASSUME NEW e \in ToSet(s), e \in ToSet(t) PROVE FALSE
    <3>1. PICK i \in 1..n : s[i] = e
      BY <1>5
    <3>2. PICK j \in 1..m : t[j] = e
      BY <1>6, <2>3
    <3>3. i = j + n
      BY <1>2, <1>3, <2>0, <3>1, <3>2
    <3>. QED  BY <1>1, <3>3
  <2>. QED  BY <2>1, <2>2, <2>3
<1>. QED  BY <1>1, <1>8, <1>9, <1>10 DEF u

\* Append adds one.
LEMMA AppendHas ==
  ASSUME NEW T, NEW s \in Seq(T), NEW e \in T
  PROVE  /\ Append(s, e) \in Seq(T)
         /\ ToSet(Append(s, e)) = ToSet(s) \cup {e}
         /\ IsInjective(Append(s, e)) <=> IsInjective(s) /\ e \notin ToSet(s)
<1>1. Append(s, e) = s \o <<e>> /\ <<e>> \in Seq(T)
  OBVIOUS
<1>2. ToSet(<<e>>) = {e} /\ IsInjective(<<e>>)
  BY DEF ToSet, IsInjective
<1>3. ToSet(s) \cap {e} = {} <=> e \notin ToSet(s)
  OBVIOUS
<1>4. /\ s \o <<e>> \in Seq(T)
      /\ ToSet(s \o <<e>>) = ToSet(s) \cup ToSet(<<e>>)
      /\ IsInjective(s \o <<e>>) <=>
           IsInjective(s) /\ IsInjective(<<e>>) /\ ToSet(s) \cap ToSet(<<e>>) = {}
  BY <1>1, ConcatHas
<1>. QED  BY <1>1, <1>2, <1>3, <1>4

\* The front and the last of a sequence come from it.
LEMMA FrontHas ==
  ASSUME NEW T, NEW s \in Seq(T), s # <<>>
  PROVE  /\ Front(s) \in Seq(T) /\ ToSet(Front(s)) \subseteq ToSet(s)
         /\ Last(s) \in T /\ Last(s) \in ToSet(s)
<1>. DEFINE n == Len(s)
            f == SubSeq(s, 1, n - 1)
<1>1. n \in Nat /\ n >= 1 /\ n \in 1..n
  OBVIOUS
<1>2. f \in Seq(T)
  BY <1>1
<1>3. Len(f) = n - 1
  <2>1. \A k \in 0..n : Len(SubSeq(s, 1, k)) = k
    OBVIOUS
  <2>. DEFINE k == n - 1
  <2>2. k \in 0..n
    BY <1>1
  <2>. HIDE DEF k
  <2>3. Len(SubSeq(s, 1, k)) = k
    BY <2>1, <2>2
  <2>. QED  BY <2>3 DEF k
<1>4. \A i \in 1..(n - 1) : f[i] = s[i] /\ i \in 1..n
  BY <1>1
<1>5. Front(s) = f /\ Last(s) = s[n]
  BY DEF Front, Last
<1>. HIDE DEF f
<1>6. \A e : e \in ToSet(f) <=> \E i \in 1..(n - 1) : f[i] = e
  BY <1>2, <1>3, HasElements
<1>7. \A e : e \in ToSet(s) <=> \E i \in 1..n : s[i] = e
  BY HasElements
<1>8. s[n] \in T
  BY <1>1
<1>. QED  BY <1>1, <1>2, <1>4, <1>5, <1>6, <1>7, <1>8

(***************************************************************************)
(* The invariant.                                                          *)
(***************************************************************************)

\* What the server has is not from the future, and a client's first event is not
\* older than the connection that a frame of its noticed.
ServerInv ==
  /\ \A c \in Clients :
       /\ seen[c] <= serverTick + 1
       /\ updateTick[c] <= serverTick
       /\ c \notin replicated => updateTick[c] = 0
       /\ c \in synced => seen[c] <= updateTick[c] \/ seen[c] = serverTick + 1
       /\ joined[c] <= since[c] /\ since[c] <= lastId
  /\ \A t \in ToSet(spare) : t <= serverTick

\* Events the server still has: their clients can see what they refer to, and
\* they were emitted after the clients connected that are to get them.
Waiting == ToSet(emitted) \cup ToSet(buffered)

EventsInv ==
  /\ \A e \in Waiting :
       /\ e.id <= lastId
       /\ \A c \in Clients : e.need[c] <= seen[c]
  /\ \A c \in connected :
       /\ \A e \in ToSet(emitted) : since[c] < e.id
       /\ \A e \in ToSet(buffered) : c \notin e.excluded => since[c] < e.id

\* Events on their way were stamped with a tick at which the client can see
\* what they refer to, and were emitted in the connection that sent them.
MessagesInv(c) ==
  /\ \A m \in OnTheirWay(c) :
       /\ m.since < m.id
       /\ m.id <= lastId
       /\ m.tick <= serverTick
       /\ IF m.independent THEN m.tick = 0 ELSE m.need <= m.tick
  /\ \A m \in ToSet(messages[c]) : m.since = since[c]
  /\ \A m \in ToSet(Kept(c)) : joined[c] < m.id /\ ~m.independent

\* Those of this connection, the others having been left in the queue by one that
\* was lost and made again between two frames.
Current(c) == {m \in OnTheirWay(c) : m.since = since[c]}
Stale(c)   == {m \in ToSet(Kept(c)) : m.since # since[c]}

\* Ticks of the client and on their way to it, all of them in order, and none
\* before the tick that an event of another connection waits for.  While one
\* waits, it keeps those of this connection from being triggered that wait behind it.
UpdatesInv(c) ==
  /\ clientTick[c] <= serverTick
  /\ \A i \in 1..Len(updates[c]) : clientTick[c] <= updates[c][i] /\ updates[c][i] <= serverTick
  /\ \A i, j \in 1..Len(updates[c]) : i < j => updates[c][i] <= updates[c][j]

StaleInv(c) ==
  \A x \in Stale(c) :
    /\ \A i \in 1..Len(updates[c]) : x.tick <= updates[c][i]
    /\ x.tick <= clientTick[c]
         \/ \A y \in ToSet(Kept(c)) : y.since = since[c] => y.tick > clientTick[c]

\* The client reaches a tick with what was sent to it.
Reaches(c, tick) ==
  tick <= clientTick[c] \/ \E i \in 1..Len(updates[c]) : tick <= updates[c][i]

ReachesInv(c) ==
  c \notin inherited =>
    /\ Reaches(c, updateTick[c])
    /\ \A m \in Current(c) : Reaches(c, m.tick)

\* The update tick is the latest stamp.
StampedInv(c) == \A m \in Current(c) : m.tick <= updateTick[c]

\* A client that is offline is sent nothing.
OfflineInv(c) == updates[c] = <<>> /\ messages[c] = <<>>

\* Events of one type are in order if their numbers rise, or if they are just
\* not the same, as the kind of their channel asks.
Before(kind, x, y) ==
  x.independent = y.independent => IF kind = "Ordered" THEN x.id < y.id ELSE x.id # y.id
InOrder(kind, s)  == \A i, j \in 1..Len(s) : i < j => Before(kind, s[i], s[j])
Ahead(kind, S, T) == \A x \in S, y \in T : Before(kind, x, y)

\* For events that were triggered, this holds on each lane.
Follows(kind, x, y) ==
  x[1] = y[1] => IF kind = "Ordered" THEN x[2] < y[2] ELSE x[2] # y[2]
LanesInOrder(kind, s)  == \A i, j \in 1..Len(s) : i < j => Follows(kind, s[i], s[j])
LanesAhead(kind, S, T) == \A x \in S, y \in T : Follows(kind, x, y)

\* An event as it is when it has been triggered, and back.
Trace(m)  == <<Lane(m), m.id>>
Past(id)  == {[independent |-> x[1][1], id |-> x[2]] : x \in ToSet(triggered[id])}
Traced(S) == {Trace(m) : m \in S}

\* So are those that the server has, and those it handled itself.
OrderInv(kind) ==
  /\ InOrder(kind, emitted)
  /\ InOrder(kind, buffered)
  /\ Ahead(kind, ToSet(buffered), ToSet(emitted))
  /\ Ahead(kind, Past(Server), ToSet(emitted))
  /\ \A id \in Everyone :
       \A x \in ToSet(triggered[id]) : x[2] <= lastId

\* On the server itself their numbers rise, whatever the kind of the channel.
LocalInv == OrderInv("Ordered") /\ LanesInOrder("Ordered", triggered[Server])

\* An event takes its way from one sequence to the next, in order.  Only in the
\* queue one of this connection may overtake one of another: it need not wait, and
\* may be triggered before it.
Handled(c) == Past(c) \cup OnTheirWay(c)

WayInv(kind, c) ==
  /\ InOrder(kind, Kept(c))
  /\ InOrder(kind, messages[c])
  /\ Ahead(kind, ToSet(Kept(c)), ToSet(messages[c]))
  /\ Ahead(kind, Past(c), ToSet(messages[c]))
  /\ LanesAhead(kind, ToSet(triggered[c]), Traced(ToSet(Kept(c))))
  /\ Ahead(kind, Handled(c), ToSet(emitted))
  /\ Ahead(kind, Handled(c), {e \in ToSet(buffered) : c \notin e.excluded})

\* On an ordered channel a later event does not wait for an earlier tick.
StampsInv(kind, c) ==
  kind = "Ordered" =>
    \A x, y \in Current(c) :
      ~x.independent /\ ~y.independent /\ x.id < y.id => x.tick <= y.tick

ClientInv(c) ==
  /\ MessagesInv(c)
  /\ UpdatesInv(c)
  /\ StaleInv(c)
  /\ IF c \in online THEN StampedInv(c) /\ ReachesInv(c) ELSE OfflineInv(c)

OrderedInv(kind) ==
  /\ OrderInv(kind)
  /\ \A id \in Everyone : LanesInOrder(kind, triggered[id])
  /\ \A c \in Clients : WayInv(kind, c)
  /\ \A c \in online : StampsInv(kind, c)

IInv ==
  /\ TypeOK
  /\ ServerInv
  /\ EventsInv
  /\ \A c \in Clients : ClientInv(c)
  /\ LocalInv
  /\ \A kind : channel = kind => OrderedInv(kind)

-----------------------------------------------------------------------------
(* Order.                                                                  *)

\* Related elements, one before the other.
Related(R, s)   == \A i, j \in 1..Len(s) : i < j => <<s[i], s[j]>> \in R
Across(R, S, T) == \A x \in S, y \in T : <<x, y>> \in R

\* They are in a concatenation if they are in its parts and across them.
LEMMA ConcatRelated ==
  ASSUME NEW R, NEW S, NEW s \in Seq(S), NEW t \in Seq(S)
  PROVE  Related(R, s \o t) <=> Related(R, s) /\ Related(R, t) /\ Across(R, ToSet(s), ToSet(t))
<1>. DEFINE u == s \o t
            n == Len(s)
            m == Len(t)
<1>1. n \in Nat /\ m \in Nat /\ Len(u) = n + m
  OBVIOUS
<1>2. \A i \in 1..n : u[i] = s[i] /\ i \in 1..(n + m)
  OBVIOUS
<1>3. \A i \in 1..m : u[i + n] = t[i] /\ i + n \in 1..(n + m)
  OBVIOUS
<1>4. \A k \in 1..(n + m) : k \in 1..n \/ \E i \in 1..m : k = i + n
  <2>. TAKE k \in 1..(n + m)
  <2>1. CASE k <= n
    BY <1>1, <2>1
  <2>2. CASE ~(k <= n)
    <3>1. k - n \in 1..m /\ k = (k - n) + n
      BY <1>1, <2>2
    <3>. QED  BY <3>1
  <2>. QED  BY <2>1, <2>2
<1>5. \A e : e \in ToSet(s) <=> \E i \in 1..n : s[i] = e
  BY HasElements
<1>6. \A e : e \in ToSet(t) <=> \E i \in 1..m : t[i] = e
  BY HasElements
<1>. HIDE DEF u
<1>7. ASSUME Related(R, s), Related(R, t), Across(R, ToSet(s), ToSet(t))
      PROVE  Related(R, u)
  <2>. SUFFICES ASSUME NEW a \in 1..(n + m), NEW b \in 1..(n + m), a < b PROVE <<u[a], u[b]>> \in R
    BY <1>1 DEF Related
  <2>1. CASE a \in 1..n /\ b \in 1..n
    BY <1>2, <1>7, <2>1 DEF Related
  <2>2. CASE a \in 1..n /\ \E j \in 1..m : b = j + n
    BY <1>2, <1>3, <1>5, <1>6, <1>7, <2>2 DEF Across
  <2>3. CASE b \in 1..n /\ \E i \in 1..m : a = i + n
    BY <1>1, <2>3
  <2>4. CASE (\E i \in 1..m : a = i + n) /\ \E j \in 1..m : b = j + n
    <3>1. PICK i \in 1..m : a = i + n
      BY <2>4
    <3>2. PICK j \in 1..m : b = j + n
      BY <2>4
    <3>3. i < j
      BY <1>1, <3>1, <3>2
    <3>. QED  BY <1>3, <1>7, <3>1, <3>2, <3>3 DEF Related
  <2>. QED  BY <1>4, <2>1, <2>2, <2>3, <2>4
<1>8. ASSUME Related(R, u)
      PROVE  Related(R, s) /\ Related(R, t) /\ Across(R, ToSet(s), ToSet(t))
  <2>0. \A a, b \in 1..(n + m) : a < b => <<u[a], u[b]>> \in R
    BY <1>1, <1>8 DEF Related
  <2>1. Related(R, s)
    BY <1>2, <2>0 DEF Related
  <2>2. ASSUME NEW i \in 1..m, NEW j \in 1..m, i < j PROVE <<t[i], t[j]>> \in R
    <3>1. i + n < j + n
      BY <1>1, <2>2
    <3>2. <<u[i + n], u[j + n]>> \in R
      BY <1>3, <2>0, <3>1
    <3>. QED  BY <1>3, <3>2
  <2>3. ASSUME NEW i \in 1..n, NEW j \in 1..m PROVE <<s[i], t[j]>> \in R
    <3>1. i < j + n
      BY <1>1
    <3>2. <<u[i], u[j + n]>> \in R
      BY <1>2, <1>3, <2>0, <3>1
    <3>. QED  BY <1>2, <1>3, <3>2
  <2>. QED  BY <1>5, <1>6, <2>1, <2>2, <2>3 DEF Related, Across
<1>. QED  BY <1>7, <1>8 DEF u

\* So a concatenation is in order if its parts are, and the first is ahead.
LEMMA ConcatOrder ==
  ASSUME NEW kind, NEW S, NEW s \in Seq(S), NEW t \in Seq(S)
  PROVE  InOrder(kind, s \o t) <=>
           InOrder(kind, s) /\ InOrder(kind, t) /\ Ahead(kind, ToSet(s), ToSet(t))
<1>. DEFINE R == {p \in S \X S : Before(kind, p[1], p[2])}
<1>1. \A x, y \in S : <<x, y>> \in R <=> Before(kind, x, y)
  OBVIOUS
<1>. HIDE DEF R
<1>2. ASSUME NEW q \in Seq(S) PROVE Related(R, q) <=> InOrder(kind, q)
  <2>1. \A i \in 1..Len(q) : q[i] \in S
    OBVIOUS
  <2>2. \A i, j \in 1..Len(q) : <<q[i], q[j]>> \in R <=> Before(kind, q[i], q[j])
    BY <1>1, <2>1
  <2>. QED  BY <2>2 DEF Related, InOrder
<1>3. Across(R, ToSet(s), ToSet(t)) <=> Ahead(kind, ToSet(s), ToSet(t))
  <2>1. ToSet(s) \subseteq S /\ ToSet(t) \subseteq S
    BY HasElements
  <2>. QED  BY <1>1, <2>1 DEF Across, Ahead
<1>4. s \o t \in Seq(S)
  OBVIOUS
<1>5. Related(R, s \o t) <=> Related(R, s) /\ Related(R, t) /\ Across(R, ToSet(s), ToSet(t))
  BY ConcatRelated
<1>. QED  BY <1>2, <1>3, <1>4, <1>5

\* And so are its lanes.
LEMMA ConcatLanes ==
  ASSUME NEW kind, NEW S, NEW s \in Seq(S), NEW t \in Seq(S)
  PROVE  LanesInOrder(kind, s \o t) <=>
           /\ LanesInOrder(kind, s) /\ LanesInOrder(kind, t)
           /\ LanesAhead(kind, ToSet(s), ToSet(t))
<1>. DEFINE R == {p \in S \X S : Follows(kind, p[1], p[2])}
<1>1. \A x, y \in S : <<x, y>> \in R <=> Follows(kind, x, y)
  OBVIOUS
<1>. HIDE DEF R
<1>2. ASSUME NEW q \in Seq(S) PROVE Related(R, q) <=> LanesInOrder(kind, q)
  <2>1. \A i \in 1..Len(q) : q[i] \in S
    OBVIOUS
  <2>2. \A i, j \in 1..Len(q) : <<q[i], q[j]>> \in R <=> Follows(kind, q[i], q[j])
    BY <1>1, <2>1
  <2>. QED  BY <2>2 DEF Related, LanesInOrder
<1>3. Across(R, ToSet(s), ToSet(t)) <=> LanesAhead(kind, ToSet(s), ToSet(t))
  <2>1. ToSet(s) \subseteq S /\ ToSet(t) \subseteq S
    BY HasElements
  <2>. QED  BY <1>1, <2>1 DEF Across, LanesAhead
<1>4. s \o t \in Seq(S)
  OBVIOUS
<1>5. Related(R, s \o t) <=> Related(R, s) /\ Related(R, t) /\ Across(R, ToSet(s), ToSet(t))
  BY ConcatRelated
<1>. QED  BY <1>2, <1>3, <1>4, <1>5

\* Appending something that comes last.
LEMMA AppendOrder ==
  ASSUME NEW kind, NEW S, NEW s \in Seq(S), NEW e \in S,
         InOrder(kind, s), Ahead(kind, ToSet(s), {e})
  PROVE  InOrder(kind, Append(s, e))
<1>1. Append(s, e) = s \o <<e>> /\ <<e>> \in Seq(S)
  OBVIOUS
<1>2. ToSet(<<e>>) = {e}
  BY DEF ToSet
<1>3. InOrder(kind, <<e>>)
  <2>1. Len(<<e>>) = 1
    OBVIOUS
  <2>. QED  BY <2>1 DEF InOrder
<1>4. InOrder(kind, s \o <<e>>) <=>
        InOrder(kind, s) /\ InOrder(kind, <<e>>) /\ Ahead(kind, ToSet(s), ToSet(<<e>>))
  BY <1>1, ConcatOrder
<1>. QED  BY <1>1, <1>2, <1>3, <1>4

\* Nothing is in order.
LEMMA EmptyOrder ==
  \A kind : InOrder(kind, <<>>) /\ LanesInOrder(kind, <<>>)
<1>1. Len(<<>>) = 0
  OBVIOUS
<1>. QED  BY <1>1 DEF InOrder, LanesInOrder

\* A selection is in the order of the sequence.
LEMMA SelectedOrder ==
  ASSUME NEW kind, NEW S, NEW s \in Seq(S), NEW X, InOrder(kind, s)
  PROVE  InOrder(kind, Selected(s, X))
<1>. DEFINE kept == Selected(s, X)
<1>1. kept \in Seq(S)
  BY SelectedPlaces
<1>2. PICK at : KeepsAt(kept, s, X, Len(s), at)
  BY SelectedPlaces
<1>. HIDE DEF kept
<1>3. ASSUME NEW i \in 1..Len(kept), NEW j \in 1..Len(kept), i < j
      PROVE  Before(kind, kept[i], kept[j])
  <2>1. /\ at[i] \in 1..Len(s) /\ at[j] \in 1..Len(s) /\ at[i] < at[j]
        /\ kept[i] = s[at[i]] /\ kept[j] = s[at[j]]
    BY <1>2, <1>3 DEF KeepsAt
  <2>2. Before(kind, s[at[i]], s[at[j]])
    BY <2>1 DEF InOrder
  <2>. QED  BY <2>1, <2>2
<1>. QED  BY <1>3 DEF InOrder, kept

\* Another form of each event, with its number.
Renders(t, s) ==
  /\ Len(t) = Len(s)
  /\ \A i \in 1..Len(s) : t[i].id = s[i].id /\ t[i].independent = s[i].independent

\* It has the same order.
LEMMA RenderedOrder ==
  ASSUME NEW kind, NEW s, NEW t, Renders(t, s), InOrder(kind, s)
  PROVE  InOrder(kind, t)
<1>1. ASSUME NEW i \in 1..Len(t), NEW j \in 1..Len(t), i < j PROVE Before(kind, t[i], t[j])
  <2>1. Before(kind, s[i], s[j])
    BY <1>1 DEF InOrder, Renders
  <2>. QED  BY <2>1 DEF Before, Renders
<1>. QED  BY <1>1 DEF InOrder

\* Each of the first has the number and the kind of one of the others.
Among(S, T) == \A y \in S : \E x \in T : x.id = y.id /\ x.independent = y.independent

\* Order does not tell them apart.
LEMMA AmongAhead ==
  ASSUME NEW kind, NEW S, NEW T, NEW U, NEW V, Among(S, U), Among(T, V), Ahead(kind, U, V)
  PROVE  Ahead(kind, S, T)
<1>. SUFFICES ASSUME NEW x \in S, NEW y \in T PROVE Before(kind, x, y)
  BY DEF Ahead
<1>1. PICK u \in U : u.id = x.id /\ u.independent = x.independent
  BY DEF Among
<1>2. PICK v \in V : v.id = y.id /\ v.independent = y.independent
  BY DEF Among
<1>3. Before(kind, u, v)
  BY DEF Ahead
<1>. QED  BY <1>1, <1>2, <1>3 DEF Before

\* What was triggered shows the kinds and the numbers of some events.
Shown(T, S) == \A y \in T : \E x \in S : y[1][1] = x.independent /\ y[2] = x.id

\* Its lanes are in order if the events are.
LEMMA ShownAhead ==
  ASSUME NEW kind, NEW S, NEW T, NEW U, NEW V, Shown(S, U), Shown(T, V), Ahead(kind, U, V)
  PROVE  LanesAhead(kind, S, T)
<1>. SUFFICES ASSUME NEW x \in S, NEW y \in T, x[1] = y[1]
              PROVE  IF kind = "Ordered" THEN x[2] < y[2] ELSE x[2] # y[2]
  BY DEF LanesAhead, Follows
<1>1. PICK u \in U : x[1][1] = u.independent /\ x[2] = u.id
  BY DEF Shown
<1>2. PICK v \in V : y[1][1] = v.independent /\ y[2] = v.id
  BY DEF Shown
<1>3. Before(kind, u, v)
  BY DEF Ahead
<1>. QED  BY <1>1, <1>2, <1>3 DEF Before

\* A sequence of what was triggered, event by event.
Shows(t, s) ==
  /\ Len(t) = Len(s)
  /\ \A i \in 1..Len(s) : t[i][1][1] = s[i].independent /\ t[i][2] = s[i].id

\* It is in order as well.
LEMMA ShownOrder ==
  ASSUME NEW kind, NEW s, NEW t, Shows(t, s), InOrder(kind, s)
  PROVE  LanesInOrder(kind, t)
<1>. SUFFICES ASSUME NEW i \in 1..Len(t), NEW j \in 1..Len(t), i < j, t[i][1] = t[j][1]
              PROVE  IF kind = "Ordered" THEN t[i][2] < t[j][2] ELSE t[i][2] # t[j][2]
  BY DEF LanesInOrder, Follows
<1>1. Before(kind, s[i], s[j])
  BY DEF InOrder, Shows
<1>2. /\ t[i][1][1] = s[i].independent /\ t[i][2] = s[i].id
      /\ t[j][1][1] = s[j].independent /\ t[j][2] = s[j].id
  BY DEF Shows
<1>. QED  BY <1>1, <1>2 DEF Before

\* Removing an element leaves the others in their order, and what is ahead of it.
LEMMA RemovedAt ==
  ASSUME NEW S, NEW s \in Seq(S), NEW i \in 1..Len(s)
  PROVE  /\ RemoveAt(s, i) \in Seq(S)
         /\ ToSet(RemoveAt(s, i)) \subseteq ToSet(s)
         /\ \A kind : InOrder(kind, s) => InOrder(kind, RemoveAt(s, i))
         /\ \A kind :
              /\ InOrder(kind, s)
              /\ kind = "Ordered" => \A j \in 1..(i - 1) : s[j].independent # s[i].independent
              => Ahead(kind, {s[i]}, ToSet(RemoveAt(s, i)))
<1>. DEFINE a == SubSeq(s, 1, i - 1)
            b == SubSeq(s, i + 1, Len(s))
            r == RemoveAt(s, i)
            n == Len(s)
<1>1. n \in Nat /\ i \in Nat /\ i >= 1 /\ i <= n
  OBVIOUS
<1>2. a \in Seq(S) /\ Len(a) = i - 1 /\ \A j \in 1..(i - 1) : a[j] = s[j]
  OBVIOUS
<1>3. b \in Seq(S) /\ Len(b) = n - i /\ \A j \in 1..(n - i) : b[j] = s[j + i]
  OBVIOUS
<1>4. r = a \o b
  BY DEF RemoveAt
<1>. HIDE DEF a, b, r
<1>5. \A e : e \in ToSet(s) <=> \E j \in 1..n : s[j] = e
  BY HasElements
<1>6. \A e : e \in ToSet(a) <=> \E j \in 1..(i - 1) : s[j] = e
  <2>1. \A e : e \in ToSet(a) <=> \E j \in 1..Len(a) : a[j] = e
    BY <1>2, HasElements
  <2>. QED  BY <1>2, <2>1
<1>7. \A e : e \in ToSet(b) <=> \E j \in 1..(n - i) : s[j + i] = e
  <2>1. \A e : e \in ToSet(b) <=> \E j \in 1..Len(b) : b[j] = e
    BY <1>3, HasElements
  <2>. QED  BY <1>3, <2>1
<1>8. \A j \in 1..(i - 1) : j \in 1..n /\ j < i
  BY <1>1
<1>9. \A j \in 1..(n - i) : j + i \in 1..n /\ i < j + i
  BY <1>1
<1>10. a \o b \in Seq(S) /\ ToSet(a \o b) = ToSet(a) \cup ToSet(b)
  BY <1>2, <1>3, ConcatHas
<1>11. ToSet(r) \subseteq ToSet(s)
  BY <1>4, <1>5, <1>6, <1>7, <1>8, <1>9, <1>10
<1>12. ASSUME NEW kind, InOrder(kind, s) PROVE InOrder(kind, r)
  <2>0. \A j, k \in 1..n : j < k => Before(kind, s[j], s[k])
    BY <1>12 DEF InOrder
  <2>1. InOrder(kind, a)
    <3>1. ASSUME NEW j \in 1..(i - 1), NEW k \in 1..(i - 1), j < k PROVE Before(kind, a[j], a[k])
      <4>1. Before(kind, s[j], s[k])
        BY <1>8, <2>0, <3>1
      <4>. QED  BY <1>2, <4>1
    <3>. QED  BY <1>2, <3>1 DEF InOrder
  <2>2. InOrder(kind, b)
    <3>1. ASSUME NEW j \in 1..(n - i), NEW k \in 1..(n - i), j < k PROVE Before(kind, b[j], b[k])
      <4>1. j + i < k + i
        BY <1>1, <3>1
      <4>2. Before(kind, s[j + i], s[k + i])
        BY <1>9, <2>0, <4>1
      <4>. QED  BY <1>3, <4>2
    <3>. QED  BY <1>3, <3>1 DEF InOrder
  <2>3. Ahead(kind, ToSet(a), ToSet(b))
    <3>1. ASSUME NEW j \in 1..(i - 1), NEW k \in 1..(n - i) PROVE Before(kind, s[j], s[k + i])
      <4>1. j < k + i
        BY <1>1
      <4>. QED  BY <1>8, <1>9, <2>0, <4>1
    <3>. QED  BY <1>6, <1>7, <3>1 DEF Ahead
  <2>. QED  BY <1>2, <1>3, <1>4, <2>1, <2>2, <2>3, ConcatOrder
<1>13. ASSUME NEW kind, InOrder(kind, s),
              kind = "Ordered" => \A j \in 1..(i - 1) : s[j].independent # s[i].independent
       PROVE  Ahead(kind, {s[i]}, ToSet(r))
  <2>1. ASSUME NEW e \in ToSet(a) PROVE Before(kind, s[i], e)
    <3>1. PICK j \in 1..(i - 1) : s[j] = e
      BY <1>6
    <3>2. Before(kind, s[j], s[i])
      BY <1>8, <1>13, <3>1 DEF InOrder
    <3>. QED  BY <1>13, <3>1, <3>2 DEF Before
  <2>2. ASSUME NEW e \in ToSet(b) PROVE Before(kind, s[i], e)
    BY <1>7, <1>9, <1>13 DEF InOrder
  <2>. QED  BY <1>4, <1>10, <2>1, <2>2 DEF Ahead
<1>. QED  BY <1>4, <1>10, <1>11, <1>12, <1>13 DEF r

-----------------------------------------------------------------------------
(* What the operators of the model yield.                                  *)

\* The bounds are numbers, so that ticks and numbers of events can be compared.
LEMMA Bounds ==
  Ticks \subseteq Nat /\ Ids \subseteq Nat /\ 0 \in Ticks /\ 0 \in 0..MaxEvents
BY BoundsAssumption DEF Ticks, Ids

\* A sequence made from another, element by element.
MadeFrom(t, s, T) ==
  /\ t = [i \in DOMAIN s |-> t[i]]
  /\ \A i \in DOMAIN s : t[i] \in T

\* It has the type and the length one expects, and no other elements.
LEMMA Mapped ==
  ASSUME NEW S, NEW s \in Seq(S), NEW T, NEW t, MadeFrom(t, s, T)
  PROVE  /\ t \in Seq(T) /\ Len(t) = Len(s)
         /\ \A y \in ToSet(t) : \E i \in 1..Len(s) : s[i] \in ToSet(s) /\ y = t[i]
<1>1. DOMAIN s = 1..Len(s) /\ Len(s) \in Nat
  OBVIOUS
<1>2. t \in [1..Len(s) -> T]
  BY <1>1 DEF MadeFrom
<1>3. t \in Seq(T) /\ Len(t) = Len(s)
  BY <1>1, <1>2
<1>4. \A i \in 1..Len(s) : s[i] \in ToSet(s)
  BY HasElements
<1>5. \A y : y \in ToSet(t) <=> \E i \in 1..Len(t) : t[i] = y
  BY <1>3, HasElements
<1>. QED  BY <1>3, <1>4, <1>5

\* Events that go to clients, of either kind.
Sendable(S) ==
  \A e \in S :
    /\ e.id \in Ids
    /\ e.independent \in BOOLEAN
    /\ e.need \in [Clients -> Ticks]

\* Emitted and buffered events are of this kind.
LEMMA EventsAreSendable ==
  Sendable(EventRecords) /\ Sendable(BufferedEvents)
BY DEF Sendable, EventRecords, BufferedEvents

\* SentTo gives each message the number of its event, in order.
LEMMA SentToHas ==
  ASSUME TypeOK, NEW c \in Clients, NEW S, Sendable(S), NEW events \in Seq(S), NEW tick \in Ticks
  PROVE  /\ SentTo(c, events, tick) \in Seq(Messages)
         /\ c \notin online => SentTo(c, events, tick) = <<>>
         /\ \A m \in ToSet(SentTo(c, events, tick)) :
              \E e \in ToSet(events) : m = Message(e, c, tick)
         /\ \A kind : InOrder(kind, events) => InOrder(kind, SentTo(c, events, tick))
<1>. DEFINE X == {e \in ToSet(events) : c \in e.to}
            addressed == Selected(events, X)
            sent == [i \in DOMAIN addressed |-> Message(addressed[i], c, tick)]
<1>0. since[c] \in 0..MaxEvents
  BY DEF TypeOK
<1>1. SentTo(c, events, tick) = IF c \in online THEN sent ELSE <<>>
  BY DEF SentTo
<1>. HIDE DEF X
<1>2. /\ addressed \in Seq(S)
      /\ ToSet(addressed) = ToSet(events) \cap X
      /\ \A kind : InOrder(kind, events) => InOrder(kind, addressed)
  BY SelectedHas, SelectedOrder
<1>. HIDE DEF addressed
<1>3. \A i \in DOMAIN addressed : addressed[i] \in S
  BY <1>2
<1>4. \A i \in DOMAIN addressed : sent[i] = Message(addressed[i], c, tick)
  OBVIOUS
<1>5. \A i \in DOMAIN addressed :
         /\ sent[i] \in Messages
         /\ sent[i].id = addressed[i].id /\ sent[i].independent = addressed[i].independent
  BY <1>0, <1>3, <1>4 DEF Sendable, Message, Messages
<1>6. sent = [i \in DOMAIN addressed |-> sent[i]]
  OBVIOUS
<1>. HIDE DEF sent
<1>7. /\ sent \in Seq(Messages) /\ Len(sent) = Len(addressed)
      /\ \A y \in ToSet(sent) :
           \E i \in 1..Len(addressed) : addressed[i] \in ToSet(addressed) /\ y = sent[i]
  <2>1. MadeFrom(sent, addressed, Messages) /\ addressed \in Seq(S)
    BY <1>2, <1>5, <1>6 DEF MadeFrom
  <2>. QED  BY <2>1, Mapped
<1>8. DOMAIN addressed = 1..Len(addressed)
  BY <1>2
<1>9. \A m \in ToSet(sent) : \E e \in ToSet(events) : m = Message(e, c, tick)
  BY <1>2, <1>4, <1>7, <1>8
<1>10. \A kind : InOrder(kind, events) => InOrder(kind, sent)
  <2>1. Renders(sent, addressed)
    BY <1>5, <1>7, <1>8 DEF Renders
  <2>. QED  BY <1>2, <2>1, RenderedOrder
<1>11. <<>> \in Seq(Messages)
  OBVIOUS
<1>. QED  BY <1>1, <1>7, <1>9, <1>10, <1>11, EmptyHas, EmptyOrder

\* What is left of an event that was triggered.
Traces == Lanes \X Ids

\* It has a lane and a number.
LEMMA TraceTyped ==
  \A x \in Traces : x[1] \in Lanes /\ x[1][1] \in BOOLEAN /\ x[2] \in Ids /\ x[2] \in Nat
BY Bounds DEF Traces, Lanes

\* Traces that are made one from each event have the order of the events.
LEMMA TracesHave ==
  ASSUME NEW S, NEW s \in Seq(S), NEW t, MadeFrom(t, s, Traces),
         \A i \in DOMAIN s : t[i][1][1] = s[i].independent /\ t[i][2] = s[i].id
  PROVE  /\ t \in Seq(Traces)
         /\ Shown(ToSet(t), ToSet(s))
         /\ \A kind : InOrder(kind, s) => LanesInOrder(kind, t)
<1>1. DOMAIN s = 1..Len(s)
  OBVIOUS
<1>2. /\ t \in Seq(Traces) /\ Len(t) = Len(s)
      /\ \A y \in ToSet(t) : \E i \in 1..Len(s) : s[i] \in ToSet(s) /\ y = t[i]
  BY Mapped
<1>3. Shown(ToSet(t), ToSet(s))
  BY <1>1, <1>2 DEF Shown
<1>4. Shows(t, s)
  BY <1>1, <1>2 DEF Shows
<1>. QED  BY <1>2, <1>3, <1>4, ShownOrder

\* A message of a connection leaves one.
LEMMA MessageTrace ==
  ASSUME NEW m \in Messages
  PROVE  Trace(m) \in Traces /\ Trace(m)[1] = Lane(m) /\ Trace(m)[1][1] = m.independent
         /\ Trace(m)[2] = m.id
<1>. DEFINE f == m.independent
            k == m.since
            d == m.id
<1>1. f \in BOOLEAN /\ k \in 0..MaxEvents /\ d \in Ids
  BY DEF Messages
<1>2. Trace(m) = <<<<f, k>>, d>> /\ Lane(m) = <<f, k>>
  BY DEF Trace, Lane
<1>. HIDE DEF f, k, d
<1>3. <<<<f, k>>, d>> \in Traces
  BY <1>1 DEF Traces, Lanes
<1>. QED  BY <1>2, <1>3 DEF f, d

\* Triggering keeps lanes, numbers and order.
LEMMA TriggersHas ==
  ASSUME NEW events \in Seq(Messages)
  PROVE  /\ Triggers(events) \in Seq(Traces)
         /\ ToSet(Triggers(events)) \subseteq Traced(ToSet(events))
         /\ Shown(ToSet(Triggers(events)), ToSet(events))
         /\ \A kind : InOrder(kind, events) => LanesInOrder(kind, Triggers(events))
<1>. DEFINE t == Triggers(events)
<1>1. t = [i \in DOMAIN events |-> <<Lane(events[i]), events[i].id>>]
  BY DEF Triggers
<1>2. DOMAIN events = 1..Len(events) /\ \A i \in DOMAIN events : events[i] \in Messages
  OBVIOUS
<1>3. t = [i \in DOMAIN events |-> t[i]]
  BY <1>1
<1>4. \A i \in DOMAIN events : t[i] = Trace(events[i])
  BY <1>1 DEF Trace
<1>. HIDE DEF t
<1>5. \A i \in DOMAIN events :
         t[i] \in Traces /\ t[i][1][1] = events[i].independent /\ t[i][2] = events[i].id
  BY <1>2, <1>4, MessageTrace
<1>6. MadeFrom(t, events, Traces)
  BY <1>3, <1>5 DEF MadeFrom
<1>7. \A y \in ToSet(t) : \E i \in 1..Len(events) : events[i] \in ToSet(events) /\ y = t[i]
  BY <1>6, Mapped
<1>8. ToSet(t) \subseteq Traced(ToSet(events))
  BY <1>2, <1>4, <1>7 DEF Traced
<1>. QED  BY <1>5, <1>6, <1>8, TracesHave DEF t

\* Messages in order leave traces in order.
LEMMA TracedAhead ==
  ASSUME NEW kind, NEW S, S \subseteq Messages, NEW T, T \subseteq Messages, Ahead(kind, S, T)
  PROVE  LanesAhead(kind, Traced(S), Traced(T))
<1>1. ASSUME NEW U, U \subseteq Messages PROVE Shown(Traced(U), U)
  <2>1. \A m \in U : Trace(m)[1][1] = m.independent /\ Trace(m)[2] = m.id
    BY <1>1, MessageTrace
  <2>. QED  BY <2>1 DEF Shown, Traced
<1>. QED  BY <1>1, ShownAhead

\* Independent events are sent at once.
LEMMA IndependentHas ==
  ASSUME TypeOK
  PROVE  /\ Independent \in Seq(EventRecords)
         /\ \A e \in ToSet(Independent) : e \in ToSet(emitted) /\ e.independent
         /\ \A kind : InOrder(kind, emitted) => InOrder(kind, Independent)
<1>. DEFINE X == {e \in ToSet(emitted) : e.independent}
<1>1. emitted \in Seq(EventRecords)
  BY DEF TypeOK
<1>2. Independent = Selected(emitted, X)
  BY DEF Independent
<1>3. \A e \in X : e.independent
  OBVIOUS
<1>. HIDE DEF X
<1>4. /\ Selected(emitted, X) \in Seq(EventRecords)
      /\ ToSet(Selected(emitted, X)) = ToSet(emitted) \cap X
      /\ \A kind : InOrder(kind, emitted) => InOrder(kind, Selected(emitted, X))
  BY <1>1, SelectedHas, SelectedOrder
<1>. QED  BY <1>2, <1>3, <1>4

\* An event that goes to the buffer.
BufferedAs(e, b) ==
  /\ ~e.independent
  /\ b.id = e.id /\ b.need = e.need /\ b.excluded = {}

\* The others are buffered, after those that are buffered already.
LEMMA BufferedHas ==
  ASSUME TypeOK
  PROVE  /\ Buffered \in Seq(BufferedEvents)
         /\ \A b \in ToSet(Buffered) :
              b \in ToSet(buffered) \/ \E e \in ToSet(emitted) : BufferedAs(e, b)
         /\ \A kind :
              /\ InOrder(kind, buffered) /\ InOrder(kind, emitted)
              /\ Ahead(kind, ToSet(buffered), ToSet(emitted))
              => InOrder(kind, Buffered)
<1>. DEFINE X == {e \in ToSet(emitted) : ~e.independent}
            regular == Selected(emitted, X)
            more == [i \in DOMAIN regular |->
                       [id |-> regular[i].id, to |-> regular[i].to, independent |-> FALSE,
                        need |-> regular[i].need, excluded |-> {}]]
<1>1. emitted \in Seq(EventRecords) /\ buffered \in Seq(BufferedEvents)
  BY DEF TypeOK
<1>2. Buffered = buffered \o more
  BY DEF Buffered
<1>3. \A e \in X : ~e.independent
  OBVIOUS
<1>. HIDE DEF X
<1>4. /\ regular \in Seq(EventRecords)
      /\ ToSet(regular) = ToSet(emitted) \cap X
      /\ \A kind : InOrder(kind, emitted) => InOrder(kind, regular)
  BY <1>1, SelectedHas, SelectedOrder
<1>. HIDE DEF regular
<1>5. DOMAIN regular = 1..Len(regular) /\ \A i \in DOMAIN regular : regular[i] \in EventRecords
  BY <1>4
<1>6. \A i \in DOMAIN regular : regular[i] \in ToSet(regular)
  BY <1>4, <1>5, HasElements
<1>7. \A i \in DOMAIN regular : ~regular[i].independent
  BY <1>3, <1>4, <1>6
<1>8. \A i \in DOMAIN regular :
         more[i] = [id |-> regular[i].id, to |-> regular[i].to, independent |-> FALSE,
                    need |-> regular[i].need, excluded |-> {}]
  OBVIOUS
<1>9. more = [i \in DOMAIN regular |-> more[i]]
  OBVIOUS
<1>. HIDE DEF more
<1>10. ASSUME NEW i \in DOMAIN regular
       PROVE  /\ more[i] \in BufferedEvents
              /\ more[i].id = regular[i].id /\ more[i].independent = regular[i].independent
              /\ BufferedAs(regular[i], more[i])
  <2>. DEFINE e == regular[i]
              b == more[i]
  <2>1. e \in EventRecords /\ ~e.independent
    BY <1>5, <1>7
  <2>2. b = [id |-> e.id, to |-> e.to, independent |-> FALSE, need |-> e.need, excluded |-> {}]
    BY <1>8
  <2>. HIDE DEF e, b
  <2>3. /\ e.id \in Ids /\ e.to \in SendModes /\ e.independent = FALSE
        /\ e.need \in [Clients -> Ticks]
    BY <2>1 DEF EventRecords
  <2>4. /\ b.id = e.id /\ b.to = e.to /\ b.independent = FALSE
        /\ b.need = e.need /\ b.excluded = {}
    BY <2>2
  <2>5. b \in BufferedEvents
    BY <2>2, <2>3 DEF BufferedEvents
  <2>6. BufferedAs(e, b)
    BY <2>3, <2>4 DEF BufferedAs
  <2>. QED  BY <2>3, <2>4, <2>5, <2>6 DEF e, b
<1>11. MadeFrom(more, regular, BufferedEvents) /\ regular \in Seq(EventRecords)
  BY <1>4, <1>9, <1>10 DEF MadeFrom
<1>12. \A i \in DOMAIN regular : BufferedAs(regular[i], more[i])
  BY <1>10
<1>13. /\ more \in Seq(BufferedEvents) /\ Len(more) = Len(regular)
       /\ \A y \in ToSet(more) :
            \E i \in 1..Len(regular) : regular[i] \in ToSet(regular) /\ y = more[i]
  BY <1>11, Mapped
<1>14. /\ buffered \o more \in Seq(BufferedEvents)
       /\ ToSet(buffered \o more) = ToSet(buffered) \cup ToSet(more)
  BY <1>1, <1>13, ConcatHas
<1>15. \A b \in ToSet(more) : \E e \in ToSet(emitted) : BufferedAs(e, b)
  BY <1>4, <1>5, <1>12, <1>13
<1>16. ASSUME NEW kind, InOrder(kind, buffered), InOrder(kind, emitted),
              Ahead(kind, ToSet(buffered), ToSet(emitted))
       PROVE  InOrder(kind, buffered \o more)
  <2>1. Renders(more, regular)
    BY <1>5, <1>10, <1>13 DEF Renders
  <2>2. InOrder(kind, more)
    BY <1>4, <1>16, <2>1, RenderedOrder
  <2>3. Ahead(kind, ToSet(buffered), ToSet(more))
    <3>1. ASSUME NEW x \in ToSet(buffered), NEW y \in ToSet(more) PROVE Before(kind, x, y)
      <4>1. PICK i \in 1..Len(regular) : regular[i] \in ToSet(regular) /\ y = more[i]
        BY <1>13
      <4>2. Before(kind, x, regular[i])
        BY <1>4, <1>16, <4>1 DEF Ahead
      <4>3. y.id = regular[i].id /\ y.independent = regular[i].independent
        BY <1>5, <1>10, <4>1
      <4>. QED  BY <4>2, <4>3 DEF Before
    <3>. QED  BY <3>1 DEF Ahead
  <2>. QED  BY <1>1, <1>13, <1>16, <2>2, <2>3, ConcatOrder
<1>. QED  BY <1>2, <1>14, <1>15, <1>16

\* A tick sends what is buffered to the clients that are not excluded.
LEMMA SentBufferedHas ==
  ASSUME TypeOK, NEW c \in Clients, Stamp(c) \in Ticks
  PROVE  /\ SentBuffered(c) \in Seq(Messages)
         /\ c \notin online \/ c \notin replicated => SentBuffered(c) = <<>>
         /\ \A m \in ToSet(SentBuffered(c)) :
              \E b \in ToSet(Buffered) : c \notin b.excluded /\ m = Message(b, c, Stamp(c))
         /\ \A kind : InOrder(kind, Buffered) => InOrder(kind, SentBuffered(c))
<1>. DEFINE X == {e \in ToSet(Buffered) : c \notin e.excluded}
            chosen == Selected(Buffered, X)
            stamp == Stamp(c)
<1>1. SentBuffered(c) = IF c \in replicated THEN SentTo(c, chosen, stamp) ELSE <<>>
  BY DEF SentBuffered
<1>2. Buffered \in Seq(BufferedEvents) /\ stamp \in Ticks
  BY BufferedHas
<1>3. \A e \in X : c \notin e.excluded
  OBVIOUS
<1>. HIDE DEF X, stamp
<1>4. /\ chosen \in Seq(BufferedEvents)
      /\ ToSet(chosen) = ToSet(Buffered) \cap X
      /\ \A kind : InOrder(kind, Buffered) => InOrder(kind, chosen)
  BY <1>2, SelectedHas, SelectedOrder
<1>. HIDE DEF chosen
<1>5. /\ SentTo(c, chosen, stamp) \in Seq(Messages)
      /\ c \notin online => SentTo(c, chosen, stamp) = <<>>
      /\ \A m \in ToSet(SentTo(c, chosen, stamp)) :
           \E e \in ToSet(chosen) : m = Message(e, c, stamp)
      /\ \A kind : InOrder(kind, chosen) => InOrder(kind, SentTo(c, chosen, stamp))
  BY <1>2, <1>4, EventsAreSendable, SentToHas
<1>6. <<>> \in Seq(Messages)
  OBVIOUS
<1>. QED  BY <1>1, <1>3, <1>4, <1>5, <1>6, EmptyHas, EmptyOrder DEF stamp

\* The queue is what is popped and what stays; of the latter the first waits.
LEMMA QueueParts ==
  ASSUME TypeOK, NEW c \in Clients
  PROVE  /\ Popped(c) \in Seq(Messages) /\ StillQueued(c) \in Seq(Messages)
         /\ queue[c] = Popped(c) \o StillQueued(c)
         /\ \A x \in ToSet(Popped(c)) : x.tick <= clientTick[c]
         /\ StillQueued(c) # <<>> => \E x \in ToSet(StillQueued(c)) : x.tick > clientTick[c]
<1>. DEFINE q == queue[c]
            n == Len(q)
            I == {i \in 1..n : q[i].tick > clientTick[c]}
            k == FirstWaiting(c)
<1>1. q \in Seq(Messages) /\ n \in Nat /\ clientTick[c] \in Nat
  <2>1. q \in Seq(Messages) /\ clientTick[c] \in Ticks
    BY DEF TypeOK
  <2>2. n \in Nat
    BY <2>1
  <2>. QED  BY <2>1, <2>2, Bounds
<1>2. k = IF I # {} THEN Min(I) ELSE 0
  BY DEF FirstWaiting, SelectInSeq
<1>3. \A i \in 1..n : q[i].tick \in Nat
  <2>. TAKE i \in 1..n
  <2>1. q[i] \in Messages
    BY <1>1
  <2>. HIDE DEF q
  <2>2. q[i].tick \in Ticks
    BY <2>1 DEF Messages
  <2>. QED  BY <2>2, Bounds
<1>4. I \subseteq Nat /\ I \subseteq 1..n
  OBVIOUS
<1>5. \A i \in 1..n : i \in I <=> q[i].tick > clientTick[c]
  OBVIOUS
<1>6. /\ Popped(c) = IF k = 0 THEN q ELSE SubSeq(q, 1, k - 1)
      /\ StillQueued(c) = IF k = 0 THEN <<>> ELSE SubSeq(q, k, n)
  BY DEF Popped, StillQueued
<1>. HIDE DEF q, n, I, k
<1>7. CASE I = {}
  <2>1. k = 0
    BY <1>2, <1>7
  <2>2. Popped(c) = q /\ StillQueued(c) = <<>>
    BY <1>6, <2>1
  <2>3. \A x \in ToSet(q) : x.tick <= clientTick[c]
    <3>1. \A x : x \in ToSet(q) <=> \E i \in 1..n : q[i] = x
      BY <1>1, HasElements DEF n
    <3>2. \A i \in 1..n : q[i].tick <= clientTick[c]
      BY <1>1, <1>3, <1>5, <1>7
    <3>. QED  BY <3>1, <3>2
  <2>4. <<>> \in Seq(Messages) /\ q = q \o <<>>
    BY <1>1
  <2>. QED  BY <1>1, <2>2, <2>3, <2>4 DEF q
<1>8. CASE I # {}
  <2>1. k \in I /\ \A i \in I : k <= i
    BY <1>2, <1>4, <1>8, MinIsLeast
  <2>2. k \in 1..n /\ k # 0
    BY <1>4, <2>1
  <2>. DEFINE a == SubSeq(q, 1, k - 1)
              b == SubSeq(q, k, n)
  <2>3. Popped(c) = a /\ StillQueued(c) = b
    BY <1>6, <2>2
  <2>4. a \in Seq(Messages) /\ Len(a) = k - 1 /\ \A i \in 1..(k - 1) : a[i] = q[i]
    BY <1>1, <2>2 DEF n
  <2>5. b \in Seq(Messages) /\ Len(b) = n - k + 1 /\ \A i \in 1..(n - k + 1) : b[i] = q[i + k - 1]
    BY <1>1, <2>2 DEF n
  <2>6. q = a \o b
    BY <1>1, <2>2 DEF n
  <2>. HIDE DEF a, b
  <2>7. \A x \in ToSet(a) : x.tick <= clientTick[c]
    <3>1. \A x : x \in ToSet(a) <=> \E i \in 1..(k - 1) : a[i] = x
      BY <2>4, HasElements
    <3>2. \A i \in 1..(k - 1) : i \in 1..n /\ i \notin I
      BY <1>1, <2>1, <2>2
    <3>3. \A i \in 1..(k - 1) : q[i].tick <= clientTick[c]
      BY <1>1, <1>3, <1>5, <3>2
    <3>. QED  BY <2>4, <3>1, <3>3
  <2>8. q[k] \in ToSet(b) /\ q[k].tick > clientTick[c]
    <3>1. \A x : x \in ToSet(b) <=> \E i \in 1..(n - k + 1) : b[i] = x
      BY <2>5, HasElements
    <3>2. 1 \in 1..(n - k + 1) /\ 1 + k - 1 = k
      BY <1>1, <2>2
    <3>3. b[1] = q[k]
      BY <2>5, <3>2
    <3>. QED  BY <1>5, <2>1, <2>2, <3>1, <3>2, <3>3
  <2>. QED  BY <2>3, <2>4, <2>5, <2>6, <2>7, <2>8 DEF q
<1>. QED  BY <1>7, <1>8

\* InsertQueued puts a message in the last place, and may take others away.
LEMMA InsertQueuedHas ==
  ASSUME NEW q \in Seq(Messages), NEW m \in Messages
  PROVE  /\ InsertQueued(q, m) \in Seq(Messages)
         /\ ToSet(InsertQueued(q, m)) \subseteq ToSet(q) \cup {m}
         /\ \A kind : InOrder(kind, q) /\ Ahead(kind, ToSet(q), {m})
                        => InOrder(kind, InsertQueued(q, m))
<1>. DEFINE X == {n \in ToSet(q) : n.tick # m.tick}
            kept == Selected(q, X)
<1>1. InsertQueued(q, m) = Append(kept, m)
  BY DEF InsertQueued
<1>. HIDE DEF X
<1>2. /\ kept \in Seq(Messages) /\ ToSet(kept) = ToSet(q) \cap X 
      /\ \A kind : InOrder(kind, q) => InOrder(kind, kept)
  BY SelectedHas, SelectedOrder
<1>. HIDE DEF kept
<1>3. Append(kept, m) \in Seq(Messages) /\ ToSet(Append(kept, m)) = ToSet(kept) \cup {m}
  BY <1>2, AppendHas
<1>4. ASSUME NEW kind, InOrder(kind, q), Ahead(kind, ToSet(q), {m}) PROVE InOrder(kind, Append(kept, m))
  <2>1. Ahead(kind, ToSet(kept), {m})
    BY <1>2, <1>4 DEF Ahead
  <2>. QED  BY <1>2, <1>4, <2>1, AppendOrder
<1>. QED  BY <1>1, <1>2, <1>3, <1>4

-----------------------------------------------------------------------------
(* The initial states.                                                     *)

\* The invariant holds at first.
LEMMA InitIInv ==
  Init => IInv
<1>. SUFFICES ASSUME Init PROVE IInv
  OBVIOUS
<1>1. \A S : <<>> \in Seq(S)
  OBVIOUS
<1>2. Len(<<>>) = 0 /\ 1..0 = {}
  OBVIOUS
<1>3. \A c \in Clients : updates[c] = <<>> /\ messages[c] = <<>> /\ Kept(c) = <<>>
  BY DEF Init, Kept
<1>4. \A id \in Everyone : triggered[id] = <<>> /\ ToSet(triggered[id]) = {}
  BY EmptyHas DEF Init
<1>5. TypeOK
  <2>1. /\ emitted \in Seq(EventRecords) /\ buffered \in Seq(BufferedEvents)
        /\ spare \in Seq(Ticks)
    BY <1>1 DEF Init
  <2>2. updates \in [Clients -> Seq(Ticks)]
    BY <1>1 DEF Init
  <2>3. messages \in [Clients -> Seq(Messages)] /\ queue \in [Clients -> Seq(Messages)]
    BY <1>1 DEF Init
  <2>4. triggered \in [Everyone -> Seq(Lanes \X Ids)]
    BY <1>1 DEF Init
  <2>5. /\ seen \in [Clients -> Ticks] /\ updateTick \in [Clients -> Ticks]
        /\ clientTick \in [Clients -> Ticks] /\ serverTick \in Ticks
    BY Bounds DEF Init
  <2>6. /\ since \in [Clients -> 0..MaxEvents] /\ joined \in [Clients -> 0..MaxEvents]
        /\ lastId \in 0..MaxEvents
    BY Bounds DEF Init
  <2>7. connects \in 0..MaxConnects
    BY BoundsAssumption DEF Init
  <2>8. /\ channel \in ChannelKinds /\ connected \subseteq Clients /\ replicated \subseteq connected
        /\ synced \subseteq replicated /\ online \subseteq connected /\ inherited \subseteq Clients
        /\ lastStatus \in [Clients -> Statuses]
    BY DEF Init, Statuses
  <2>. QED  BY <2>1, <2>2, <2>3, <2>4, <2>5, <2>6, <2>7, <2>8 DEF TypeOK
<1>6. ServerInv
  <2>1. ToSet(spare) = {}
    BY EmptyHas DEF Init
  <2>2. \A c \in Clients : seen[c] = 0 /\ updateTick[c] = 0 /\ since[c] = 0 /\ joined[c] = 0
    BY DEF Init
  <2>3. serverTick = 0 /\ lastId = 0 /\ synced = {}
    BY DEF Init
  <2>. QED  BY <2>1, <2>2, <2>3 DEF ServerInv
<1>7. ToSet(emitted) = {} /\ ToSet(buffered) = {} /\ connected = {} /\ online = {}
  BY EmptyHas DEF Init
<1>8. EventsInv
  BY <1>7 DEF EventsInv, Waiting
<1>9. ASSUME NEW c \in Clients
      PROVE  ClientInv(c) /\ OnTheirWay(c) = {} /\ ToSet(Kept(c)) = {} /\ ToSet(messages[c]) = {}
  <2>1. clientTick[c] = 0 /\ serverTick = 0
    BY DEF Init
  <2>2. UpdatesInv(c)
    BY <1>2, <1>3, <2>1 DEF UpdatesInv
  <2>3. ToSet(messages[c]) = {} /\ ToSet(Kept(c)) = {}
    BY <1>3, EmptyHas
  <2>4. MessagesInv(c) /\ StaleInv(c)
    BY <2>3 DEF MessagesInv, StaleInv, Stale, OnTheirWay
  <2>. QED  BY <1>3, <1>7, <2>2, <2>3, <2>4 DEF ClientInv, OfflineInv, OnTheirWay
<1>10. ASSUME NEW kind PROVE OrderedInv(kind) /\ LanesInOrder(kind, triggered[Server])
  <2>1. InOrder(kind, emitted) /\ InOrder(kind, buffered)
    BY EmptyOrder DEF Init
  <2>2. /\ Ahead(kind, ToSet(buffered), ToSet(emitted))
        /\ Ahead(kind, Past(Server), ToSet(emitted))
    BY <1>7 DEF Ahead
  <2>3. \A id \in Everyone : LanesInOrder(kind, triggered[id])
    BY <1>4, EmptyOrder
  <2>4. Server \in Everyone
    BY DEF Everyone
  <2>5. OrderInv(kind)
    BY <1>4, <2>1, <2>2 DEF OrderInv
  <2>6. ASSUME NEW c \in Clients PROVE WayInv(kind, c)
    <3>1. ToSet(buffered) = {} /\ ToSet(emitted) = {}
      BY <1>7
    <3>2. InOrder(kind, Kept(c)) /\ InOrder(kind, messages[c])
      BY <1>3, EmptyOrder
    <3>. QED  BY <1>9, <3>1, <3>2 DEF WayInv, Ahead, LanesAhead, Traced
  <2>. QED  BY <1>7, <2>3, <2>4, <2>5, <2>6 DEF OrderedInv
<1>11. LocalInv
  BY <1>10 DEF LocalInv, OrderedInv
<1>. QED  BY <1>5, <1>6, <1>8, <1>9, <1>10, <1>11 DEF IInv

-----------------------------------------------------------------------------
(* Facts about types, and what is kept.                                    *)

\* The types of what concerns a client.
LEMMA ClientTyped ==
  ASSUME TypeOK, NEW c \in Clients
  PROVE  /\ updates[c] \in Seq(Ticks) /\ messages[c] \in Seq(Messages)
         /\ queue[c] \in Seq(Messages) /\ Kept(c) \in Seq(Messages)
         /\ OnTheirWay(c) \subseteq Messages
         /\ seen[c] \in Nat /\ updateTick[c] \in Nat /\ clientTick[c] \in Nat
         /\ since[c] \in Nat /\ joined[c] \in Nat
         /\ \A i \in 1..Len(updates[c]) : updates[c][i] \in Nat
<1>1. updates[c] \in Seq(Ticks) /\ messages[c] \in Seq(Messages) /\ queue[c] \in Seq(Messages)
  BY DEF TypeOK
<1>2. Kept(c) \in Seq(Messages)
  <2>1. <<>> \in Seq(Messages)
    OBVIOUS
  <2>. QED  BY <1>1, <2>1 DEF Kept
<1>4. ToSet(messages[c]) \subseteq Messages /\ ToSet(Kept(c)) \subseteq Messages
  BY <1>1, <1>2, HasElements
<1>5. /\ seen[c] \in Ticks /\ updateTick[c] \in Ticks /\ clientTick[c] \in Ticks
      /\ since[c] \in 0..MaxEvents /\ joined[c] \in 0..MaxEvents
  BY DEF TypeOK
<1>6. \A i \in 1..Len(updates[c]) : updates[c][i] \in Ticks
  BY <1>1
<1>7. seen[c] \in Nat /\ updateTick[c] \in Nat /\ clientTick[c] \in Nat
  BY <1>5, Bounds
<1>8. since[c] \in Nat /\ joined[c] \in Nat
  BY <1>5, BoundsAssumption
<1>9. \A i \in 1..Len(updates[c]) : updates[c][i] \in Nat
  BY <1>6, Bounds
<1>10. OnTheirWay(c) \subseteq Messages
  BY <1>4 DEF OnTheirWay
<1>. QED  BY <1>1, <1>2, <1>7, <1>8, <1>9, <1>10

\* Messages have numbers and ticks.
LEMMA MessageTyped ==
  ASSUME NEW m \in Messages
  PROVE  /\ m.id \in Nat /\ m.independent \in BOOLEAN /\ m.need \in Nat /\ m.tick \in Nat
         /\ m.since \in Nat
<1>1. /\ m.id \in Ids /\ m.independent \in BOOLEAN /\ m.need \in Ticks /\ m.tick \in Ticks
      /\ m.since \in 0..MaxEvents
  BY DEF Messages
<1>2. m.since \in Nat
  BY <1>1, BoundsAssumption
<1>. QED  BY <1>1, <1>2, Bounds

\* So do events.
LEMMA EventTyped ==
  ASSUME TypeOK, NEW e \in Waiting
  PROVE  /\ e.id \in Nat /\ e.independent \in BOOLEAN
         /\ \A c \in Clients : e.need[c] \in Nat
<1>1. ToSet(emitted) \subseteq EventRecords /\ ToSet(buffered) \subseteq BufferedEvents
  <2>1. emitted \in Seq(EventRecords) /\ buffered \in Seq(BufferedEvents)
    BY DEF TypeOK
  <2>. QED  BY <2>1, HasElements
<1>2. e.id \in Ids /\ e.independent \in BOOLEAN /\ e.need \in [Clients -> Ticks]
  BY <1>1, EventsAreSendable DEF Waiting, Sendable
<1>. QED  BY <1>2, Bounds

\* The server's numbers.
LEMMA ServerTyped ==
  TypeOK => serverTick \in Nat /\ lastId \in Nat
BY Bounds, BoundsAssumption DEF TypeOK

\* Events that were triggered, and the records of them.
LEMMA TriggeredTyped ==
  ASSUME TypeOK, NEW id \in Everyone
  PROVE  /\ triggered[id] \in Seq(Traces)
         /\ \A x \in ToSet(triggered[id]) : x \in Traces /\ x[2] \in Nat
         /\ \A p \in Past(id) : \E x \in ToSet(triggered[id]) :
              p.id = x[2] /\ p.independent = x[1][1]
         /\ Shown(ToSet(triggered[id]), Past(id))
<1>1. triggered[id] \in Seq(Traces)
  BY DEF TypeOK, Traces
<1>2. \A x \in ToSet(triggered[id]) : x \in Traces /\ x[2] \in Nat
  BY <1>1, HasElements, TraceTyped
<1>3. ASSUME NEW x
      PROVE  /\ [independent |-> x[1][1], id |-> x[2]].independent = x[1][1]
             /\ [independent |-> x[1][1], id |-> x[2]].id = x[2]
  OBVIOUS
<1>4. \A p \in Past(id) : \E x \in ToSet(triggered[id]) : p.id = x[2] /\ p.independent = x[1][1]
  BY <1>3 DEF Past
<1>5. Shown(ToSet(triggered[id]), Past(id))
  BY <1>3 DEF Past, Shown
<1>. QED  BY <1>1, <1>2, <1>4, <1>5

\* And so do those behind what was triggered.
LEMMA PastAhead ==
  ASSUME TypeOK, NEW kind, NEW id \in Everyone, NEW T, T \subseteq Messages, Ahead(kind, Past(id), T)
  PROVE  LanesAhead(kind, ToSet(triggered[id]), Traced(T))
<1>1. Shown(ToSet(triggered[id]), Past(id))
  BY TriggeredTyped
<1>2. \A m \in T : Trace(m)[1][1] = m.independent /\ Trace(m)[2] = m.id
  BY MessageTrace
<1>3. Shown(Traced(T), T)
  BY <1>2 DEF Shown, Traced
<1>. QED  BY <1>1, <1>3, ShownAhead

\* What was triggered after a step, of what had been and other events.
LEMMA PastAmong ==
  ASSUME NEW id, NEW S, NEW T, Shown(T, S), ToSet(triggered'[id]) = ToSet(triggered[id]) \cup T
  PROVE  Among(Past(id)', Past(id) \cup S)
<1>. SUFFICES ASSUME NEW p \in Past(id)'
              PROVE  \E x \in Past(id) \cup S : x.id = p.id /\ x.independent = p.independent
  BY DEF Among
<1>1. PICK x \in ToSet(triggered'[id]) : p = [independent |-> x[1][1], id |-> x[2]]
  BY DEF Past
<1>2. CASE x \in ToSet(triggered[id])
  <2>1. p \in Past(id)
    BY <1>1, <1>2 DEF Past
  <2>. QED  BY <2>1
<1>3. CASE x \in T
  <2>1. PICK e \in S : x[1][1] = e.independent /\ x[2] = e.id
    BY <1>3 DEF Shown
  <2>2. p.id = x[2] /\ p.independent = x[1][1]
    BY <1>1
  <2>. QED  BY <2>1, <2>2
<1>. QED  BY <1>1, <1>2, <1>3

\* What a client has, or has on its way, does not change.
SameEvents(c) ==
  /\ updates'[c] = updates[c]
  /\ messages'[c] = messages[c]
  /\ queue'[c] = queue[c]
  /\ lastStatus'[c] = lastStatus[c]
  /\ clientTick'[c] = clientTick[c]
  /\ since'[c] = since[c]
  /\ joined'[c] = joined[c]

\* Nor does what concerns it otherwise.
SameClient(c) ==
  /\ SameEvents(c)
  /\ updateTick'[c] = updateTick[c]
  /\ c \in online' <=> c \in online
  /\ c \in inherited' <=> c \in inherited

\* Then its part of the invariant is kept, as the server's numbers only grow.
LEMMA EventsKept ==
  ASSUME TypeOK, NEW c \in Clients, ClientInv(c), SameEvents(c),
         serverTick' \in Nat, serverTick <= serverTick',
         lastId' \in Nat, lastId <= lastId'
  PROVE  /\ MessagesInv(c)' /\ UpdatesInv(c)' /\ StaleInv(c)'
         /\ Current(c)' = Current(c) /\ (OfflineInv(c)' <=> OfflineInv(c))
<1>1. /\ clientTick[c] \in Nat /\ serverTick \in Nat /\ lastId \in Nat
      /\ \A i \in 1..Len(updates[c]) : updates[c][i] \in Nat
      /\ OnTheirWay(c) \subseteq Messages
  BY ClientTyped, ServerTyped
<1>2. \A m \in OnTheirWay(c) : m.id \in Nat /\ m.tick \in Nat
  BY <1>1, MessageTyped
<1>3. /\ Kept(c)' = Kept(c) /\ OnTheirWay(c)' = OnTheirWay(c)
      /\ Current(c)' = Current(c) /\ Stale(c)' = Stale(c)
  BY DEF SameEvents, OnTheirWay, Kept, Current, Stale
<1>4. UpdatesInv(c)'
  BY <1>1 DEF UpdatesInv, ClientInv, SameEvents
<1>5. OfflineInv(c)' <=> OfflineInv(c)
  BY DEF OfflineInv, SameEvents
<1>6. MessagesInv(c)'
  <2>1. MessagesInv(c)
    BY DEF ClientInv
  <2>2. \A m \in OnTheirWay(c) : m.id <= lastId' /\ m.tick <= serverTick'
    BY <1>1, <1>2, <2>1 DEF MessagesInv
  <2>. QED  BY <1>3, <2>1, <2>2 DEF MessagesInv, SameEvents
<1>7. StaleInv(c)'
  BY <1>3 DEF StaleInv, ClientInv, SameEvents
<1>. QED  BY <1>3, <1>4, <1>5, <1>6, <1>7

\* And so is the whole of it, if its connection does not change either.
LEMMA ClientKept ==
  ASSUME TypeOK, NEW c \in Clients, ClientInv(c), SameClient(c),
         serverTick' \in Nat, serverTick <= serverTick',
         lastId' \in Nat, lastId <= lastId'
  PROVE  ClientInv(c)'
<1>1. /\ MessagesInv(c)' /\ UpdatesInv(c)' /\ StaleInv(c)'
      /\ Current(c)' = Current(c) /\ (OfflineInv(c)' <=> OfflineInv(c))
  BY EventsKept DEF SameClient
<1>2. ReachesInv(c) => ReachesInv(c)'
  BY <1>1 DEF ReachesInv, Reaches, SameClient, SameEvents
<1>3. StampedInv(c) => StampedInv(c)'
  BY <1>1 DEF StampedInv, SameClient
<1>4. c \in online' <=> c \in online
  BY DEF SameClient
<1>. QED  BY <1>1, <1>2, <1>3, <1>4 DEF ClientInv

\* Buffered events that are for the client.
Unexcluded(c) == {e \in ToSet(buffered) : c \notin e.excluded}

\* Its events keep their places.
SameWay(c) ==
  /\ queue'[c] = queue[c]
  /\ lastStatus'[c] = lastStatus[c]
  /\ messages'[c] = messages[c]
  /\ triggered'[c] = triggered[c]

\* Then they stay in order if no other events come up behind them.
LEMMA WayKept ==
  ASSUME NEW kind, NEW c, WayInv(kind, c), SameWay(c),
         Among(ToSet(emitted'), ToSet(emitted)),
         Among(Unexcluded(c)', Unexcluded(c))
  PROVE  WayInv(kind, c)' /\ (StampsInv(kind, c) /\ since'[c] = since[c] => StampsInv(kind, c)')
<1>1. /\ Kept(c)' = Kept(c) /\ OnTheirWay(c)' = OnTheirWay(c) /\ Past(c)' = Past(c)
      /\ Handled(c)' = Handled(c)
  BY DEF Kept, OnTheirWay, Past, Handled, SameWay
<1>2. StampsInv(kind, c) /\ since'[c] = since[c] => StampsInv(kind, c)'
  BY <1>1 DEF StampsInv, Current
<1>3. Ahead(kind, Handled(c), ToSet(emitted')) /\ Ahead(kind, Handled(c), Unexcluded(c)')
  <2>1. Ahead(kind, Handled(c), ToSet(emitted)) /\ Ahead(kind, Handled(c), Unexcluded(c))
    BY DEF WayInv, Unexcluded
  <2>2. Among(Handled(c), Handled(c))
    BY DEF Among
  <2>. QED  BY <2>1, <2>2, AmongAhead
<1>4. WayInv(kind, c)'
  <2>1. Traced(ToSet(Kept(c)))' = Traced(ToSet(Kept(c)))
    BY <1>1 DEF Traced, Trace, Lane
  <2>. QED  BY <1>1, <1>3, <2>1 DEF WayInv, SameWay, Unexcluded
<1>. QED  BY <1>2, <1>4

\* Steps that leave all events where they are.
LEMMA OrderKept ==
  ASSUME IInv,
         UNCHANGED <<channel, emitted, buffered, triggered, lastId, messages, queue, lastStatus,
                     online, since>>
  PROVE  LocalInv' /\ \A kind : channel' = kind => OrderedInv(kind)'
<1>1. ASSUME NEW kind, OrderInv(kind) PROVE OrderInv(kind)'
  <2>1. Past(Server)' = Past(Server)
    BY DEF Past
  <2>. QED  BY <1>1, <2>1 DEF OrderInv
<1>2. LocalInv'
  BY <1>1 DEF IInv, LocalInv
<1>3. ASSUME NEW kind, channel = kind PROVE OrderedInv(kind)'
  <2>1. OrderedInv(kind)
    BY <1>3 DEF IInv
  <2>2. OrderInv(kind)'
    BY <1>1, <2>1 DEF OrderedInv
  <2>3. ASSUME NEW c \in Clients PROVE WayInv(kind, c)' /\ (c \in online => StampsInv(kind, c)')
    <3>1. WayInv(kind, c) /\ (c \in online => StampsInv(kind, c))
      BY <2>1 DEF OrderedInv
    <3>2. SameWay(c)
      BY DEF SameWay
    <3>3. Among(ToSet(emitted'), ToSet(emitted)) /\ Among(Unexcluded(c)', Unexcluded(c))
      BY DEF Unexcluded, Among
    <3>. QED  BY <3>1, <3>2, <3>3, WayKept
  <2>4. online \subseteq Clients
    BY DEF IInv, TypeOK
  <2>. QED  BY <2>1, <2>2, <2>3, <2>4 DEF OrderedInv
<1>. QED  BY <1>2, <1>3

-----------------------------------------------------------------------------
(* Game code.                                                              *)

\* A change of the world is newer than what anybody could see.
LEMMA ChangeWorldStep ==
  ASSUME IInv, NEW viewers \in SUBSET Clients, ChangeWorld(viewers)
  PROVE  IInv'
<1>1. UNCHANGED <<channel, serverTick, emitted, lastId, buffered, connected, replicated,
                  synced, updateTick, spare, updates, messages, online, lastStatus, clientTick,
                  queue, triggered, connects, since, joined, inherited>>
  BY DEF ChangeWorld, clientVars, history
<1>2. /\ serverTick < MaxTick
      /\ seen' = [c \in Clients |-> IF c \in viewers THEN serverTick + 1 ELSE seen[c]]
  BY DEF ChangeWorld
<1>3. TypeOK /\ serverTick \in Nat /\ lastId \in Nat
  BY ServerTyped DEF IInv
<1>4. ASSUME NEW c \in Clients
      PROVE  /\ seen'[c] \in Nat /\ seen[c] <= seen'[c] /\ seen'[c] <= serverTick + 1
             /\ seen'[c] = seen[c] \/ seen'[c] = serverTick + 1
  <2>1. seen[c] \in Nat /\ seen[c] <= serverTick + 1
    BY <1>3, ClientTyped DEF IInv, ServerInv
  <2>2. seen'[c] = IF c \in viewers THEN serverTick + 1 ELSE seen[c]
    BY <1>2
  <2>. QED  BY <1>3, <2>1, <2>2
<1>5. TypeOK'
  <2>1. seen' \in [Clients -> Ticks]
    <3>1. serverTick + 1 \in Ticks
      BY <1>2, <1>3, BoundsAssumption DEF Ticks
    <3>2. \A c \in Clients : seen[c] \in Ticks
      BY <1>3 DEF TypeOK
    <3>. QED  BY <1>2, <3>1, <3>2
  <2>. QED  BY <1>1, <1>3, <2>1 DEF TypeOK
<1>6. ServerInv'
  BY <1>1, <1>4 DEF IInv, ServerInv
<1>7. EventsInv'
  <2>1. Waiting' = Waiting
    BY <1>1 DEF Waiting
  <2>2. ASSUME NEW e \in Waiting, NEW c \in Clients PROVE e.need[c] <= seen'[c]
    <3>1. e.need[c] \in Nat /\ e.need[c] <= seen[c] /\ seen[c] \in Nat
      BY <1>3, ClientTyped, EventTyped DEF IInv, EventsInv
    <3>. QED  BY <1>4, <3>1
  <2>. QED  BY <1>1, <2>1, <2>2 DEF IInv, EventsInv
<1>8. ASSUME NEW c \in Clients PROVE ClientInv(c)'
  <2>1. SameClient(c)
    BY <1>1 DEF SameClient, SameEvents
  <2>2. serverTick' = serverTick /\ lastId' = lastId
    BY <1>1
  <2>. QED  BY <1>3, <2>1, <2>2, ClientKept DEF IInv
<1>9. LocalInv' /\ \A kind : channel' = kind => OrderedInv(kind)'
  BY <1>1, OrderKept
<1>. QED  BY <1>5, <1>6, <1>7, <1>8, <1>9 DEF IInv

\* An event is newer than all others, and refers to what its clients can see.
LEMMA EmitStep ==
  ASSUME IInv, NEW mode \in SendModes, NEW independent \in BOOLEAN, Emit(mode, independent)
  PROVE  IInv'
<1>. DEFINE e == [id |-> lastId + 1, to |-> mode, independent |-> independent, need |-> seen]
<1>1. UNCHANGED <<channel, serverTick, seen, buffered, connected, replicated, synced,
                  updateTick, spare, updates, messages, online, lastStatus, clientTick, queue,
                  triggered, connects, since, joined, inherited>>
  BY DEF Emit, clientVars, history
<1>2. lastId < MaxEvents /\ lastId' = lastId + 1 /\ emitted' = Append(emitted, e)
  BY DEF Emit
<1>3. TypeOK /\ serverTick \in Nat /\ lastId \in Nat
  BY ServerTyped DEF IInv
<1>4. lastId + 1 \in Ids /\ lastId' \in 0..MaxEvents
  BY <1>2, <1>3, BoundsAssumption DEF Ids
<1>5. e \in EventRecords /\ e.id = lastId + 1 /\ e.need = seen
  BY <1>3, <1>4 DEF EventRecords, TypeOK
<1>. HIDE DEF e
<1>6. emitted \in Seq(EventRecords)
  BY <1>3 DEF TypeOK
<1>7. emitted' \in Seq(EventRecords) /\ ToSet(emitted') = ToSet(emitted) \cup {e}
  BY <1>2, <1>5, <1>6, AppendHas
<1>8. TypeOK'
  BY <1>1, <1>3, <1>4, <1>7 DEF TypeOK
<1>9. \A x \in Waiting : x.id \in Nat /\ x.id <= lastId
  BY <1>3, EventTyped DEF IInv, EventsInv
<1>10. ServerInv'
  <2>1. \A c \in Clients : since[c] \in Nat /\ since[c] <= lastId
    BY <1>3, ClientTyped DEF IInv, ServerInv
  <2>2. \A c \in Clients : since[c] <= lastId + 1
    BY <1>3, <2>1
  <2>. QED  BY <1>1, <1>2, <2>2 DEF IInv, ServerInv
<1>11. EventsInv'
  <2>1. Waiting' = Waiting \cup {e}
    BY <1>1, <1>7 DEF Waiting
  <2>2. \A x \in Waiting : x.id <= lastId + 1
    BY <1>3, <1>9
  <2>3. \A c \in Clients : e.need[c] <= seen[c]
    <3>1. \A c \in Clients : seen[c] \in Nat
      BY <1>3, ClientTyped
    <3>. QED  BY <1>5, <3>1
  <2>4. e.id <= lastId + 1
    BY <1>3, <1>5
  <2>5. \A c \in connected : since[c] < e.id
    <3>1. \A c \in Clients : since[c] \in Nat /\ since[c] <= lastId
      BY <1>3, ClientTyped DEF IInv, ServerInv
    <3>2. connected \subseteq Clients
      BY <1>3 DEF TypeOK
    <3>. QED  BY <1>3, <1>5, <3>1, <3>2
  <2>6. \A x \in Waiting : \A c \in Clients : x.need[c] <= seen[c]
    BY DEF IInv, EventsInv
  <2>7. \A x \in Waiting' : x.id <= lastId' /\ \A c \in Clients : x.need[c] <= seen'[c]
    BY <1>1, <1>2, <2>1, <2>2, <2>3, <2>4, <2>6
  <2>8. \A c \in connected' :
          /\ \A x \in ToSet(emitted') : since'[c] < x.id
          /\ \A x \in ToSet(buffered') : c \notin x.excluded => since'[c] < x.id
    BY <1>1, <1>7, <2>5 DEF IInv, EventsInv
  <2>. QED  BY <2>7, <2>8 DEF EventsInv
<1>12. ASSUME NEW c \in Clients PROVE ClientInv(c)'
  <2>1. SameClient(c)
    BY <1>1 DEF SameClient, SameEvents
  <2>2. serverTick' \in Nat /\ serverTick <= serverTick' /\ lastId' \in Nat /\ lastId <= lastId'
    BY <1>1, <1>2, <1>3
  <2>. QED  BY <1>3, <2>1, <2>2, ClientKept DEF IInv
<1>13. ASSUME NEW kind, OrderInv(kind)
       PROVE  /\ OrderInv(kind)'
              /\ \A id \in Everyone : \A x \in Past(id) : x.id \in Nat /\ x.id <= lastId
              /\ \A S : /\ \A x \in S : x.id \in Nat /\ x.id <= lastId
                        /\ Ahead(kind, S, ToSet(emitted))
                        => Ahead(kind, S, ToSet(emitted'))
  <2>1. \A id \in Everyone : \A x \in Past(id) : x.id \in Nat /\ x.id <= lastId
    BY <1>3, <1>13, TriggeredTyped DEF OrderInv
  <2>2. ASSUME NEW S, \A x \in S : x.id \in Nat /\ x.id <= lastId, Ahead(kind, S, ToSet(emitted))
        PROVE  Ahead(kind, S, ToSet(emitted'))
    <3>1. \A x \in S : Before(kind, x, e)
      BY <1>3, <1>5, <2>2 DEF Before
    <3>. QED  BY <1>7, <2>2, <3>1 DEF Ahead
  <2>3. InOrder(kind, emitted')
    <3>1. Ahead(kind, ToSet(emitted), {e})
      BY <1>3, <1>5, <1>9 DEF Ahead, Before, Waiting
    <3>2. InOrder(kind, emitted)
      BY <1>13 DEF OrderInv
    <3>. QED  BY <1>2, <1>5, <1>6, <3>1, <3>2, AppendOrder
  <2>4. Ahead(kind, ToSet(buffered), ToSet(emitted'))
    <3>1. Ahead(kind, ToSet(buffered), ToSet(emitted))
      BY <1>13 DEF OrderInv
    <3>2. \A x \in ToSet(buffered) : x.id \in Nat /\ x.id <= lastId
      BY <1>9 DEF Waiting
    <3>. QED  BY <2>2, <3>1, <3>2
  <2>5. Ahead(kind, Past(Server), ToSet(emitted'))
    <3>1. Ahead(kind, Past(Server), ToSet(emitted)) /\ Server \in Everyone
      BY <1>13 DEF OrderInv, Everyone
    <3>. QED  BY <2>1, <2>2, <3>1
  <2>6. OrderInv(kind)'
    <3>1. \A id \in Everyone : \A x \in ToSet(triggered[id]) : x[2] <= lastId + 1
      <4>1. \A id \in Everyone : \A x \in ToSet(triggered[id]) : x[2] \in Nat /\ x[2] <= lastId
        BY <1>3, <1>13, TriggeredTyped DEF OrderInv
      <4>. QED  BY <1>3, <4>1
    <3>2. Past(Server)' = Past(Server)
      BY <1>1 DEF Past
    <3>. QED  BY <1>1, <1>2, <1>13, <2>3, <2>4, <2>5, <3>1, <3>2 DEF OrderInv
  <2>. QED  BY <2>1, <2>2, <2>6
<1>14. LocalInv'
  BY <1>1, <1>13 DEF IInv, LocalInv
<1>15. ASSUME NEW kind, channel = kind PROVE OrderedInv(kind)'
  <2>0. OrderedInv(kind) /\ OrderInv(kind)
    BY <1>15 DEF IInv, OrderedInv
  <2>1. ASSUME NEW c \in Clients PROVE WayInv(kind, c)' /\ (c \in online => StampsInv(kind, c)')
    <3>1. WayInv(kind, c) /\ (c \in online => StampsInv(kind, c)) /\ c \in Everyone
      BY <2>0 DEF OrderedInv, Everyone
    <3>2. /\ Kept(c)' = Kept(c) /\ OnTheirWay(c)' = OnTheirWay(c) /\ Past(c)' = Past(c)
          /\ Handled(c)' = Handled(c) /\ Current(c)' = Current(c)
      BY <1>1 DEF Kept, OnTheirWay, Past, Handled, Current
    <3>3. Traced(ToSet(Kept(c)))' = Traced(ToSet(Kept(c)))
      BY <3>2 DEF Traced, Trace, Lane
    <3>4. \A x \in Handled(c) : x.id \in Nat /\ x.id <= lastId
      <4>1. MessagesInv(c)
        BY DEF IInv, ClientInv
      <4>2. \A x \in OnTheirWay(c) : x.id \in Nat /\ x.id <= lastId
        BY <1>3, <4>1, ClientTyped, MessageTyped DEF MessagesInv
      <4>. QED  BY <1>13, <2>0, <3>1, <4>2 DEF Handled
    <3>5. Ahead(kind, Handled(c), ToSet(emitted'))
      BY <1>13, <2>0, <3>1, <3>4 DEF WayInv
    <3>6. WayInv(kind, c)'
      BY <1>1, <3>1, <3>2, <3>3, <3>5 DEF WayInv
    <3>. QED  BY <3>1, <3>2, <3>6 DEF StampsInv
  <2>2. online \subseteq Clients
    BY <1>3 DEF TypeOK
  <2>. QED  BY <1>1, <1>13, <2>0, <2>1, <2>2 DEF OrderedInv
<1>. QED  BY <1>1, <1>8, <1>10, <1>11, <1>12, <1>14, <1>15 DEF IInv

-----------------------------------------------------------------------------
(* Connections.                                                            *)

\* A client that starts to be replicated has no update tick, or that of
\* another; what is left of the states to reuse is not new.
LEMMA StartsReplicationHas ==
  ASSUME IInv, NEW c \in Clients, c \notin replicated, StartsReplication(c)
  PROVE  /\ replicated' = replicated \cup {c}
         /\ updateTick' \in [Clients -> Ticks]
         /\ \A d \in Clients : d # c => updateTick'[d] = updateTick[d]
         /\ updateTick[c] = 0 /\ 0 <= updateTick'[c] /\ updateTick'[c] <= serverTick
         /\ spare' \in Seq(Ticks) /\ ToSet(spare') \subseteq ToSet(spare)
         /\ inherited' = inherited \/ inherited' = inherited \cup {c}
         /\ c \notin inherited' => updateTick'[c] = 0
<1>1. /\ replicated' = replicated \cup {c}
      /\ updateTick' = [updateTick EXCEPT ![c] = ReusedTick]
      /\ spare' = IF spare = <<>> THEN spare ELSE Front(spare)
      /\ inherited' = IF ReusedTick = 0 THEN inherited ELSE inherited \cup {c}
  BY DEF StartsReplication
<1>2. TypeOK /\ serverTick \in Nat
  BY ServerTyped DEF IInv
<1>3. updateTick \in [Clients -> Ticks] /\ spare \in Seq(Ticks)
  BY <1>2 DEF TypeOK
<1>4. ReusedTick \in Ticks /\ ReusedTick \in Nat /\ ReusedTick <= serverTick
  <2>1. CASE spare = <<>>
    <3>1. ReusedTick = 0
      BY <2>1 DEF ReusedTick
    <3>. QED  BY <1>2, <3>1, Bounds
  <2>2. CASE spare # <<>>
    <3>1. ReusedTick = Last(spare) /\ Last(spare) \in Ticks /\ Last(spare) \in ToSet(spare)
      BY <1>3, <2>2, FrontHas DEF ReusedTick
    <3>. QED  BY <3>1, Bounds DEF IInv, ServerInv
  <2>. QED  BY <2>1, <2>2
<1>5. spare' \in Seq(Ticks) /\ ToSet(spare') \subseteq ToSet(spare)
  <2>1. CASE spare = <<>>
    BY <1>1, <1>3, <2>1
  <2>2. CASE spare # <<>>
    BY <1>1, <1>3, <2>2, FrontHas
  <2>. QED  BY <2>1, <2>2
<1>6. /\ updateTick' \in [Clients -> Ticks] /\ updateTick'[c] = ReusedTick
      /\ \A d \in Clients : d # c => updateTick'[d] = updateTick[d]
  BY <1>1, <1>3, <1>4
<1>7. updateTick[c] = 0
  BY DEF IInv, ServerInv
<1>8. 0 <= updateTick'[c] /\ updateTick'[c] <= serverTick
  BY <1>4, <1>6
<1>. QED  BY <1>1, <1>5, <1>6, <1>7, <1>8

\* Excluding a client from the buffered events leaves the events the same.
LEMMA ExcludeClientHas ==
  ASSUME TypeOK, NEW c \in Clients
  PROVE  /\ ExcludeClient(c) \in Seq(BufferedEvents)
         /\ \A y \in ToSet(ExcludeClient(c)) : \E x \in ToSet(buffered) :
              /\ y.id = x.id /\ y.independent = x.independent /\ y.need = x.need
              /\ y.excluded = x.excluded \cup {c}
         /\ \A kind : InOrder(kind, buffered) => InOrder(kind, ExcludeClient(c))
<1>. DEFINE t == ExcludeClient(c)
<1>1. buffered \in Seq(BufferedEvents)
  BY DEF TypeOK
<1>2. t = [i \in DOMAIN buffered |-> [buffered[i] EXCEPT !.excluded = @ \cup {c}]]
  BY DEF ExcludeClient
<1>3. DOMAIN buffered = 1..Len(buffered) /\ \A i \in DOMAIN buffered : buffered[i] \in BufferedEvents
  BY <1>1
<1>4. t = [i \in DOMAIN buffered |-> t[i]]
  BY <1>2
<1>5. \A i \in DOMAIN buffered : t[i] = [buffered[i] EXCEPT !.excluded = @ \cup {c}]
  BY <1>2
<1>. HIDE DEF t
<1>6. ASSUME NEW i \in DOMAIN buffered
      PROVE  /\ t[i] \in BufferedEvents
             /\ t[i].id = buffered[i].id /\ t[i].independent = buffered[i].independent
             /\ t[i].need = buffered[i].need
             /\ t[i].excluded = buffered[i].excluded \cup {c}
  <2>. DEFINE b == buffered[i]
              y == t[i]
  <2>1. b \in BufferedEvents /\ y = [b EXCEPT !.excluded = @ \cup {c}]
    BY <1>3, <1>5
  <2>. HIDE DEF b, y
  <2>2. /\ y \in BufferedEvents
        /\ y.id = b.id /\ y.independent = b.independent /\ y.need = b.need
        /\ y.excluded = b.excluded \cup {c}
    BY <2>1 DEF BufferedEvents
  <2>. QED  BY <2>2 DEF b, y
<1>7. /\ t \in Seq(BufferedEvents) /\ Len(t) = Len(buffered)
      /\ \A y \in ToSet(t) :
           \E i \in 1..Len(buffered) : buffered[i] \in ToSet(buffered) /\ y = t[i]
  <2>1. MadeFrom(t, buffered, BufferedEvents)
    BY <1>4, <1>6 DEF MadeFrom
  <2>. QED  BY <1>1, <2>1, Mapped
<1>8. \A y \in ToSet(t) : \E x \in ToSet(buffered) :
         /\ y.id = x.id /\ y.independent = x.independent /\ y.need = x.need
         /\ y.excluded = x.excluded \cup {c}
  BY <1>3, <1>6, <1>7
<1>9. \A kind : InOrder(kind, buffered) => InOrder(kind, t)
  <2>1. Renders(t, buffered)
    BY <1>3, <1>6, <1>7 DEF Renders
  <2>. QED  BY <2>1, RenderedOrder
<1>. QED  BY <1>7, <1>8, <1>9 DEF t

\* A client connects.  Nothing is on its way to it but what its queue holds of
\* earlier connections, and none of the events that were emitted before will be.
LEMMA ConnectStep ==
  ASSUME IInv, NEW c \in Clients, NEW start \in BOOLEAN, Connect(c, start)
  PROVE  IInv'
<1>1. UNCHANGED <<channel, serverTick, seen, emitted, lastId, synced, updates, messages,
                  lastStatus, clientTick, queue, triggered>>
  BY DEF Connect
<1>2. /\ connects < MaxConnects /\ connects' = connects + 1
      /\ c \notin connected /\ emitted = <<>>
      /\ connected' = connected \cup {c} /\ online' = online \cup {c}
      /\ buffered' = ExcludeClient(c)
      /\ since' = [since EXCEPT ![c] = lastId]
      /\ joined' = IF lastStatus[c] = "Connected" THEN joined ELSE [joined EXCEPT ![c] = lastId]
  BY DEF Connect
<1>3. TypeOK /\ serverTick \in Nat /\ lastId \in Nat
  BY ServerTyped DEF IInv
<1>4. c \notin online /\ c \notin replicated /\ c \notin synced
  BY <1>2, <1>3 DEF TypeOK
<1>5. /\ replicated \subseteq replicated' /\ replicated' \subseteq replicated \cup {c}
      /\ updateTick' \in [Clients -> Ticks]
      /\ \A d \in Clients : d # c => updateTick'[d] = updateTick[d]
      /\ updateTick[c] = 0 /\ 0 <= updateTick'[c] /\ updateTick'[c] <= serverTick
      /\ spare' \in Seq(Ticks) /\ ToSet(spare') \subseteq ToSet(spare)
      /\ inherited' = inherited \/ inherited' = inherited \cup {c}
      /\ c \notin inherited' => updateTick'[c] = 0
      /\ c \in replicated' \/ updateTick'[c] = 0
  <2>1. CASE start
    <3>1. StartsReplication(c)
      BY <2>1 DEF Connect
    <3>. QED  BY <1>4, <3>1, StartsReplicationHas
  <2>2. CASE ~start
    <3>1. UNCHANGED <<replicated, updateTick, spare, inherited>>
      BY <2>2 DEF Connect
    <3>2. updateTick[c] = 0
      BY <1>4 DEF IInv, ServerInv
    <3>3. updateTick \in [Clients -> Ticks] /\ spare \in Seq(Ticks)
      BY <1>3 DEF TypeOK
    <3>. QED  BY <1>3, <3>1, <3>2, <3>3
  <2>. QED  BY <2>1, <2>2
<1>6. /\ buffered' \in Seq(BufferedEvents)
      /\ \A y \in ToSet(buffered') : \E x \in ToSet(buffered) :
           /\ y.id = x.id /\ y.independent = x.independent /\ y.need = x.need
           /\ y.excluded = x.excluded \cup {c}
      /\ \A kind : InOrder(kind, buffered) => InOrder(kind, buffered')
  BY <1>2, <1>3, ExcludeClientHas
<1>7. /\ joined' \in [Clients -> 0..MaxEvents]
      /\ joined'[c] = IF lastStatus[c] = "Connected" THEN joined[c] ELSE lastId
      /\ \A d \in Clients : d # c => joined'[d] = joined[d]
  <2>1. joined \in [Clients -> 0..MaxEvents] /\ lastId \in 0..MaxEvents
    BY <1>3 DEF TypeOK
  <2>. QED  BY <1>2, <2>1
<1>8. /\ since' \in [Clients -> 0..MaxEvents] /\ since'[c] = lastId
      /\ \A d \in Clients : d # c => since'[d] = since[d]
  <2>1. since \in [Clients -> 0..MaxEvents] /\ lastId \in 0..MaxEvents
    BY <1>3 DEF TypeOK
  <2>. QED  BY <1>2, <2>1
<1>9. ToSet(emitted) = {} /\ ToSet(emitted') = {}
  BY <1>1, <1>2, EmptyHas
<1>10. TypeOK'
  <2>1. connects' \in 0..MaxConnects
    BY <1>2, <1>3, BoundsAssumption DEF TypeOK
  <2>2. inherited' \subseteq Clients
    BY <1>3, <1>5 DEF TypeOK
  <2>3. /\ connected' \subseteq Clients /\ replicated' \subseteq connected'
        /\ synced' \subseteq replicated' /\ online' \subseteq connected'
    BY <1>1, <1>2, <1>3, <1>5 DEF TypeOK
  <2>. QED  BY <1>1, <1>3, <1>5, <1>6, <1>7, <1>8, <2>1, <2>2, <2>3 DEF TypeOK
<1>11. ServerInv'
  <2>1. ServerInv
    BY DEF IInv
  <2>2. \A t \in ToSet(spare') : t <= serverTick
    BY <1>5, <2>1 DEF ServerInv
  <2>3. ASSUME NEW d \in Clients
        PROVE  /\ updateTick'[d] <= serverTick
               /\ d \notin replicated' => updateTick'[d] = 0
               /\ d \in synced => seen[d] <= updateTick'[d] \/ seen[d] = serverTick + 1
               /\ joined'[d] <= since'[d] /\ since'[d] <= lastId
    <3>1. CASE d = c
      <4>1. joined[c] <= lastId
        <5>1. joined[c] <= since[c] /\ since[c] <= lastId /\ joined[c] \in Nat /\ since[c] \in Nat
          BY <1>3, <2>1, ClientTyped DEF ServerInv
        <5>. QED  BY <1>3, <5>1
      <4>2. joined'[c] <= since'[c] /\ since'[c] <= lastId
        BY <1>3, <1>7, <1>8, <4>1
      <4>. QED  BY <1>4, <1>5, <3>1, <4>2
    <3>2. CASE d # c
      BY <1>5, <1>7, <1>8, <2>1, <3>2 DEF ServerInv
    <3>. QED  BY <3>1, <3>2
  <2>. QED  BY <1>1, <2>1, <2>2, <2>3 DEF ServerInv
<1>12. EventsInv'
  <2>1. EventsInv
    BY DEF IInv
  <2>2. ASSUME NEW y \in ToSet(buffered')
        PROVE  /\ y.id <= lastId /\ \A d \in Clients : y.need[d] <= seen[d]
               /\ \A d \in connected' : d \notin y.excluded => since'[d] < y.id
    <3>1. PICK x \in ToSet(buffered) :
            /\ y.id = x.id /\ y.need = x.need /\ y.excluded = x.excluded \cup {c}
      BY <1>6
    <3>2. x \in Waiting
      BY DEF Waiting
    <3>3. y.id <= lastId /\ \A d \in Clients : y.need[d] <= seen[d]
      BY <2>1, <3>1, <3>2 DEF EventsInv
    <3>4. \A d \in connected : d \notin x.excluded => since[d] < x.id
      BY <2>1 DEF EventsInv
    <3>5. connected \subseteq Clients
      BY <1>3 DEF TypeOK
    <3>. QED  BY <1>2, <1>8, <3>1, <3>3, <3>4, <3>5
  <2>. QED  BY <1>1, <1>9, <2>2 DEF EventsInv, Waiting
<1>13. /\ messages[c] = <<>> /\ updates[c] = <<>> /\ ToSet(messages[c]) = {}
       /\ Kept(c)' = Kept(c) /\ OnTheirWay(c) = ToSet(Kept(c)) /\ OnTheirWay(c)' = OnTheirWay(c)
  <2>1. messages[c] = <<>> /\ updates[c] = <<>>
    BY <1>4 DEF IInv, ClientInv, OfflineInv
  <2>2. ToSet(messages[c]) = {}
    BY <2>1, EmptyHas
  <2>. QED  BY <1>1, <2>1, <2>2 DEF OnTheirWay, Kept
<1>14. Current(c)' = {}
  <2>1. \A m \in OnTheirWay(c) : m.since \in Nat /\ m.id \in Nat /\ m.since < m.id /\ m.id <= lastId
    BY <1>3, ClientTyped, MessageTyped DEF IInv, ClientInv, MessagesInv
  <2>2. \A m \in OnTheirWay(c) : m.since # since'[c]
    BY <1>3, <1>8, <2>1
  <2>. QED  BY <1>13, <2>2 DEF Current
<1>15. ASSUME NEW d \in Clients PROVE ClientInv(d)'
  <2>1. CASE d = c
    <3>1. UpdatesInv(c)'
      BY <1>1 DEF IInv, ClientInv, UpdatesInv
    <3>2. MessagesInv(c)'
      <4>1. MessagesInv(c)
        BY DEF IInv, ClientInv
      <4>2. \A m \in ToSet(Kept(c)) : joined'[c] < m.id
        <5>1. lastStatus[c] # "Connected" => ToSet(Kept(c)) = {}
          BY EmptyHas DEF Kept
        <5>. QED  BY <1>7, <4>1, <5>1 DEF MessagesInv
      <4>. QED  BY <1>1, <1>13, <4>1, <4>2 DEF MessagesInv
    <3>3. StaleInv(c)'
      <4>1. Len(<<>>) = 0 /\ 1..0 = {}
        OBVIOUS
      <4>2. \A y \in ToSet(Kept(c))' : y.since # since'[c]
        BY <1>13, <1>14 DEF Current
      <4>. QED  BY <1>1, <1>13, <4>1, <4>2 DEF StaleInv
    <3>4. StampedInv(c)'
      BY <1>14 DEF StampedInv
    <3>5. ReachesInv(c)'
      <4>1. clientTick[c] \in Nat
        BY <1>3, ClientTyped
      <4>2. c \notin inherited' => updateTick'[c] <= clientTick'[c]
        BY <1>1, <1>5, <4>1
      <4>. QED  BY <1>14, <4>2 DEF ReachesInv, Reaches
    <3>6. c \in online'
      BY <1>2
    <3>. QED  BY <2>1, <3>1, <3>2, <3>3, <3>4, <3>5, <3>6 DEF ClientInv
  <2>2. CASE d # c
    <3>1. SameClient(d)
      BY <1>1, <1>2, <1>5, <1>7, <1>8, <2>2 DEF SameClient, SameEvents
    <3>2. serverTick' = serverTick /\ lastId' = lastId /\ ClientInv(d)
      BY <1>1 DEF IInv
    <3>. QED  BY <1>3, <3>1, <3>2, ClientKept
  <2>. QED  BY <2>1, <2>2
<1>16. ASSUME NEW kind, OrderInv(kind) PROVE OrderInv(kind)'
  <2>1. InOrder(kind, emitted') /\ InOrder(kind, buffered')
    BY <1>1, <1>6, <1>16 DEF OrderInv
  <2>2. /\ Ahead(kind, ToSet(buffered'), ToSet(emitted'))
        /\ Ahead(kind, Past(Server)', ToSet(emitted'))
    BY <1>9 DEF Ahead
  <2>. QED  BY <1>1, <1>16, <2>1, <2>2 DEF OrderInv
<1>17. LocalInv'
  BY <1>1, <1>16 DEF IInv, LocalInv
<1>18. ASSUME NEW kind, channel = kind PROVE OrderedInv(kind)'
  <2>0. OrderedInv(kind)
    BY <1>18 DEF IInv
  <2>1. OrderInv(kind)'
    BY <1>16, <2>0 DEF OrderedInv
  <2>2. ASSUME NEW d \in Clients
        PROVE  WayInv(kind, d)' /\ (d # c /\ d \in online => StampsInv(kind, d)')
    <3>1. WayInv(kind, d) /\ (d \in online => StampsInv(kind, d))
      BY <2>0 DEF OrderedInv
    <3>2. SameWay(d)
      BY <1>1 DEF SameWay
    <3>3. Among(ToSet(emitted'), ToSet(emitted))
      BY <1>9 DEF Among
    <3>4. Among(Unexcluded(d)', Unexcluded(d))
      BY <1>6 DEF Among, Unexcluded
    <3>5. WayInv(kind, d)' /\ (StampsInv(kind, d) /\ since'[d] = since[d] => StampsInv(kind, d)')
      BY <3>1, <3>2, <3>3, <3>4, WayKept
    <3>. QED  BY <1>8, <3>1, <3>5
  <2>3. StampsInv(kind, c)'
    BY <1>14 DEF StampsInv
  <2>4. \A id \in Everyone : LanesInOrder(kind, triggered'[id])
    BY <1>1, <2>0 DEF OrderedInv
  <2>5. \A d \in online' : d \in Clients /\ (d = c \/ d \in online)
    BY <1>2, <1>10 DEF TypeOK
  <2>. QED  BY <2>1, <2>2, <2>3, <2>4, <2>5 DEF OrderedInv
<1>. QED  BY <1>1, <1>10, <1>11, <1>12, <1>15, <1>17, <1>18 DEF IInv

\* A connected client starts to be replicated: its update tick may be that of
\* another, and does not fall.
LEMMA StartReplicationStep ==
  ASSUME IInv, NEW c \in Clients, StartReplication(c)
  PROVE  IInv'
<1>1. UNCHANGED <<channel, serverTick, seen, emitted, lastId, buffered, connected, synced,
                  updates, messages, online, lastStatus, clientTick, queue, triggered, connects,
                  since, joined>>
  BY DEF StartReplication, clientVars
<1>2. c \in connected /\ c \notin replicated /\ StartsReplication(c)
  BY DEF StartReplication
<1>3. TypeOK /\ serverTick \in Nat /\ lastId \in Nat
  BY ServerTyped DEF IInv
<1>4. /\ replicated' = replicated \cup {c}
      /\ updateTick' \in [Clients -> Ticks]
      /\ \A d \in Clients : d # c => updateTick'[d] = updateTick[d]
      /\ updateTick[c] = 0 /\ 0 <= updateTick'[c] /\ updateTick'[c] <= serverTick
      /\ spare' \in Seq(Ticks) /\ ToSet(spare') \subseteq ToSet(spare)
      /\ inherited' = inherited \/ inherited' = inherited \cup {c}
      /\ c \notin inherited' => updateTick'[c] = 0
  BY <1>2, StartsReplicationHas
<1>5. TypeOK'
  <2>1. inherited' \subseteq Clients
    BY <1>3, <1>4 DEF TypeOK
  <2>2. replicated' \subseteq connected' /\ synced' \subseteq replicated'
    BY <1>1, <1>2, <1>3, <1>4 DEF TypeOK
  <2>. QED  BY <1>1, <1>3, <1>4, <2>1, <2>2 DEF TypeOK
<1>6. ServerInv'
  <2>1. ServerInv /\ c \notin synced
    BY <1>2, <1>3 DEF IInv, TypeOK
  <2>2. \A t \in ToSet(spare') : t <= serverTick
    BY <1>4, <2>1 DEF ServerInv
  <2>3. ASSUME NEW d \in Clients
        PROVE  /\ updateTick'[d] <= serverTick
               /\ d \notin replicated' => updateTick'[d] = 0
               /\ d \in synced => seen[d] <= updateTick'[d] \/ seen[d] = serverTick + 1
    <3>1. CASE d = c
      BY <1>4, <2>1, <3>1
    <3>2. CASE d # c
      BY <1>4, <2>1, <3>2 DEF ServerInv
    <3>. QED  BY <3>1, <3>2
  <2>. QED  BY <1>1, <2>1, <2>2, <2>3 DEF ServerInv
<1>7. EventsInv'
  BY <1>1 DEF IInv, EventsInv, Waiting
<1>8. ASSUME NEW d \in Clients PROVE ClientInv(d)'
  <2>0. ClientInv(d) /\ serverTick' = serverTick /\ lastId' = lastId
    BY <1>1 DEF IInv
  <2>1. CASE d = c
    <3>1. SameEvents(c)
      BY <1>1 DEF SameEvents
    <3>2. /\ MessagesInv(c)' /\ UpdatesInv(c)' /\ StaleInv(c)'
          /\ Current(c)' = Current(c) /\ (OfflineInv(c)' <=> OfflineInv(c))
      BY <1>3, <2>0, <2>1, <3>1, EventsKept
    <3>3. ASSUME c \in online PROVE StampedInv(c)'
      <4>1. StampedInv(c)
        BY <2>0, <2>1, <3>3 DEF ClientInv
      <4>2. updateTick'[c] \in Nat /\ \A m \in Current(c) : m.tick \in Nat
        BY <1>3, <1>4, Bounds, ClientTyped, MessageTyped DEF Current
      <4>3. \A m \in Current(c) : m.tick <= updateTick'[c]
        BY <1>4, <4>1, <4>2 DEF StampedInv
      <4>. QED  BY <3>2, <4>3 DEF StampedInv
    <3>4. ASSUME c \in online PROVE ReachesInv(c)'
      <4>1. ReachesInv(c)
        BY <2>0, <2>1, <3>4 DEF ClientInv
      <4>2. c \notin inherited' => c \notin inherited /\ updateTick'[c] = updateTick[c]
        BY <1>4
      <4>. QED  BY <1>1, <3>2, <4>1, <4>2 DEF ReachesInv, Reaches
    <3>. QED  BY <1>1, <2>0, <2>1, <3>2, <3>3, <3>4 DEF ClientInv
  <2>2. CASE d # c
    <3>1. SameClient(d)
      BY <1>1, <1>4, <2>2 DEF SameClient, SameEvents
    <3>. QED  BY <1>3, <2>0, <3>1, ClientKept
  <2>. QED  BY <2>1, <2>2
<1>9. LocalInv' /\ \A kind : channel' = kind => OrderedInv(kind)'
  BY <1>1, OrderKept
<1>. QED  BY <1>5, <1>6, <1>7, <1>8, <1>9 DEF IInv

\* What a client has, or has on its way, only becomes less.
LEMMA EventsShrunk ==
  ASSUME NEW c \in Clients, MessagesInv(c),
         ToSet(messages'[c]) \subseteq ToSet(messages[c]),
         ToSet(Kept(c))' \subseteq ToSet(Kept(c)),
         since'[c] = since[c], joined'[c] = joined[c],
         serverTick' = serverTick, lastId' = lastId
  PROVE  /\ MessagesInv(c)'
         /\ Current(c)' \subseteq Current(c) /\ Stale(c)' \subseteq Stale(c)
<1>1. OnTheirWay(c)' \subseteq OnTheirWay(c)
  BY DEF OnTheirWay
<1>. QED  BY <1>1 DEF MessagesInv, Current, Stale

\* And stays in order.
LEMMA WayShrunk ==
  ASSUME NEW kind, NEW c \in Clients, WayInv(kind, c),
         InOrder(kind, Kept(c)'), InOrder(kind, messages'[c]),
         ToSet(messages'[c]) \subseteq ToSet(messages[c]),
         ToSet(Kept(c))' \subseteq ToSet(Kept(c)),
         UNCHANGED <<emitted, buffered, triggered>>
  PROVE  WayInv(kind, c)'
<1>1. Past(c)' = Past(c) /\ Handled(c)' \subseteq Handled(c)
  BY DEF Past, Handled, OnTheirWay
<1>2. Traced(ToSet(Kept(c)))' \subseteq Traced(ToSet(Kept(c)))
  BY DEF Traced, Trace, Lane
<1>. QED  BY <1>1, <1>2 DEF WayInv, Ahead, LanesAhead

\* All that is needed of a step that changes no events but those of one client, which
\* become less.
LEMMA OrderShrunk ==
  ASSUME IInv, NEW c \in Clients,
         UNCHANGED <<channel, emitted, buffered, triggered, lastId, since>>,
         \A d \in Clients : d # c => SameWay(d),
         online' \subseteq online,
         ToSet(messages'[c]) \subseteq ToSet(messages[c]),
         ToSet(Kept(c))' \subseteq ToSet(Kept(c)),
         \A kind : InOrder(kind, messages[c]) => InOrder(kind, messages'[c]),
         \A kind : InOrder(kind, Kept(c)) => InOrder(kind, Kept(c)')
  PROVE  LocalInv' /\ \A kind : channel' = kind => OrderedInv(kind)'
<1>1. LocalInv'
  BY DEF IInv, LocalInv, OrderInv, Past
<1>2. ASSUME NEW kind, channel = kind PROVE OrderedInv(kind)'
  <2>0. OrderedInv(kind)
    BY <1>2 DEF IInv
  <2>1. OrderInv(kind)'
    BY <2>0 DEF OrderedInv, OrderInv, Past
  <2>2. ASSUME NEW d \in Clients
        PROVE  WayInv(kind, d)' /\ (StampsInv(kind, d) => StampsInv(kind, d)')
    <3>1. WayInv(kind, d)
      BY <2>0 DEF OrderedInv
    <3>2. CASE d = c
      <4>1. InOrder(kind, messages'[c]) /\ InOrder(kind, Kept(c)')
        BY <3>1, <3>2 DEF WayInv
      <4>2. WayInv(kind, c)'
        BY <3>1, <3>2, <4>1, WayShrunk
      <4>3. Current(c)' \subseteq Current(c)
        BY DEF Current, OnTheirWay
      <4>. QED  BY <3>2, <4>2, <4>3 DEF StampsInv
    <3>3. CASE d # c
      <4>1. SameWay(d) /\ since'[d] = since[d]
        BY <3>3
      <4>2. Among(ToSet(emitted'), ToSet(emitted)) /\ Among(Unexcluded(d)', Unexcluded(d))
        BY DEF Among, Unexcluded
      <4>. QED  BY <3>1, <4>1, <4>2, WayKept
    <3>. QED  BY <3>2, <3>3
  <2>3. online \subseteq Clients
    BY DEF IInv, TypeOK
  <2>. QED  BY <2>0, <2>1, <2>2, <2>3 DEF OrderedInv
<1>. QED  BY <1>1, <1>2

\* A client loses its connection, and what was on its way; its queue stays.
LEMMA LoseConnectionStep ==
  ASSUME IInv, NEW c \in Clients, LoseConnection(c)
  PROVE  IInv'
<1>1. UNCHANGED <<channel, serverTick, seen, emitted, lastId, buffered, connected, replicated,
                  synced, updateTick, spare, lastStatus, clientTick, queue, triggered, connects,
                  since, joined, inherited>>
  BY DEF LoseConnection, serverVars, history
<1>2. /\ c \in online /\ online' = online \ {c}
      /\ updates' = [updates EXCEPT ![c] = <<>>]
      /\ messages' = [messages EXCEPT ![c] = <<>>]
  BY DEF LoseConnection
<1>3. TypeOK /\ serverTick \in Nat /\ lastId \in Nat
  BY ServerTyped DEF IInv
<1>4. /\ updates' \in [Clients -> Seq(Ticks)] /\ updates'[c] = <<>>
      /\ \A d \in Clients : d # c => updates'[d] = updates[d]
  <2>1. updates \in [Clients -> Seq(Ticks)] /\ <<>> \in Seq(Ticks)
    BY <1>3 DEF TypeOK
  <2>. QED  BY <1>2, <2>1
<1>5. /\ messages' \in [Clients -> Seq(Messages)] /\ messages'[c] = <<>>
      /\ \A d \in Clients : d # c => messages'[d] = messages[d]
  <2>1. messages \in [Clients -> Seq(Messages)] /\ <<>> \in Seq(Messages)
    BY <1>3 DEF TypeOK
  <2>. QED  BY <1>2, <2>1
<1>6. ToSet(messages'[c]) = {} /\ \A kind : InOrder(kind, messages'[c])
  BY <1>5, EmptyHas, EmptyOrder
<1>7. TypeOK'
  BY <1>1, <1>2, <1>3, <1>4, <1>5 DEF TypeOK
<1>8. ServerInv' /\ EventsInv'
  BY <1>1 DEF IInv, ServerInv, EventsInv, Waiting
<1>9. \A d \in Clients : Kept(d)' = Kept(d)
  BY <1>1 DEF Kept
<1>10. ASSUME NEW d \in Clients PROVE ClientInv(d)'
  <2>0. ClientInv(d)
    BY DEF IInv
  <2>1. CASE d = c
    <3>1. Len(<<>>) = 0 /\ 1..0 = {}
      OBVIOUS
    <3>2. MessagesInv(c)' /\ Stale(c)' \subseteq Stale(c)
      BY <1>1, <1>6, <1>9, <2>0, <2>1, EventsShrunk DEF ClientInv
    <3>3. UpdatesInv(c)'
      BY <1>1, <1>4, <2>0, <2>1, <3>1 DEF ClientInv, UpdatesInv
    <3>4. StaleInv(c)'
      BY <1>1, <1>4, <1>9, <2>0, <2>1, <3>1, <3>2 DEF ClientInv, StaleInv
    <3>5. OfflineInv(c)' /\ c \notin online'
      BY <1>2, <1>4, <1>5 DEF OfflineInv
    <3>. QED  BY <2>1, <3>2, <3>3, <3>4, <3>5 DEF ClientInv
  <2>2. CASE d # c
    <3>1. SameClient(d)
      BY <1>1, <1>2, <1>4, <1>5, <2>2 DEF SameClient, SameEvents
    <3>2. serverTick' = serverTick /\ lastId' = lastId
      BY <1>1
    <3>. QED  BY <1>3, <2>0, <3>1, <3>2, ClientKept
  <2>. QED  BY <2>1, <2>2
<1>11. LocalInv' /\ \A kind : channel' = kind => OrderedInv(kind)'
  <2>1. \A d \in Clients : d # c => SameWay(d)
    BY <1>1, <1>5 DEF SameWay
  <2>2. \A kind : InOrder(kind, Kept(c)) => InOrder(kind, Kept(c)')
    BY <1>9
  <2>. QED  BY <1>1, <1>2, <1>6, <1>9, <2>1, <2>2, OrderShrunk
<1>. QED  BY <1>7, <1>8, <1>10, <1>11 DEF IInv

\* The server learns of it: its update tick is kept for another.
LEMMA DisconnectStep ==
  ASSUME IInv, NEW c \in Clients, Disconnect(c)
  PROVE  IInv'
<1>1. UNCHANGED <<channel, serverTick, seen, emitted, lastId, buffered, updates, messages,
                  online, lastStatus, clientTick, queue, triggered, connects, since, joined>>
  BY DEF Disconnect, clientVars
<1>2. /\ c \in connected /\ c \notin online
      /\ connected' = connected \ {c} /\ replicated' = replicated \ {c}
      /\ synced' = synced \ {c} /\ inherited' = inherited \ {c}
      /\ spare' = IF c \in replicated THEN Append(spare, updateTick[c]) ELSE spare
      /\ updateTick' = [updateTick EXCEPT ![c] = 0]
  BY DEF Disconnect, Removed
<1>3. TypeOK /\ serverTick \in Nat /\ lastId \in Nat
  BY ServerTyped DEF IInv
<1>4. updateTick \in [Clients -> Ticks] /\ 0 \in Ticks /\ spare \in Seq(Ticks)
  BY <1>3, Bounds DEF TypeOK
<1>5. /\ updateTick' \in [Clients -> Ticks] /\ updateTick'[c] = 0
      /\ \A d \in Clients : d # c => updateTick'[d] = updateTick[d]
  BY <1>2, <1>4
<1>6. spare' \in Seq(Ticks) /\ ToSet(spare') \subseteq ToSet(spare) \cup {updateTick[c]}
  <2>1. updateTick[c] \in Ticks
    BY <1>4
  <2>2. /\ Append(spare, updateTick[c]) \in Seq(Ticks)
        /\ ToSet(Append(spare, updateTick[c])) = ToSet(spare) \cup {updateTick[c]}
    BY <1>4, <2>1, AppendHas
  <2>. QED  BY <1>2, <1>4, <2>2
<1>7. TypeOK'
  <2>1. /\ connected' \subseteq Clients /\ replicated' \subseteq connected'
        /\ synced' \subseteq replicated' /\ online' \subseteq connected'
        /\ inherited' \subseteq Clients
    BY <1>1, <1>2, <1>3 DEF TypeOK
  <2>. QED  BY <1>1, <1>3, <1>5, <1>6, <2>1 DEF TypeOK
<1>8. ServerInv'
  <2>1. ServerInv
    BY DEF IInv
  <2>2. \A t \in ToSet(spare') : t <= serverTick
    BY <1>6, <2>1 DEF ServerInv
  <2>3. ASSUME NEW d \in Clients
        PROVE  /\ updateTick'[d] <= serverTick
               /\ d \notin replicated' => updateTick'[d] = 0
               /\ d \in synced' => seen[d] <= updateTick'[d] \/ seen[d] = serverTick + 1
    <3>1. CASE d = c
      BY <1>2, <1>3, <1>5, <3>1
    <3>2. CASE d # c
      BY <1>2, <1>5, <2>1, <3>2 DEF ServerInv
    <3>. QED  BY <3>1, <3>2
  <2>. QED  BY <1>1, <2>1, <2>2, <2>3 DEF ServerInv
<1>9. EventsInv'
  BY <1>1, <1>2 DEF IInv, EventsInv, Waiting
<1>10. ASSUME NEW d \in Clients PROVE ClientInv(d)'
  <2>0. ClientInv(d) /\ serverTick' = serverTick /\ lastId' = lastId
    BY <1>1 DEF IInv
  <2>1. CASE d = c
    <3>1. SameEvents(c)
      BY <1>1 DEF SameEvents
    <3>2. MessagesInv(c)' /\ UpdatesInv(c)' /\ StaleInv(c)' /\ (OfflineInv(c)' <=> OfflineInv(c))
      BY <1>3, <2>0, <2>1, <3>1, EventsKept
    <3>. QED  BY <1>1, <1>2, <2>0, <2>1, <3>2 DEF ClientInv
  <2>2. CASE d # c
    <3>1. SameClient(d)
      BY <1>1, <1>2, <1>5, <2>2 DEF SameClient, SameEvents
    <3>. QED  BY <1>3, <2>0, <3>1, ClientKept
  <2>. QED  BY <2>1, <2>2
<1>11. LocalInv' /\ \A kind : channel' = kind => OrderedInv(kind)'
  BY <1>1, OrderKept
<1>. QED  BY <1>7, <1>8, <1>9, <1>10, <1>11 DEF IInv

-----------------------------------------------------------------------------
(* The client.                                                             *)

\* A frame of a client finds another status than the last: it does not go on with its
\* queue, and starts from no tick if it is disconnected.
LEMMA NoticeStatusStep ==
  ASSUME IInv, NEW c \in Clients, NEW status \in Statuses, NoticeStatus(c, status)
  PROVE  IInv'
<1>1. UNCHANGED <<channel, serverTick, seen, emitted, lastId, buffered, connected, replicated,
                  synced, updateTick, spare, updates, messages, online, triggered, connects,
                  since, joined, inherited>>
  BY DEF NoticeStatus, serverVars, history
<1>2. /\ status # lastStatus[c]
      /\ status = "Connected" <=> c \in online
      /\ lastStatus' = [lastStatus EXCEPT ![c] = status]
      /\ queue' = IF status = "Connected" THEN [queue EXCEPT ![c] = <<>>] ELSE queue
      /\ clientTick' = IF status = "Disconnected" THEN [clientTick EXCEPT ![c] = 0]
                                                  ELSE clientTick
  BY DEF NoticeStatus, ResetQueue, ResetTick
<1>3. TypeOK /\ serverTick \in Nat /\ lastId \in Nat
  BY ServerTyped DEF IInv
<1>4. /\ lastStatus' \in [Clients -> Statuses] /\ lastStatus'[c] = status
      /\ \A d \in Clients : d # c => lastStatus'[d] = lastStatus[d]
  <2>1. lastStatus \in [Clients -> Statuses]
    BY <1>3 DEF TypeOK
  <2>. QED  BY <1>2, <2>1
<1>5. /\ queue' \in [Clients -> Seq(Messages)]
      /\ status = "Connected" => queue'[c] = <<>>
      /\ \A d \in Clients : d # c => queue'[d] = queue[d]
  <2>1. queue \in [Clients -> Seq(Messages)] /\ <<>> \in Seq(Messages)
    BY <1>3 DEF TypeOK
  <2>. QED  BY <1>2, <2>1
<1>6. /\ clientTick' \in [Clients -> Ticks]
      /\ clientTick'[c] = IF status = "Disconnected" THEN 0 ELSE clientTick[c]
      /\ \A d \in Clients : d # c => clientTick'[d] = clientTick[d]
  <2>1. clientTick \in [Clients -> Ticks] /\ 0 \in Ticks
    BY <1>3, Bounds DEF TypeOK
  <2>. QED  BY <1>2, <2>1
<1>7. TypeOK'
  BY <1>1, <1>3, <1>4, <1>5, <1>6 DEF TypeOK
<1>8. ServerInv' /\ EventsInv'
  BY <1>1 DEF IInv, ServerInv, EventsInv, Waiting
<1>9. Kept(c)' = <<>> /\ ToSet(Kept(c))' = {} /\ \A kind : InOrder(kind, Kept(c)')
  <2>1. Kept(c)' = <<>>
    BY <1>4, <1>5 DEF Kept
  <2>. QED  BY <2>1, EmptyHas, EmptyOrder
<1>10. ASSUME NEW d \in Clients PROVE ClientInv(d)'
  <2>0. ClientInv(d)
    BY DEF IInv
  <2>1. CASE d = c
    <3>1. /\ MessagesInv(c)'
          /\ Current(c)' \subseteq Current(c) /\ Stale(c)' \subseteq Stale(c)
      BY <1>1, <1>9, <2>0, <2>1, EventsShrunk DEF ClientInv
    <3>2. StaleInv(c)'
      BY <1>9 DEF StaleInv, Stale
    <3>3. CASE c \in online
      <4>1. clientTick'[c] = clientTick[c]
        BY <1>2, <1>6, <3>3
      <4>2. UpdatesInv(c)'
        BY <1>1, <2>0, <2>1, <4>1 DEF ClientInv, UpdatesInv
      <4>3. StampedInv(c) /\ ReachesInv(c) /\ c \in online'
        BY <1>1, <2>0, <2>1, <3>3 DEF ClientInv
      <4>4. StampedInv(c)' /\ ReachesInv(c)'
        BY <1>1, <3>1, <4>1, <4>3 DEF StampedInv, ReachesInv, Reaches
      <4>. QED  BY <2>1, <3>1, <3>2, <4>2, <4>3, <4>4 DEF ClientInv
    <3>4. CASE c \notin online
      <4>1. Len(<<>>) = 0 /\ 1..0 = {}
        OBVIOUS
      <4>2. OfflineInv(c)' /\ updates'[c] = <<>> /\ c \notin online'
        BY <1>1, <2>0, <2>1, <3>4 DEF ClientInv, OfflineInv
      <4>3. clientTick[c] <= serverTick
        BY <2>0, <2>1 DEF ClientInv, UpdatesInv
      <4>4. UpdatesInv(c)'
        BY <1>1, <1>3, <1>6, <4>1, <4>2, <4>3 DEF UpdatesInv
      <4>. QED  BY <2>1, <3>1, <3>2, <4>2, <4>4 DEF ClientInv
    <3>. QED  BY <3>3, <3>4
  <2>2. CASE d # c
    <3>1. SameClient(d)
      BY <1>1, <1>4, <1>5, <1>6, <2>2 DEF SameClient, SameEvents
    <3>2. serverTick' = serverTick /\ lastId' = lastId
      BY <1>1
    <3>. QED  BY <1>3, <2>0, <3>1, <3>2, ClientKept
  <2>. QED  BY <2>1, <2>2
<1>11. LocalInv' /\ \A kind : channel' = kind => OrderedInv(kind)'
  <2>1. \A d \in Clients : d # c => SameWay(d)
    BY <1>1, <1>4, <1>5 DEF SameWay
  <2>2. ToSet(messages'[c]) \subseteq ToSet(messages[c]) /\ ToSet(Kept(c))' \subseteq ToSet(Kept(c))
    BY <1>1, <1>9
  <2>3. \A kind : InOrder(kind, messages[c]) => InOrder(kind, messages'[c])
    BY <1>1
  <2>4. \A kind : InOrder(kind, Kept(c)) => InOrder(kind, Kept(c)')
    BY <1>9
  <2>. QED  BY <1>1, <2>1, <2>2, <2>3, <2>4, OrderShrunk
<1>. QED  BY <1>7, <1>8, <1>10, <1>11 DEF IInv

\* An unreliable channel loses an event.
LEMMA LoseStep ==
  ASSUME IInv, NEW c \in Clients, NEW i \in DOMAIN messages[c], Lose(c, i)
  PROVE  IInv'
<1>1. UNCHANGED <<channel, serverTick, seen, emitted, lastId, buffered, connected, replicated,
                  synced, updateTick, spare, updates, online, lastStatus, clientTick, queue,
                  triggered, connects, since, joined, inherited>>
  BY DEF Lose, serverVars, clientVars, history
<1>2. messages' = [messages EXCEPT ![c] = RemoveAt(@, i)]
  BY DEF Lose
<1>3. TypeOK
  BY DEF IInv
<1>4. messages \in [Clients -> Seq(Messages)] /\ messages[c] \in Seq(Messages)
  BY <1>3 DEF TypeOK
<1>5. i \in 1..Len(messages[c])
  BY <1>4
<1>6. /\ RemoveAt(messages[c], i) \in Seq(Messages)
      /\ ToSet(RemoveAt(messages[c], i)) \subseteq ToSet(messages[c])
      /\ \A kind : InOrder(kind, messages[c]) => InOrder(kind, RemoveAt(messages[c], i))
  BY <1>4, <1>5, RemovedAt
<1>7. /\ messages' \in [Clients -> Seq(Messages)]
      /\ messages'[c] = RemoveAt(messages[c], i)
      /\ \A d \in Clients : d # c => messages'[d] = messages[d]
  BY <1>2, <1>4, <1>6
<1>8. TypeOK'
  BY <1>1, <1>3, <1>7 DEF TypeOK
<1>9. ServerInv' /\ EventsInv'
  BY <1>1 DEF IInv, ServerInv, EventsInv, Waiting
<1>10. c \in online
  <2>1. Len(<<>>) = 0 /\ 1..0 = {}
    OBVIOUS
  <2>. QED  BY <1>5, <2>1 DEF IInv, ClientInv, OfflineInv
<1>11. \A d \in Clients : Kept(d)' = Kept(d)
  BY <1>1 DEF Kept
<1>12. ToSet(messages'[c]) \subseteq ToSet(messages[c])
  BY <1>6, <1>7
<1>13. ASSUME NEW d \in Clients PROVE ClientInv(d)'
  <2>1. ClientInv(d)
    BY DEF IInv
  <2>2. CASE d = c
    <3>1. /\ MessagesInv(c)'
          /\ Current(c)' \subseteq Current(c) /\ Stale(c)' \subseteq Stale(c)
      BY <1>1, <1>11, <1>12, <2>1, <2>2, EventsShrunk DEF ClientInv
    <3>2. UpdatesInv(c) /\ StaleInv(c) /\ StampedInv(c) /\ ReachesInv(c)
      BY <1>10, <2>1, <2>2 DEF ClientInv
    <3>3. UpdatesInv(c)' /\ StaleInv(c)'
      BY <1>1, <1>11, <3>1, <3>2 DEF UpdatesInv, StaleInv
    <3>4. StampedInv(c)' /\ ReachesInv(c)' /\ c \in online'
      BY <1>1, <1>10, <3>1, <3>2 DEF StampedInv, ReachesInv, Reaches
    <3>. QED  BY <2>2, <3>1, <3>3, <3>4 DEF ClientInv
  <2>3. CASE d # c
    <3>1. SameClient(d)
      BY <1>1, <1>7, <2>3 DEF SameClient, SameEvents
    <3>2. serverTick' = serverTick /\ lastId' = lastId /\ serverTick \in Nat /\ lastId \in Nat
      BY <1>1, <1>3, ServerTyped
    <3>. QED  BY <1>3, <2>1, <3>1, <3>2, ClientKept
  <2>. QED  BY <2>2, <2>3
<1>14. LocalInv' /\ \A kind : channel' = kind => OrderedInv(kind)'
  <2>1. \A d \in Clients : d # c => SameWay(d)
    BY <1>1, <1>7 DEF SameWay
  <2>2. \A kind : InOrder(kind, messages[c]) => InOrder(kind, messages'[c])
    BY <1>6, <1>7
  <2>3. \A kind : InOrder(kind, Kept(c)) => InOrder(kind, Kept(c)')
    BY <1>11
  <2>. QED  BY <1>1, <1>11, <1>12, <2>1, <2>2, <2>3, OrderShrunk
<1>. QED  BY <1>8, <1>9, <1>13, <1>14 DEF IInv

\* An update message takes the client to a later tick.  No event of another connection
\* waits for one after that.
LEMMA ApplyUpdateStep ==
  ASSUME IInv, NEW c \in Clients, ApplyUpdate(c)
  PROVE  IInv'
<1>1. UNCHANGED <<channel, serverTick, seen, emitted, lastId, buffered, connected, replicated,
                  synced, updateTick, spare, messages, online, lastStatus, queue, triggered,
                  connects, since, joined, inherited>>
  BY DEF ApplyUpdate, serverVars, history
<1>2. /\ c \in online /\ updates[c] # <<>>
      /\ clientTick' = [clientTick EXCEPT ![c] = Head(updates[c])]
      /\ updates' = [updates EXCEPT ![c] = Tail(@)]
  BY DEF ApplyUpdate, Receives
<1>3. TypeOK /\ serverTick \in Nat /\ lastId \in Nat
  BY ServerTyped DEF IInv
<1>. DEFINE u == updates[c]
            n == Len(u)
            v == Tail(u)
<1>4. u \in Seq(Ticks) /\ updates \in [Clients -> Seq(Ticks)] /\ clientTick \in [Clients -> Ticks]
  BY <1>3 DEF TypeOK
<1>5. n \in Nat /\ n >= 1 /\ 1 \in 1..n
  BY <1>2, <1>4
<1>6. /\ v \in Seq(Ticks) /\ Len(v) = n - 1
      /\ \A i \in 1..(n - 1) : v[i] = u[i + 1] /\ i + 1 \in 1..n
  BY <1>2, <1>4, <1>5
<1>7. Head(u) = u[1] /\ u[1] \in Ticks /\ u[1] \in Nat /\ \A i \in 1..n : u[i] \in Nat
  <2>1. Head(u) = u[1]
    BY <1>2, <1>4
  <2>2. \A i \in 1..n : u[i] \in Ticks
    BY <1>4
  <2>. HIDE DEF u, n
  <2>. QED  BY <1>5, <2>1, <2>2, Bounds
<1>8. /\ clientTick' \in [Clients -> Ticks] /\ clientTick'[c] = u[1]
      /\ \A d \in Clients : d # c => clientTick'[d] = clientTick[d]
  BY <1>2, <1>4, <1>7
<1>9. /\ updates' \in [Clients -> Seq(Ticks)] /\ updates'[c] = v
      /\ \A d \in Clients : d # c => updates'[d] = updates[d]
  BY <1>2, <1>4, <1>6
<1>10. TypeOK'
  BY <1>1, <1>3, <1>8, <1>9 DEF TypeOK
<1>11. ServerInv' /\ EventsInv'
  BY <1>1 DEF IInv, ServerInv, EventsInv, Waiting
<1>12. clientTick[c] \in Nat
  BY <1>3, ClientTyped
<1>13. /\ MessagesInv(c) /\ UpdatesInv(c) /\ StaleInv(c) /\ StampedInv(c) /\ ReachesInv(c)
       /\ clientTick[c] <= u[1]
       /\ \A i \in 1..n : u[i] <= serverTick
       /\ \A i, j \in 1..n : i < j => u[i] <= u[j]
  BY <1>2, <1>5 DEF IInv, ClientInv, UpdatesInv
<1>14. \A x \in Stale(c) : \A i \in 1..n : x.tick <= u[i]
  BY <1>13 DEF StaleInv
<1>. HIDE DEF u, v, n
<1>15. UpdatesInv(c)'
  <2>1. ASSUME NEW i \in 1..(n - 1) PROVE u[1] <= v[i] /\ v[i] <= serverTick
    <3>1. i + 1 \in 1..n /\ v[i] = u[i + 1] /\ 1 < i + 1
      BY <1>5, <1>6
    <3>. QED  BY <1>5, <1>13, <3>1
  <2>2. ASSUME NEW i \in 1..(n - 1), NEW j \in 1..(n - 1), i < j PROVE v[i] <= v[j]
    <3>1. i + 1 \in 1..n /\ j + 1 \in 1..n /\ i + 1 < j + 1
      BY <1>5, <1>6, <2>2
    <3>. QED  BY <1>6, <1>13, <3>1
  <2>. QED  BY <1>1, <1>5, <1>6, <1>8, <1>9, <1>13, <2>1, <2>2 DEF UpdatesInv
<1>16. ASSUME NEW t \in Nat, Reaches(c, t)
       PROVE  t <= u[1] \/ \E i \in 1..(n - 1) : t <= v[i]
  <2>1. CASE t <= clientTick[c]
    BY <1>7, <1>12, <1>13, <2>1
  <2>2. CASE \E i \in 1..n : t <= u[i]
    <3>1. PICK i \in 1..n : t <= u[i]
      BY <2>2
    <3>2. CASE i = 1
      BY <3>1, <3>2
    <3>3. CASE i # 1
      <4>1. i - 1 \in 1..(n - 1) /\ (i - 1) + 1 = i
        BY <1>5, <3>3
      <4>2. t <= v[i - 1]
        BY <1>6, <3>1, <4>1
      <4>. QED  BY <4>1, <4>2
    <3>. QED  BY <3>2, <3>3
  <2>. QED  BY <1>16, <2>1, <2>2 DEF Reaches, u, n
<1>17. /\ Kept(c)' = Kept(c) /\ OnTheirWay(c)' = OnTheirWay(c)
       /\ Current(c)' = Current(c) /\ Stale(c)' = Stale(c)
  BY <1>1 DEF OnTheirWay, Kept, Current, Stale
<1>18. MessagesInv(c)' /\ StampedInv(c)'
  BY <1>1, <1>13, <1>17 DEF MessagesInv, StampedInv
<1>19. ReachesInv(c)'
  <2>1. updateTick[c] \in Nat /\ \A m \in Current(c) : m.tick \in Nat
    BY <1>3, ClientTyped, MessageTyped DEF Current
  <2>2. \A t \in Nat : Reaches(c, t) => t <= clientTick'[c] \/ \E i \in 1..Len(updates'[c]) : t <= updates'[c][i]
    BY <1>6, <1>8, <1>9, <1>16
  <2>. QED  BY <1>1, <1>13, <1>17, <2>1, <2>2 DEF ReachesInv, Reaches
<1>20. StaleInv(c)'
  <2>1. ASSUME NEW x \in Stale(c) PROVE x.tick <= u[1] /\ \A i \in 1..(n - 1) : x.tick <= v[i]
    BY <1>5, <1>6, <1>14
  <2>. QED  BY <1>6, <1>8, <1>9, <1>17, <2>1 DEF StaleInv
<1>21. ASSUME NEW d \in Clients PROVE ClientInv(d)'
  <2>1. CASE d = c
    BY <1>1, <1>2, <1>15, <1>18, <1>19, <1>20, <2>1 DEF ClientInv
  <2>2. CASE d # c
    <3>1. SameClient(d)
      BY <1>1, <1>8, <1>9, <2>2 DEF SameClient, SameEvents
    <3>2. serverTick' = serverTick /\ lastId' = lastId /\ ClientInv(d)
      BY <1>1 DEF IInv
    <3>. QED  BY <1>3, <3>1, <3>2, ClientKept
  <2>. QED  BY <2>1, <2>2
<1>22. LocalInv' /\ \A kind : channel' = kind => OrderedInv(kind)'
  BY <1>1, OrderKept
<1>. QED  BY <1>10, <1>11, <1>21, <1>22 DEF IInv

\* What a frame of a client triggers, and what it leaves in the queue.
Taken(c, i) ==
  Popped(c) \o (IF i # 0 /\ ~(messages[c][i].tick > clientTick[c]) THEN <<messages[c][i]>> ELSE <<>>)

Left(c, i) ==
  IF i # 0 /\ messages[c][i].tick > clientTick[c]
  THEN InsertQueued(StillQueued(c), messages[c][i]) ELSE StillQueued(c)

Unread(c, i) == IF i # 0 THEN RemoveAt(messages[c], i) ELSE messages[c]

\* All of it was on its way; what is left was in the queue, or waits.
LEMMA ReceivedHas ==
  ASSUME TypeOK, NEW c \in Clients, lastStatus[c] = "Connected", NEW i \in 0..Len(messages[c])
  PROVE  /\ Taken(c, i) \in Seq(Messages) /\ ToSet(Taken(c, i)) \subseteq OnTheirWay(c)
         /\ Left(c, i) \in Seq(Messages) /\ ToSet(Left(c, i)) \subseteq OnTheirWay(c)
         /\ Unread(c, i) \in Seq(Messages) /\ ToSet(Unread(c, i)) \subseteq ToSet(messages[c])
         /\ \A x \in ToSet(Left(c, i)) :
              x \in ToSet(Kept(c)) \/ (x \in ToSet(messages[c]) /\ x.tick > clientTick[c])
<1>. DEFINE m == messages[c][i]
            P == Popped(c)
            K == StillQueued(c)
<1>1. messages[c] \in Seq(Messages) /\ queue[c] \in Seq(Messages) /\ Kept(c) = queue[c]
  BY DEF TypeOK, Kept
<1>2. i # 0 => i \in 1..Len(messages[c])
  BY <1>1
<1>3. P \in Seq(Messages) /\ K \in Seq(Messages) /\ queue[c] = P \o K
  BY QueueParts
<1>4. ToSet(Kept(c)) = ToSet(P) \cup ToSet(K)
  BY <1>1, <1>3, ConcatHas
<1>5. i # 0 => m \in Messages /\ m \in ToSet(messages[c])
  <2>1. \A e : e \in ToSet(messages[c]) <=> \E j \in 1..Len(messages[c]) : messages[c][j] = e
    BY <1>1, HasElements
  <2>. QED  BY <1>1, <1>2, <2>1
<1>6. <<>> \in Seq(Messages) /\ ToSet(<<>>) = {}
  <2>1. <<>> \in Seq(Messages)
    OBVIOUS
  <2>. QED  BY <2>1, EmptyHas
<1>7. i # 0 => <<m>> \in Seq(Messages) /\ ToSet(<<m>>) = {m}
  <2>1. ToSet(<<m>>) = {m}
    BY DEF ToSet
  <2>. QED  BY <1>5, <2>1
<1>. HIDE DEF m, P, K
<1>8. Taken(c, i) \in Seq(Messages) /\ ToSet(Taken(c, i)) \subseteq OnTheirWay(c)
  <2>. DEFINE R == IF i # 0 /\ ~(m.tick > clientTick[c]) THEN <<m>> ELSE <<>>
  <2>1. R \in Seq(Messages) /\ ToSet(R) \subseteq ToSet(messages[c])
    BY <1>5, <1>6, <1>7
  <2>2. Taken(c, i) = P \o R
    BY DEF Taken, m, P
  <2>. HIDE DEF R
  <2>3. P \o R \in Seq(Messages) /\ ToSet(P \o R) = ToSet(P) \cup ToSet(R)
    BY <1>3, <2>1, ConcatHas
  <2>. QED  BY <1>4, <2>1, <2>2, <2>3 DEF OnTheirWay
<1>9. /\ Left(c, i) \in Seq(Messages)
      /\ \A x \in ToSet(Left(c, i)) :
           x \in ToSet(Kept(c)) \/ (x \in ToSet(messages[c]) /\ x.tick > clientTick[c])
  <2>1. CASE i # 0 /\ m.tick > clientTick[c]
    <3>1. Left(c, i) = InsertQueued(K, m)
      BY <2>1 DEF Left, m, K
    <3>2. InsertQueued(K, m) \in Seq(Messages) /\ ToSet(InsertQueued(K, m)) \subseteq ToSet(K) \cup {m}
      BY <1>3, <1>5, <2>1, InsertQueuedHas
    <3>. QED  BY <1>4, <1>5, <2>1, <3>1, <3>2
  <2>2. CASE ~(i # 0 /\ m.tick > clientTick[c])
    <3>1. Left(c, i) = K
      BY <2>2 DEF Left, m, K
    <3>. QED  BY <1>3, <1>4, <3>1
  <2>. QED  BY <2>1, <2>2
<1>10. Unread(c, i) \in Seq(Messages) /\ ToSet(Unread(c, i)) \subseteq ToSet(messages[c])
  <2>1. CASE i # 0
    BY <1>1, <1>2, <2>1, RemovedAt DEF Unread
  <2>2. CASE i = 0
    BY <1>1, <2>2 DEF Unread
  <2>. QED  BY <2>1, <2>2
<1>11. ToSet(Left(c, i)) \subseteq OnTheirWay(c)
  BY <1>9 DEF OnTheirWay
<1>. QED  BY <1>8, <1>9, <1>10, <1>11

\* It is in order: on an ordered channel a message that need not wait finds
\* nothing of its lane waiting.
LEMMA ReceivedOrder ==
  ASSUME TypeOK, NEW kind, NEW c \in Clients, lastStatus[c] = "Connected",
         MessagesInv(c), StaleInv(c), WayInv(kind, c), StampsInv(kind, c),
         NEW i \in 0..Len(messages[c]), channel = kind, i # 0 => MayArrive(c, i)
  PROVE  /\ InOrder(kind, Left(c, i)) /\ InOrder(kind, Unread(c, i))
         /\ LanesInOrder(kind, Triggers(Taken(c, i)))
         /\ LanesAhead(kind, Traced(ToSet(Taken(c, i))), Traced(ToSet(Left(c, i))))
         /\ Ahead(kind, ToSet(Taken(c, i)), ToSet(Unread(c, i)))
         /\ Ahead(kind, ToSet(Left(c, i)), ToSet(Unread(c, i)))
<1>. DEFINE q == queue[c]
            s == messages[c]
            m == messages[c][i]
            P == Popped(c)
            K == StillQueued(c)
            r == RemoveAt(messages[c], i)
<1>1. s \in Seq(Messages) /\ q \in Seq(Messages) /\ clientTick[c] \in Nat /\ Kept(c) = q
  BY ClientTyped DEF Kept
<1>2. InOrder(kind, q) /\ InOrder(kind, s) /\ Ahead(kind, ToSet(q), ToSet(s))
  BY <1>1 DEF WayInv
<1>3. P \in Seq(Messages) /\ K \in Seq(Messages) /\ q = P \o K
  BY QueueParts
<1>4. ToSet(q) = ToSet(P) \cup ToSet(K) /\ ToSet(P) \subseteq Messages /\ ToSet(K) \subseteq Messages
  BY <1>3, ConcatHas, HasElements
<1>5. InOrder(kind, P) /\ InOrder(kind, K) /\ Ahead(kind, ToSet(P), ToSet(K))
  <2>1. InOrder(kind, P \o K)
    BY <1>2, <1>3
  <2>. QED  BY <1>3, <2>1, ConcatOrder
<1>6. Ahead(kind, ToSet(P), ToSet(s)) /\ Ahead(kind, ToSet(K), ToSet(s))
  BY <1>2, <1>4 DEF Ahead
<1>7. \A x \in ToSet(K) : ~x.independent /\ x \in OnTheirWay(c) /\ x \in ToSet(Kept(c))
  BY <1>1, <1>4 DEF MessagesInv, OnTheirWay
<1>8. K # <<>> => \E x \in ToSet(K) : x.tick > clientTick[c]
  BY QueueParts
<1>9. LanesAhead(kind, Traced(ToSet(P)), Traced(ToSet(K))) /\ LanesInOrder(kind, Triggers(P))
  BY <1>3, <1>4, <1>5, TracedAhead, TriggersHas
<1>10. CASE i = 0
  <2>1. Taken(c, i) = P \o <<>> /\ Left(c, i) = K /\ Unread(c, i) = s
    BY <1>10 DEF Taken, Left, Unread
  <2>2. P \o <<>> = P
    BY <1>3
  <2>. QED  BY <1>2, <1>5, <1>6, <1>9, <2>1, <2>2
<1>11. CASE i # 0
  <2>1. i \in 1..Len(s)
    BY <1>1, <1>11
  <2>2. m \in ToSet(s) /\ m \in Messages
    <3>1. \A e : e \in ToSet(s) <=> \E j \in 1..Len(s) : s[j] = e
      BY <1>1, HasElements
    <3>. QED  BY <1>1, <2>1, <3>1
  <2>3. kind = "Ordered" => \A j \in 1..(i - 1) : s[j].independent # s[i].independent
    BY <1>11 DEF MayArrive
  <2>4. InOrder(kind, r) /\ Ahead(kind, {m}, ToSet(r)) /\ ToSet(r) \subseteq ToSet(s)
    BY <1>1, <1>2, <2>1, <2>3, RemovedAt
  <2>5. Unread(c, i) = r
    BY <1>11 DEF Unread
  <2>6. m.id \in Nat /\ m.tick \in Nat /\ m.independent \in BOOLEAN
    BY <2>2, MessageTyped
  <2>7. m \in OnTheirWay(c) /\ m.since = since[c]
    BY <2>2 DEF OnTheirWay, MessagesInv
  <2>. HIDE DEF q, s, m, P, K, r
  <2>8. Ahead(kind, ToSet(P), {m}) /\ Ahead(kind, ToSet(K), {m})
    BY <1>6, <2>2 DEF Ahead
  <2>9. Ahead(kind, ToSet(P), ToSet(r)) /\ Ahead(kind, ToSet(K), ToSet(r))
    BY <1>6, <2>4 DEF Ahead
  <2>10. CASE m.tick > clientTick[c]
    <3>1. Taken(c, i) = P \o <<>> /\ Left(c, i) = InsertQueued(K, m)
      BY <1>11, <2>10 DEF Taken, Left, m, P, K
    <3>2. P \o <<>> = P
      BY <1>3
    <3>3. ToSet(InsertQueued(K, m)) \subseteq ToSet(K) \cup {m} /\ InOrder(kind, InsertQueued(K, m))
      BY <1>3, <1>5, <2>2, <2>8, InsertQueuedHas
    <3>4. Ahead(kind, ToSet(P), ToSet(InsertQueued(K, m))) /\ ToSet(InsertQueued(K, m)) \subseteq Messages
      BY <1>4, <1>5, <2>2, <2>8, <3>3 DEF Ahead
    <3>5. LanesAhead(kind, Traced(ToSet(P)), Traced(ToSet(InsertQueued(K, m))))
      BY <1>4, <3>4, TracedAhead
    <3>6. Ahead(kind, ToSet(InsertQueued(K, m)), ToSet(r))
      BY <2>4, <2>9, <3>3 DEF Ahead
    <3>. QED  BY <1>9, <2>4, <2>5, <2>9, <3>1, <3>2, <3>3, <3>5, <3>6
  <2>11. CASE ~(m.tick > clientTick[c])
    <3>1. Taken(c, i) = P \o <<m>> /\ Left(c, i) = K
      BY <1>11, <2>11 DEF Taken, Left, m, P, K
    <3>2. <<m>> \in Seq(Messages) /\ ToSet(<<m>>) = {m} /\ InOrder(kind, <<m>>)
      <4>1. ToSet(<<m>>) = {m}
        BY DEF ToSet
      <4>2. Len(<<m>>) = 1
        OBVIOUS
      <4>3. InOrder(kind, <<m>>)
        BY <4>2 DEF InOrder
      <4>. QED  BY <2>2, <4>1, <4>3
    <3>3. ToSet(P \o <<m>>) = ToSet(P) \cup {m} /\ P \o <<m>> \in Seq(Messages)
      BY <1>3, <3>2, ConcatHas
    <3>4. InOrder(kind, P \o <<m>>)
      BY <1>3, <1>5, <2>8, <3>2, ConcatOrder
    <3>5. ASSUME NEW x \in ToSet(K) PROVE Follows(kind, Trace(m), Trace(x))
      <4>1. x \in Messages /\ ~x.independent /\ x.id \in Nat /\ x.tick \in Nat /\ x.independent \in BOOLEAN
        BY <1>4, <1>7, MessageTyped
      <4>2. /\ Trace(m)[1] = Lane(m) /\ Trace(m)[2] = m.id
            /\ Trace(x)[1] = Lane(x) /\ Trace(x)[2] = x.id
        BY <2>2, <4>1, MessageTrace
      <4>3. SUFFICES ASSUME Lane(m) = Lane(x) PROVE IF kind = "Ordered" THEN m.id < x.id ELSE m.id # x.id
        BY <4>2 DEF Follows
      <4>4. m.independent = x.independent /\ x.since = since[c]
        BY <2>7, <4>3 DEF Lane
      <4>5. Before(kind, x, m)
        BY <2>8 DEF Ahead
      <4>6. CASE kind # "Ordered"
        BY <4>4, <4>5, <4>6 DEF Before
      <4>7. CASE kind = "Ordered"
        <5>1. m \in Current(c) /\ x \in Current(c)
          BY <1>7, <2>7, <4>4 DEF Current
        <5>2. ASSUME NEW z \in Current(c), z \in ToSet(K) PROVE z.tick <= clientTick[c]
          <6>1. z.tick \in Nat /\ z.id \in Nat /\ ~z.independent /\ z.independent \in BOOLEAN
            BY <1>4, <1>7, <5>2, MessageTyped
          <6>2. Before(kind, z, m)
            BY <2>8, <5>2 DEF Ahead
          <6>3. z.id < m.id
            BY <2>6, <4>1, <4>4, <4>7, <6>1, <6>2 DEF Before
          <6>4. z.tick <= m.tick
            BY <4>1, <4>4, <4>7, <5>1, <6>1, <6>3 DEF StampsInv
          <6>. QED  BY <1>1, <2>6, <2>11, <6>1, <6>4
        <5>3. PICK z \in ToSet(K) : z.tick > clientTick[c]
          BY <1>8, EmptyHas
        <5>4. z.tick \in Nat
          BY <1>4, MessageTyped
        <5>5. z \notin Current(c)
          BY <1>1, <5>2, <5>3, <5>4
        <5>6. z \in Stale(c)
          BY <1>7, <5>5 DEF Current, Stale
        <5>7. x.tick > clientTick[c]
          BY <1>1, <1>7, <4>4, <5>3, <5>4, <5>6 DEF StaleInv
        <5>8. x.tick <= clientTick[c]
          BY <5>1, <5>2
        <5>. QED  BY <1>1, <4>1, <5>7, <5>8
      <4>. QED  BY <4>6, <4>7
    <3>6. LanesAhead(kind, Traced(ToSet(P \o <<m>>)), Traced(ToSet(K)))
      BY <1>9, <3>3, <3>5 DEF LanesAhead, Traced
    <3>7. Ahead(kind, ToSet(P \o <<m>>), ToSet(r))
      BY <2>4, <2>9, <3>3 DEF Ahead
    <3>8. LanesInOrder(kind, Triggers(P \o <<m>>))
      BY <3>3, <3>4, TriggersHas
    <3>. QED  BY <1>5, <2>4, <2>5, <2>9, <3>1, <3>6, <3>7, <3>8
  <2>. QED  BY <2>10, <2>11
<1>. QED  BY <1>10, <1>11

\* A client triggers events that are ready, each lane in order.
LEMMA ReceiveEventsStep ==
  ASSUME IInv, NEW c \in Clients, NEW i \in 0..Len(messages[c]), ReceiveEvents(c, i)
  PROVE  IInv'
<1>. DEFINE T == Taken(c, i)
            Q == Left(c, i)
            U == Unread(c, i)
<1>1. UNCHANGED <<channel, serverTick, seen, emitted, lastId, buffered, connected, replicated,
                  synced, updateTick, spare, updates, online, lastStatus, clientTick, connects,
                  since, joined, inherited>>
  BY DEF ReceiveEvents, serverVars, history
<1>2. c \in online /\ lastStatus[c] = "Connected" /\ (i # 0 => MayArrive(c, i))
  BY DEF ReceiveEvents, Receives
<1>3. TypeOK /\ serverTick \in Nat /\ lastId \in Nat /\ c \in Everyone
  BY ServerTyped DEF IInv, Everyone
<1>4. messages' = [messages EXCEPT ![c] = U]
  <2>1. messages' = IF i # 0 THEN [messages EXCEPT ![c] = RemoveAt(@, i)] ELSE messages
    BY DEF ReceiveEvents
  <2>2. messages \in [Clients -> Seq(Messages)]
    BY <1>3 DEF TypeOK
  <2>. QED  BY <2>1, <2>2 DEF Unread
<1>5. queue' = [queue EXCEPT ![c] = Q]
  BY DEF ReceiveEvents, Left
<1>6. triggered' = [triggered EXCEPT ![c] = @ \o Triggers(T)]
  BY DEF ReceiveEvents, Taken, QueueFirst
<1>7. /\ T \in Seq(Messages) /\ ToSet(T) \subseteq OnTheirWay(c)
      /\ Q \in Seq(Messages) /\ ToSet(Q) \subseteq OnTheirWay(c)
      /\ U \in Seq(Messages) /\ ToSet(U) \subseteq ToSet(messages[c])
      /\ \A x \in ToSet(Q) :
           x \in ToSet(Kept(c)) \/ (x \in ToSet(messages[c]) /\ x.tick > clientTick[c])
  BY <1>2, <1>3, ReceivedHas
<1>. HIDE DEF T, Q, U
<1>8. /\ Triggers(T) \in Seq(Traces)
      /\ ToSet(Triggers(T)) \subseteq Traced(ToSet(T))
      /\ Shown(ToSet(Triggers(T)), ToSet(T))
  BY <1>7, TriggersHas
<1>9. triggered[c] \in Seq(Traces) /\ triggered \in [Everyone -> Seq(Traces)]
  BY <1>3 DEF TypeOK, Traces
<1>10. /\ triggered[c] \o Triggers(T) \in Seq(Traces)
       /\ ToSet(triggered[c] \o Triggers(T)) = ToSet(triggered[c]) \cup ToSet(Triggers(T))
  BY <1>8, <1>9, ConcatHas
<1>11. /\ triggered' \in [Everyone -> Seq(Traces)]
       /\ triggered'[c] = triggered[c] \o Triggers(T)
       /\ \A id \in Everyone : id # c => triggered'[id] = triggered[id]
  BY <1>3, <1>6, <1>9, <1>10
<1>12. /\ messages' \in [Clients -> Seq(Messages)] /\ messages'[c] = U
       /\ \A d \in Clients : d # c => messages'[d] = messages[d]
  <2>1. messages \in [Clients -> Seq(Messages)]
    BY <1>3 DEF TypeOK
  <2>. QED  BY <1>4, <1>7, <2>1
<1>13. /\ queue' \in [Clients -> Seq(Messages)] /\ queue'[c] = Q
       /\ \A d \in Clients : d # c => queue'[d] = queue[d]
  <2>1. queue \in [Clients -> Seq(Messages)]
    BY <1>3 DEF TypeOK
  <2>. QED  BY <1>5, <1>7, <2>1
<1>14. TypeOK'
  BY <1>1, <1>3, <1>11, <1>12, <1>13 DEF TypeOK, Traces
<1>15. ServerInv' /\ EventsInv'
  BY <1>1 DEF IInv, ServerInv, EventsInv, Waiting
<1>16. /\ Kept(c)' = Q /\ OnTheirWay(c)' = ToSet(U) \cup ToSet(Q)
       /\ OnTheirWay(c)' \subseteq OnTheirWay(c) /\ Current(c)' \subseteq Current(c)
  <2>1. Kept(c)' = Q
    BY <1>1, <1>2, <1>13 DEF Kept
  <2>. QED  BY <1>1, <1>7, <1>12, <2>1 DEF OnTheirWay, Current
<1>17. ClientInv(c)'
  <2>1. /\ MessagesInv(c) /\ UpdatesInv(c) /\ StaleInv(c) /\ StampedInv(c) /\ ReachesInv(c)
        /\ clientTick[c] \in Nat /\ OnTheirWay(c) \subseteq Messages
    BY <1>2, <1>3, ClientTyped DEF IInv, ClientInv
  <2>2. ASSUME NEW x \in ToSet(Q) PROVE joined[c] < x.id /\ ~x.independent
    <3>1. CASE x \in ToSet(Kept(c))
      BY <2>1, <3>1 DEF MessagesInv
    <3>2. CASE x \in ToSet(messages[c]) /\ x.tick > clientTick[c]
      <4>1. x \in OnTheirWay(c) /\ x.since = since[c]
        BY <2>1, <3>2 DEF OnTheirWay, MessagesInv
      <4>2. x.id \in Nat /\ x.tick \in Nat /\ joined[c] \in Nat /\ since[c] \in Nat
        BY <1>3, <2>1, <4>1, ClientTyped, MessageTyped
      <4>3. joined[c] <= since[c] /\ x.since < x.id /\ (x.independent => x.tick = 0)
        BY <2>1, <4>1 DEF IInv, ServerInv, MessagesInv
      <4>. QED  BY <2>1, <3>2, <4>1, <4>2, <4>3
    <3>. QED  BY <1>7, <3>1, <3>2
  <2>3. MessagesInv(c)'
    BY <1>1, <1>7, <1>12, <1>16, <2>1, <2>2 DEF MessagesInv
  <2>4. StaleInv(c)'
    <3>1. ASSUME NEW x \in Stale(c)' PROVE x \in Stale(c)
      BY <1>1, <1>7, <1>16, <2>1 DEF Stale, MessagesInv
    <3>2. ASSUME NEW y \in ToSet(Q),
                 \A k \in ToSet(Kept(c)) : k.since = since[c] => k.tick > clientTick[c]
          PROVE  y.since = since[c] => y.tick > clientTick[c]
      BY <1>7, <3>2
    <3>. QED  BY <1>1, <1>16, <2>1, <3>1, <3>2 DEF StaleInv
  <2>5. UpdatesInv(c)' /\ StampedInv(c)' /\ ReachesInv(c)'
    BY <1>1, <1>16, <2>1 DEF UpdatesInv, StampedInv, ReachesInv, Reaches
  <2>. QED  BY <1>1, <1>2, <2>3, <2>4, <2>5 DEF ClientInv
<1>18. ASSUME NEW d \in Clients PROVE ClientInv(d)'
  <2>1. CASE d # c
    <3>1. SameClient(d)
      BY <1>1, <1>12, <1>13, <2>1 DEF SameClient, SameEvents
    <3>2. serverTick' = serverTick /\ lastId' = lastId /\ ClientInv(d)
      BY <1>1 DEF IInv
    <3>. QED  BY <1>3, <3>1, <3>2, ClientKept
  <2>. QED  BY <1>17, <2>1
<1>19. Server # c /\ Server \in Everyone
  BY ServerAssumption DEF Everyone
<1>20. \A x \in ToSet(triggered'[c]) : x[2] <= lastId
  <2>1. \A x \in ToSet(triggered[c]) : x[2] <= lastId
    BY <1>3 DEF IInv, LocalInv, OrderInv
  <2>2. \A x \in ToSet(T) : x.id <= lastId
    BY <1>7 DEF IInv, ClientInv, MessagesInv
  <2>3. \A x \in ToSet(Triggers(T)) : x[2] <= lastId
    BY <1>8, <2>2 DEF Shown
  <2>. QED  BY <1>10, <1>11, <2>1, <2>3
<1>21. ASSUME NEW kind, OrderInv(kind) PROVE OrderInv(kind)'
  <2>1. \A id \in Everyone : \A x \in ToSet(triggered'[id]) : x[2] <= lastId
    BY <1>11, <1>20, <1>21 DEF OrderInv
  <2>2. Past(Server)' = Past(Server)
    BY <1>11, <1>19 DEF Past
  <2>. QED  BY <1>1, <1>21, <2>1, <2>2 DEF OrderInv
<1>22. LocalInv'
  BY <1>11, <1>19, <1>21 DEF IInv, LocalInv
<1>23. ASSUME NEW kind, channel = kind PROVE OrderedInv(kind)'
  <2>0. OrderedInv(kind)
    BY <1>23 DEF IInv
  <2>1. MessagesInv(c) /\ StaleInv(c) /\ WayInv(kind, c) /\ StampsInv(kind, c)
    BY <1>2, <2>0 DEF IInv, ClientInv, OrderedInv
  <2>2. /\ InOrder(kind, Q) /\ InOrder(kind, U)
        /\ LanesInOrder(kind, Triggers(T))
        /\ LanesAhead(kind, Traced(ToSet(T)), Traced(ToSet(Q)))
        /\ Ahead(kind, ToSet(T), ToSet(U)) /\ Ahead(kind, ToSet(Q), ToSet(U))
    BY <1>2, <1>3, <1>23, <2>1, ReceivedOrder DEF T, Q, U
  <2>3. LanesAhead(kind, ToSet(triggered[c]), Traced(OnTheirWay(c)))
    <3>1. ToSet(messages[c]) \subseteq Messages
      BY <1>3, ClientTyped DEF OnTheirWay
    <3>2. LanesAhead(kind, ToSet(triggered[c]), Traced(ToSet(messages[c])))
      BY <1>3, <2>1, <3>1, PastAhead DEF WayInv
    <3>3. Traced(OnTheirWay(c)) = Traced(ToSet(messages[c])) \cup Traced(ToSet(Kept(c)))
      BY DEF Traced, OnTheirWay
    <3>. QED  BY <2>1, <3>2, <3>3 DEF WayInv, LanesAhead
  <2>4. LanesInOrder(kind, triggered'[c])
    <3>1. LanesInOrder(kind, triggered[c])
      BY <1>3, <2>0 DEF OrderedInv
    <3>2. LanesAhead(kind, ToSet(triggered[c]), ToSet(Triggers(T)))
      BY <1>7, <1>8, <2>3 DEF LanesAhead, Traced
    <3>. QED  BY <1>8, <1>9, <1>11, <2>2, <3>1, <3>2, ConcatLanes
  <2>5. LanesAhead(kind, ToSet(triggered'[c]), Traced(ToSet(Q)))
    <3>1. LanesAhead(kind, ToSet(triggered[c]), Traced(ToSet(Q)))
      BY <1>7, <2>3 DEF LanesAhead, Traced
    <3>. QED  BY <1>8, <1>10, <1>11, <2>2, <3>1 DEF LanesAhead
  <2>6. Among(Past(c)', Past(c) \cup ToSet(T))
    BY <1>8, <1>10, <1>11, PastAmong
  <2>7. Among(Handled(c)', Handled(c))
    BY <1>7, <1>16, <2>6 DEF Among, Handled
  <2>8. ASSUME NEW V PROVE Among(V, V)
    BY DEF Among
  <2>9. Ahead(kind, Past(c)', ToSet(U))
    <3>1. Ahead(kind, Past(c) \cup ToSet(T), ToSet(U))
      BY <1>7, <2>1, <2>2 DEF WayInv, Ahead
    <3>. QED  BY <2>6, <2>8, <3>1, AmongAhead
  <2>10. WayInv(kind, c)'
    <3>1. Ahead(kind, Handled(c), ToSet(emitted)) /\ Ahead(kind, Handled(c), Unexcluded(c))
      BY <2>1 DEF WayInv, Unexcluded
    <3>2. Ahead(kind, Handled(c)', ToSet(emitted)) /\ Ahead(kind, Handled(c)', Unexcluded(c))
      BY <2>7, <2>8, <3>1, AmongAhead
    <3>3. ToSet(emitted') = ToSet(emitted) /\ {e \in ToSet(buffered') : c \notin e.excluded} = Unexcluded(c)
      BY <1>1 DEF Unexcluded
    <3>4. Traced(ToSet(Kept(c)))' = Traced(ToSet(Q))
      BY <1>16 DEF Traced, Trace, Lane
    <3>. QED  BY <1>12, <1>16, <2>2, <2>5, <2>9, <3>2, <3>3, <3>4 DEF WayInv
  <2>11. StampsInv(kind, c)'
    BY <1>16, <2>1 DEF StampsInv
  <2>12. OrderInv(kind)'
    BY <1>21, <2>0 DEF OrderedInv
  <2>13. \A id \in Everyone : LanesInOrder(kind, triggered'[id])
    BY <1>11, <2>0, <2>4 DEF OrderedInv
  <2>14. ASSUME NEW d \in Clients PROVE WayInv(kind, d)' /\ (d \in online => StampsInv(kind, d)')
    <3>1. CASE d = c
      BY <2>10, <2>11, <3>1
    <3>2. CASE d # c
      <4>1. WayInv(kind, d) /\ (d \in online => StampsInv(kind, d)) /\ d \in Everyone
        BY <2>0 DEF OrderedInv, Everyone
      <4>2. SameWay(d) /\ since'[d] = since[d]
        BY <1>1, <1>11, <1>12, <1>13, <3>2, <4>1 DEF SameWay
      <4>3. Among(ToSet(emitted'), ToSet(emitted)) /\ Among(Unexcluded(d)', Unexcluded(d))
        BY <1>1 DEF Among, Unexcluded
      <4>. QED  BY <4>1, <4>2, <4>3, WayKept
    <3>. QED  BY <3>1, <3>2
  <2>15. online' \subseteq Clients /\ online' = online
    BY <1>1, <1>3 DEF TypeOK
  <2>. QED  BY <2>12, <2>13, <2>14, <2>15 DEF OrderedInv
<1>. QED  BY <1>1, <1>14, <1>15, <1>18, <1>22, <1>23 DEF IInv

-----------------------------------------------------------------------------
(* Sending.                                                                *)

\* Events that a client can be sent.
Origin(c) == ToSet(emitted) \cup Unexcluded(c)

\* They were emitted after it connected, and refer to what it can see.
LEMMA OriginHas ==
  ASSUME IInv, NEW c \in Clients, NEW e \in Origin(c)
  PROVE  /\ e.id <= lastId /\ e.need[c] <= seen[c]
         /\ e.id \in Nat /\ e.need[c] \in Nat /\ e.independent \in BOOLEAN
         /\ c \in connected => since[c] < e.id
<1>1. e \in Waiting
  BY DEF Origin, Unexcluded, Waiting
<1>2. e.id <= lastId /\ e.need[c] <= seen[c]
  BY <1>1 DEF IInv, EventsInv
<1>3. e.id \in Nat /\ e.need[c] \in Nat /\ e.independent \in BOOLEAN
  BY <1>1, EventTyped DEF IInv
<1>4. c \in connected => since[c] < e.id
  BY DEF IInv, EventsInv, Origin, Unexcluded
<1>. QED  BY <1>2, <1>3, <1>4

\* What is in the buffer when a tick sends it was there or was emitted.
LEMMA BufferedFrom ==
  ASSUME TypeOK, NEW b \in ToSet(Buffered)
  PROVE  /\ b.independent = FALSE
         /\ \E e \in Waiting : b.id = e.id /\ b.independent = e.independent /\ b.need = e.need
         /\ \A c : c \notin b.excluded =>
              \E e \in Origin(c) : b.id = e.id /\ b.independent = e.independent /\ b.need = e.need
<1>1. ToSet(buffered) \subseteq BufferedEvents /\ ToSet(emitted) \subseteq EventRecords
  <2>1. buffered \in Seq(BufferedEvents) /\ emitted \in Seq(EventRecords)
    BY DEF TypeOK
  <2>. QED  BY <2>1, HasElements
<1>2. Buffered \in Seq(BufferedEvents)
  BY BufferedHas
<1>3. b \in BufferedEvents
  BY <1>2, HasElements
<1>4. b.independent = FALSE
  BY <1>3 DEF BufferedEvents
<1>5. CASE b \in ToSet(buffered)
  BY <1>4, <1>5 DEF Waiting, Origin, Unexcluded
<1>6. CASE \E e \in ToSet(emitted) : BufferedAs(e, b)
  <2>1. PICK e \in ToSet(emitted) : BufferedAs(e, b)
    BY <1>6
  <2>2. e.independent \in BOOLEAN
    BY <1>1 DEF EventRecords
  <2>3. b.id = e.id /\ b.independent = e.independent /\ b.need = e.need
    BY <1>4, <2>1, <2>2 DEF BufferedAs
  <2>. QED  BY <1>4, <2>3 DEF Waiting, Origin
<1>. QED  BY <1>5, <1>6, BufferedHas

\* The stamp of a client that is replicated is as new as what it can see.
LEMMA StampHas ==
  ASSUME IInv, NEW c \in Clients
  PROVE  /\ Stamp(c) = UpdateTickAfter(c) /\ Stamp(c) \in Nat
         /\ updateTick[c] <= Stamp(c) /\ Stamp(c) <= serverTick + 1
         /\ c \in replicated => seen[c] <= Stamp(c)
         /\ HasUpdate(c) => Stamp(c) = serverTick + 1
         /\ ~HasUpdate(c) => Stamp(c) = updateTick[c]
<1>1. TypeOK /\ serverTick \in Nat /\ updateTick[c] \in Nat /\ seen[c] \in Nat
  BY ServerTyped, ClientTyped DEF IInv
<1>2. /\ updateTick[c] <= serverTick /\ seen[c] <= serverTick + 1
      /\ c \in synced => seen[c] <= updateTick[c] \/ seen[c] = serverTick + 1
  BY DEF IInv, ServerInv
<1>3. Stamp(c) = IF HasUpdate(c) THEN serverTick + 1 ELSE updateTick[c]
  BY DEF Stamp, UpdateTickAfter
<1>4. ASSUME c \in replicated, ~HasUpdate(c) PROVE seen[c] <= updateTick[c]
  <2>1. seen[c] # serverTick + 1 /\ (c \in synced \/ seen[c] = 0)
    BY <1>4 DEF HasUpdate
  <2>. QED  BY <1>1, <1>2, <2>1
<1>5. CASE HasUpdate(c)
  BY <1>1, <1>2, <1>3, <1>5 DEF Stamp
<1>6. CASE ~HasUpdate(c)
  BY <1>1, <1>2, <1>3, <1>4, <1>6 DEF Stamp
<1>. QED  BY <1>5, <1>6

\* Messages that a client may be sent.
MaySend(c, sent, stamp) ==
  \A m \in ToSet(sent) :
    /\ m.since = since[c] /\ since[c] < m.id /\ m.id <= lastId
    /\ IF m.independent THEN m.tick = 0 ELSE m.tick = stamp /\ m.need <= stamp
    /\ \E e \in Origin(c) : m.id = e.id /\ m.independent = e.independent

\* They may wait at the client until it has what they refer to.
LEMMA SendsClient ==
  ASSUME IInv, NEW c \in Clients, NEW sent \in Seq(Messages), NEW stamp \in Nat,
         MaySend(c, sent, stamp), stamp <= serverTick',
         serverTick' \in Nat, serverTick <= serverTick',
         messages'[c] = messages[c] \o sent, queue'[c] = queue[c],
         UNCHANGED <<lastStatus, lastId, since, joined>>
  PROVE  /\ MessagesInv(c)'
         /\ Current(c)' = Current(c) \cup ToSet(sent)
         /\ Stale(c)' = Stale(c) /\ Kept(c)' = Kept(c)
<1>1. TypeOK /\ serverTick \in Nat
  BY ServerTyped DEF IInv
<1>2. messages[c] \in Seq(Messages) /\ OnTheirWay(c) \subseteq Messages
  BY <1>1, ClientTyped
<1>3. ToSet(messages[c] \o sent) = ToSet(messages[c]) \cup ToSet(sent)
  BY <1>2, ConcatHas
<1>4. Kept(c)' = Kept(c) /\ Stale(c)' = Stale(c)
  BY DEF Kept, Stale
<1>5. OnTheirWay(c)' = OnTheirWay(c) \cup ToSet(sent)
  BY <1>3, <1>4 DEF OnTheirWay
<1>6. \A m \in ToSet(sent) : m.since = since[c]
  BY DEF MaySend
<1>7. Current(c)' = Current(c) \cup ToSet(sent)
  BY <1>5, <1>6 DEF Current
<1>8. MessagesInv(c)
  BY DEF IInv, ClientInv
<1>9. ASSUME NEW m \in OnTheirWay(c)
      PROVE  /\ m.since < m.id /\ m.id <= lastId /\ m.tick <= serverTick'
             /\ IF m.independent THEN m.tick = 0 ELSE m.need <= m.tick
  <2>1. m.tick \in Nat
    BY <1>2, MessageTyped
  <2>. QED  BY <1>1, <1>8, <2>1 DEF MessagesInv
<1>10. ASSUME NEW m \in ToSet(sent)
       PROVE  /\ m.since < m.id /\ m.id <= lastId /\ m.tick <= serverTick'
              /\ IF m.independent THEN m.tick = 0 ELSE m.need <= m.tick
  BY DEF MaySend
<1>11. MessagesInv(c)'
  BY <1>3, <1>4, <1>5, <1>6, <1>8, <1>9, <1>10 DEF MessagesInv
<1>. QED  BY <1>4, <1>7, <1>11

\* What is sent comes last, with the latest stamp.
LEMMA SendsInOrder ==
  ASSUME NEW kind, IInv, OrderedInv(kind), NEW c \in Clients, NEW sent \in Seq(Messages), NEW stamp \in Nat,
         MaySend(c, sent, stamp), InOrder(kind, sent), updateTick[c] <= stamp,
         messages'[c] = messages[c] \o sent, queue'[c] = queue[c],
         UNCHANGED <<lastStatus, since>>,
         triggered'[c] = triggered[c], ToSet(emitted') = {},
         Among(Unexcluded(c)', Origin(c)), Ahead(kind, ToSet(sent), Unexcluded(c)')
  PROVE  WayInv(kind, c)' /\ (c \in online => StampsInv(kind, c)')
<1>1. TypeOK
  BY DEF IInv
<1>2. /\ messages[c] \in Seq(Messages) /\ OnTheirWay(c) \subseteq Messages /\ updateTick[c] \in Nat
  BY <1>1, ClientTyped
<1>3. WayInv(kind, c) /\ (c \in online => StampsInv(kind, c) /\ StampedInv(c))
  BY DEF OrderedInv, IInv, ClientInv
<1>4. ToSet(messages'[c]) = ToSet(messages[c]) \cup ToSet(sent)
  BY <1>2, ConcatHas
<1>5. Kept(c)' = Kept(c) /\ Past(c)' = Past(c)
  BY DEF Kept, Past
<1>6. /\ OnTheirWay(c)' = OnTheirWay(c) \cup ToSet(sent) /\ Handled(c)' = Handled(c) \cup ToSet(sent)
      /\ Current(c)' \subseteq Current(c) \cup ToSet(sent)
  BY <1>4, <1>5 DEF OnTheirWay, Handled, Current
<1>7. Ahead(kind, Handled(c), Origin(c))
  BY <1>3 DEF WayInv, Origin, Unexcluded, Ahead
<1>8. Ahead(kind, Handled(c), ToSet(sent)) /\ Ahead(kind, Handled(c), Unexcluded(c)')
  <2>1. Among(Handled(c), Handled(c)) /\ Among(ToSet(sent), Origin(c))
    BY DEF Among, MaySend
  <2>. QED  BY <1>7, <2>1, AmongAhead
<1>9. /\ ToSet(messages[c]) \subseteq Handled(c) /\ ToSet(Kept(c)) \subseteq Handled(c)
      /\ Past(c) \subseteq Handled(c) /\ Current(c) \subseteq Handled(c)
  BY DEF Handled, OnTheirWay, Current
<1>10. WayInv(kind, c)'
  <2>1. InOrder(kind, messages'[c])
    <3>1. Ahead(kind, ToSet(messages[c]), ToSet(sent)) /\ InOrder(kind, messages[c])
      BY <1>3, <1>8, <1>9 DEF Ahead, WayInv
    <3>. QED  BY <1>2, <3>1, ConcatOrder
  <2>2. Ahead(kind, Past(c)', ToSet(messages'[c])) /\ Ahead(kind, ToSet(Kept(c)'), ToSet(messages'[c]))
    BY <1>3, <1>4, <1>5, <1>8, <1>9 DEF Ahead, WayInv
  <2>3. LanesAhead(kind, ToSet(triggered'[c]), Traced(ToSet(Kept(c)))')
    <3>1. Traced(ToSet(Kept(c)))' = Traced(ToSet(Kept(c)))
      BY <1>5 DEF Traced, Trace, Lane
    <3>. QED  BY <1>3, <3>1 DEF WayInv
  <2>4. Ahead(kind, Handled(c)', ToSet(emitted'))
    BY DEF Ahead
  <2>5. Ahead(kind, Handled(c)', Unexcluded(c)')
    BY <1>6, <1>8 DEF Ahead
  <2>6. Unexcluded(c)' = {e \in ToSet(buffered') : c \notin e.excluded}
    BY DEF Unexcluded
  <2>7. InOrder(kind, Kept(c)')
    BY <1>3, <1>5 DEF WayInv
  <2>. QED  BY <2>1, <2>2, <2>3, <2>4, <2>5, <2>6, <2>7 DEF WayInv
<1>11. ASSUME c \in online PROVE StampsInv(kind, c)'
  <2>1. \A m \in Current(c) \cup ToSet(sent) : m.id \in Nat /\ m.tick \in Nat /\ m.independent \in BOOLEAN
    <3>1. ToSet(sent) \subseteq Messages
      BY HasElements
    <3>. QED  BY <1>2, <3>1, MessageTyped DEF Current
  <2>2. \A m \in Current(c) : m.tick <= updateTick[c]
    BY <1>3, <1>11 DEF StampedInv
  <2>3. ASSUME NEW x \in Current(c) \cup ToSet(sent), NEW y \in Current(c) \cup ToSet(sent),
               kind = "Ordered", ~x.independent, ~y.independent, x.id < y.id
        PROVE  x.tick <= y.tick
    <3>1. CASE x \in Current(c) /\ y \in Current(c)
      BY <1>3, <1>11, <2>3, <3>1 DEF StampsInv
    <3>2. CASE x \in Current(c) /\ y \in ToSet(sent)
      <4>1. x.tick <= updateTick[c] /\ y.tick = stamp
        BY <2>2, <2>3, <3>2 DEF MaySend
      <4>. QED  BY <1>2, <2>1, <4>1
    <3>3. CASE x \in ToSet(sent) /\ y \in ToSet(sent)
      <4>1. x.tick = stamp /\ y.tick = stamp
        BY <2>3, <3>3 DEF MaySend
      <4>. QED  BY <4>1
    <3>4. CASE x \in ToSet(sent) /\ y \in Current(c)
      <4>1. Before(kind, y, x)
        BY <1>8, <1>9, <3>4 DEF Ahead
      <4>2. y.id < x.id
        BY <2>1, <2>3, <4>1 DEF Before
      <4>. QED  BY <2>1, <2>3, <4>2
    <3>. QED  BY <3>1, <3>2, <3>3, <3>4
  <2>. QED  BY <1>6, <2>3 DEF StampsInv
<1>. QED  BY <1>10, <1>11

\* What the server triggers itself was emitted.
LEMMA TriggeredLocallyHas ==
  ASSUME TypeOK
  PROVE  /\ TriggeredLocally \in [Everyone -> Seq(Traces)]
         /\ \A c \in Clients : TriggeredLocally[c] = triggered[c]
         /\ \E t \in Seq(Traces) :
              /\ TriggeredLocally[Server] = triggered[Server] \o t
              /\ Shown(ToSet(t), ToSet(emitted))
              /\ \A kind : InOrder(kind, emitted) => LanesInOrder(kind, t)
<1>. DEFINE X == {e \in ToSet(emitted) : Server \in e.to}
            S == Selected(emitted, X)
            t == [i \in DOMAIN S |-> <<<<S[i].independent, 0>>, S[i].id>>]
<1>1. emitted \in Seq(EventRecords) /\ triggered \in [Everyone -> Seq(Traces)]
  BY DEF TypeOK, Traces
<1>2. Server \in Everyone /\ \A c \in Clients : c \in Everyone /\ c # Server
  BY ServerAssumption DEF Everyone
<1>3. TriggeredLocally = [triggered EXCEPT ![Server] = @ \o t]
  BY DEF TriggeredLocally
<1>. HIDE DEF X
<1>4. /\ S \in Seq(EventRecords) /\ ToSet(S) = ToSet(emitted) \cap X
      /\ \A kind : InOrder(kind, emitted) => InOrder(kind, S)
  BY <1>1, SelectedHas, SelectedOrder
<1>. HIDE DEF S
<1>5. /\ t \in Seq(Traces)
      /\ Shown(ToSet(t), ToSet(S))
      /\ \A kind : InOrder(kind, S) => LanesInOrder(kind, t)
  <2>1. t = [i \in DOMAIN S |-> t[i]]
    OBVIOUS
  <2>2. \A i \in DOMAIN S : t[i] = <<<<S[i].independent, 0>>, S[i].id>>
    OBVIOUS
  <2>3. \A i \in DOMAIN S : S[i].independent \in BOOLEAN /\ S[i].id \in Ids
    <3>1. \A i \in DOMAIN S : S[i] \in EventRecords
      BY <1>4
    <3>. QED  BY <3>1 DEF EventRecords
  <2>. HIDE DEF t
  <2>4. \A f \in BOOLEAN, n \in Ids : <<<<f, 0>>, n>> \in Traces
    BY Bounds DEF Traces, Lanes
  <2>5. \A i \in DOMAIN S : t[i] \in Traces
    BY <2>2, <2>3, <2>4
  <2>6. \A i \in DOMAIN S : t[i][1][1] = S[i].independent /\ t[i][2] = S[i].id
    BY <2>2
  <2>7. MadeFrom(t, S, Traces)
    BY <2>1, <2>5 DEF MadeFrom
  <2>. QED  BY <1>4, <2>6, <2>7, TracesHave
<1>. HIDE DEF t
<1>6. triggered[Server] \o t \in Seq(Traces)
  BY <1>1, <1>2, <1>5, ConcatHas
<1>7. /\ TriggeredLocally \in [Everyone -> Seq(Traces)]
      /\ TriggeredLocally[Server] = triggered[Server] \o t
      /\ \A c \in Clients : TriggeredLocally[c] = triggered[c]
  BY <1>1, <1>2, <1>3, <1>6
<1>8. Shown(ToSet(t), ToSet(emitted))
  BY <1>4, <1>5 DEF Shown
<1>. QED  BY <1>4, <1>5, <1>7, <1>8

\* The server triggers events in order.
LEMMA ServerInOrder ==
  ASSUME NEW kind, IInv, OrderInv(kind), LanesInOrder(kind, triggered[Server]),
         triggered' = TriggeredLocally, ToSet(emitted') = {},
         InOrder(kind, emitted'), InOrder(kind, buffered'), lastId' = lastId
  PROVE  OrderInv(kind)' /\ LanesInOrder(kind, triggered'[Server])
<1>1. TypeOK
  BY DEF IInv
<1>2. PICK t \in Seq(Traces) :
        /\ triggered'[Server] = triggered[Server] \o t
        /\ Shown(ToSet(t), ToSet(emitted))
        /\ \A k : InOrder(k, emitted) => LanesInOrder(k, t)
  BY <1>1, TriggeredLocallyHas
<1>3. /\ Server \in Everyone /\ triggered[Server] \in Seq(Traces)
      /\ Shown(ToSet(triggered[Server]), Past(Server))
  <2>1. Server \in Everyone
    BY DEF Everyone
  <2>. QED  BY <1>1, <2>1, TriggeredTyped
<1>4. LanesAhead(kind, ToSet(triggered[Server]), ToSet(t))
  <2>1. Ahead(kind, Past(Server), ToSet(emitted))
    BY DEF OrderInv
  <2>. QED  BY <1>2, <1>3, <2>1, ShownAhead
<1>5. LanesInOrder(kind, triggered'[Server])
  BY <1>2, <1>3, <1>4, ConcatLanes DEF OrderInv
<1>6. \A c \in Clients : triggered'[c] = triggered[c]
  BY <1>1, TriggeredLocallyHas
<1>7. \A id \in Everyone : id = Server \/ id \in Clients
  BY DEF Everyone
<1>8. \A x \in ToSet(triggered'[Server]) : x[2] <= lastId
  <2>1. ToSet(triggered'[Server]) = ToSet(triggered[Server]) \cup ToSet(t)
    BY <1>2, <1>3, ConcatHas
  <2>2. \A e \in ToSet(emitted) : e.id <= lastId
    BY DEF IInv, EventsInv, Waiting
  <2>3. \A x \in ToSet(triggered[Server]) : x[2] <= lastId
    BY <1>3 DEF OrderInv
  <2>. QED  BY <1>2, <2>1, <2>2, <2>3 DEF Shown
<1>9. \A id \in Everyone : \A x \in ToSet(triggered'[id]) : x[2] <= lastId
  BY <1>6, <1>7, <1>8 DEF OrderInv
<1>10. /\ Ahead(kind, ToSet(buffered'), ToSet(emitted'))
       /\ Ahead(kind, Past(Server)', ToSet(emitted'))
  BY DEF Ahead
<1>11. OrderInv(kind)'
  BY <1>9, <1>10 DEF OrderInv
<1>. QED  BY <1>5, <1>11

\* Independent events may be sent at any time.
LEMMA IndependentMayBeSent ==
  ASSUME IInv, NEW c \in Clients
  PROVE  /\ SentTo(c, Independent, 0) \in Seq(Messages)
         /\ c \notin online => SentTo(c, Independent, 0) = <<>>
         /\ \A m \in ToSet(SentTo(c, Independent, 0)) : m.independent /\ m.tick = 0
         /\ \A stamp : MaySend(c, SentTo(c, Independent, 0), stamp)
         /\ \A kind : InOrder(kind, emitted) => InOrder(kind, SentTo(c, Independent, 0))
<1>. DEFINE sent == SentTo(c, Independent, 0)
<1>1. TypeOK
  BY DEF IInv
<1>2. /\ Independent \in Seq(EventRecords)
      /\ \A e \in ToSet(Independent) : e \in ToSet(emitted) /\ e.independent
      /\ \A kind : InOrder(kind, emitted) => InOrder(kind, Independent)
  BY <1>1, IndependentHas
<1>3. /\ sent \in Seq(Messages)
      /\ c \notin online => sent = <<>>
      /\ \A m \in ToSet(sent) : \E e \in ToSet(Independent) : m = Message(e, c, 0)
      /\ \A kind : InOrder(kind, Independent) => InOrder(kind, sent)
  BY <1>1, <1>2, Bounds, EventsAreSendable, SentToHas
<1>. HIDE DEF sent
<1>4. ASSUME NEW m \in ToSet(sent)
      PROVE  /\ m.independent /\ m.tick = 0 /\ m.since = since[c]
             /\ since[c] < m.id /\ m.id <= lastId
             /\ \E e \in Origin(c) : m.id = e.id /\ m.independent = e.independent
  <2>1. PICK e \in ToSet(Independent) : m = Message(e, c, 0)
    BY <1>3
  <2>2. m.id = e.id /\ m.independent = e.independent /\ m.tick = 0 /\ m.since = since[c]
    BY <2>1 DEF Message
  <2>3. e \in Origin(c) /\ e.independent
    BY <1>2 DEF Origin
  <2>4. e.id <= lastId /\ (c \in connected => since[c] < e.id)
    BY <2>3, OriginHas
  <2>5. c \in connected
    BY <1>1, <1>3, EmptyHas DEF TypeOK
  <2>. QED  BY <2>2, <2>3, <2>4, <2>5
<1>5. \A stamp : MaySend(c, sent, stamp)
  BY <1>4 DEF MaySend
<1>6. \A m \in ToSet(sent) : m.independent /\ m.tick = 0
  BY <1>4
<1>. QED  BY <1>2, <1>3, <1>5, <1>6 DEF sent

\* Buffered events may be sent with the stamp of a tick.
LEMMA BufferedMayBeSent ==
  ASSUME IInv, NEW c \in Clients, Stamp(c) \in Ticks
  PROVE  /\ SentBuffered(c) \in Seq(Messages)
         /\ c \notin online => SentBuffered(c) = <<>>
         /\ \A m \in ToSet(SentBuffered(c)) : ~m.independent /\ m.tick = Stamp(c)
         /\ MaySend(c, SentBuffered(c), Stamp(c))
         /\ \A kind : OrderInv(kind) => InOrder(kind, SentBuffered(c))
<1>. DEFINE sent == SentBuffered(c)
            stamp == Stamp(c)
<1>1. TypeOK
  BY DEF IInv
<1>2. /\ sent \in Seq(Messages)
      /\ c \notin online \/ c \notin replicated => sent = <<>>
      /\ \A m \in ToSet(sent) :
           \E b \in ToSet(Buffered) : c \notin b.excluded /\ m = Message(b, c, stamp)
      /\ \A kind : InOrder(kind, Buffered) => InOrder(kind, sent)
  BY <1>1, SentBufferedHas
<1>3. c \in replicated => seen[c] <= stamp
  BY StampHas
<1>4. seen[c] \in Nat /\ stamp \in Nat
  BY <1>1, ClientTyped, StampHas
<1>. HIDE DEF sent, stamp
<1>5. ASSUME NEW m \in ToSet(sent)
      PROVE  /\ ~m.independent /\ m.tick = stamp /\ m.need <= stamp /\ m.since = since[c]
             /\ since[c] < m.id /\ m.id <= lastId
             /\ \E e \in Origin(c) : m.id = e.id /\ m.independent = e.independent
  <2>1. PICK b \in ToSet(Buffered) : c \notin b.excluded /\ m = Message(b, c, stamp)
    BY <1>2
  <2>2. /\ m.id = b.id /\ m.independent = b.independent
        /\ m.need = b.need[c] /\ m.tick = stamp /\ m.since = since[c]
    BY <2>1 DEF Message
  <2>3. b.independent = FALSE
    BY <1>1, BufferedFrom
  <2>4. PICK e \in Origin(c) : b.id = e.id /\ b.independent = e.independent /\ b.need = e.need
    BY <1>1, <2>1, BufferedFrom
  <2>5. /\ e.id <= lastId /\ e.need[c] <= seen[c] /\ e.need[c] \in Nat
        /\ c \in connected => since[c] < e.id
    BY OriginHas
  <2>6. c \in replicated
    BY <1>2, EmptyHas
  <2>7. c \in connected
    BY <1>1, <2>6 DEF TypeOK
  <2>8. m.need <= stamp
    BY <1>3, <1>4, <2>2, <2>4, <2>5, <2>6
  <2>. QED  BY <2>2, <2>3, <2>4, <2>5, <2>7, <2>8
<1>6. MaySend(c, sent, stamp)
  BY <1>5 DEF MaySend
<1>7. \A m \in ToSet(sent) : ~m.independent /\ m.tick = stamp
  BY <1>5
<1>8. \A kind : OrderInv(kind) => InOrder(kind, sent)
  BY <1>1, <1>2, BufferedHas DEF OrderInv
<1>. QED  BY <1>2, <1>6, <1>7, <1>8 DEF sent, stamp

\* Nothing to send.
LEMMA NothingSent ==
  /\ \A S : <<>> \in Seq(S)
  /\ <<>> \o <<>> = <<>>
  /\ ToSet(<<>>) = {}
<1>1. \A S : <<>> \in Seq(S)
  OBVIOUS
<1>2. <<>> \o <<>> = <<>>
  OBVIOUS
<1>. QED  BY <1>1, <1>2, EmptyHas

\* A frame without a tick sends the independent events, and buffers the others.
LEMMA FrameStep ==
  ASSUME IInv, Frame
  PROVE  IInv'
<1>1. UNCHANGED <<channel, serverTick, seen, lastId, connected, replicated, synced, updateTick,
                  spare, updates, online, lastStatus, clientTick, queue, connects, since, joined,
                  inherited>>
  BY DEF Frame, history
<1>2. /\ emitted' = <<>> /\ buffered' = Buffered /\ triggered' = TriggeredLocally
      /\ messages' = [c \in Clients |-> messages[c] \o SentTo(c, Independent, 0)]
  BY DEF Frame
<1>3. TypeOK /\ serverTick \in Nat /\ lastId \in Nat
  BY ServerTyped DEF IInv
<1>4. ToSet(emitted') = {} /\ (\A kind : InOrder(kind, emitted')) /\ emitted' \in Seq(EventRecords)
  BY <1>2, NothingSent, EmptyOrder
<1>5. buffered' \in Seq(BufferedEvents)
  BY <1>2, <1>3, BufferedHas
<1>6. /\ triggered' \in [Everyone -> Seq(Traces)]
      /\ \A c \in Clients : triggered'[c] = triggered[c]
  BY <1>2, <1>3, TriggeredLocallyHas
<1>7. ASSUME NEW c \in Clients
      PROVE  /\ messages'[c] = messages[c] \o SentTo(c, Independent, 0)
             /\ messages[c] \o SentTo(c, Independent, 0) \in Seq(Messages)
  <2>1. messages[c] \in Seq(Messages) /\ SentTo(c, Independent, 0) \in Seq(Messages)
    BY <1>3, ClientTyped, IndependentMayBeSent
  <2>. QED  BY <1>2, <2>1, ConcatHas
<1>8. messages' \in [Clients -> Seq(Messages)]
  BY <1>2, <1>7
<1>9. TypeOK'
  BY <1>1, <1>3, <1>4, <1>5, <1>6, <1>8 DEF TypeOK, Traces
<1>10. ServerInv'
  BY <1>1 DEF IInv, ServerInv
<1>11. EventsInv'
  <2>1. Waiting' = ToSet(Buffered)
    BY <1>2, <1>4 DEF Waiting
  <2>2. ASSUME NEW b \in ToSet(Buffered)
        PROVE  b.id <= lastId /\ \A c \in Clients : b.need[c] <= seen[c]
    <3>1. PICK e \in Waiting : b.id = e.id /\ b.need = e.need
      BY <1>3, BufferedFrom
    <3>. QED  BY <3>1 DEF IInv, EventsInv
  <2>3. ASSUME NEW b \in ToSet(Buffered), NEW c \in connected, c \notin b.excluded
        PROVE  since[c] < b.id
    <3>1. PICK e \in Origin(c) : b.id = e.id
      BY <1>3, <2>3, BufferedFrom
    <3>2. c \in Clients
      BY <1>3 DEF TypeOK
    <3>. QED  BY <3>1, <3>2, OriginHas
  <2>. QED  BY <1>1, <1>2, <1>4, <2>1, <2>2, <2>3 DEF EventsInv
<1>12. ASSUME NEW c \in Clients PROVE ClientInv(c)'
  <2>. DEFINE sent == SentTo(c, Independent, 0)
  <2>1. ClientInv(c) /\ updateTick[c] \in Nat /\ clientTick[c] \in Nat
    BY <1>3, ClientTyped DEF IInv
  <2>2. /\ sent \in Seq(Messages) /\ (c \notin online => sent = <<>>)
        /\ \A m \in ToSet(sent) : m.independent /\ m.tick = 0
        /\ MaySend(c, sent, 0)
    BY IndependentMayBeSent
  <2>. HIDE DEF sent
  <2>3. messages'[c] = messages[c] \o sent
    BY <1>7 DEF sent
  <2>4. /\ MessagesInv(c)' /\ Current(c)' = Current(c) \cup ToSet(sent)
        /\ Stale(c)' = Stale(c) /\ Kept(c)' = Kept(c)
    <3>1. 0 \in Nat /\ 0 <= serverTick' /\ serverTick' \in Nat /\ serverTick <= serverTick'
      BY <1>1, <1>3
    <3>2. queue'[c] = queue[c] /\ UNCHANGED <<lastStatus, lastId, since, joined>>
      BY <1>1
    <3>. QED  BY <2>2, <2>3, <3>1, <3>2, SendsClient
  <2>5. UpdatesInv(c)' /\ StaleInv(c)'
    BY <1>1, <2>1, <2>4 DEF UpdatesInv, StaleInv, ClientInv
  <2>6. CASE c \in online
    <3>1. StampedInv(c) /\ ReachesInv(c)
      BY <2>1, <2>6 DEF ClientInv
    <3>2. \A m \in ToSet(sent) : m.tick <= updateTick[c] /\ Reaches(c, m.tick)
      BY <2>1, <2>2 DEF Reaches
    <3>3. StampedInv(c)' /\ ReachesInv(c)'
      BY <1>1, <2>4, <3>1, <3>2 DEF StampedInv, ReachesInv, Reaches
    <3>. QED  BY <1>1, <2>4, <2>5, <2>6, <3>3 DEF ClientInv
  <2>7. CASE c \notin online
    <3>1. messages[c] = <<>> /\ updates[c] = <<>>
      BY <2>1, <2>7 DEF ClientInv, OfflineInv
    <3>2. messages'[c] = <<>>
      BY <2>2, <2>3, <2>7, <3>1, NothingSent
    <3>. QED  BY <1>1, <2>4, <2>5, <2>7, <3>1, <3>2 DEF ClientInv, OfflineInv
  <2>. QED  BY <2>6, <2>7
<1>13. ASSUME NEW kind, OrderInv(kind), LanesInOrder(kind, triggered[Server])
       PROVE  OrderInv(kind)' /\ LanesInOrder(kind, triggered'[Server])
  <2>1. InOrder(kind, buffered')
    BY <1>2, <1>3, <1>13, BufferedHas DEF OrderInv
  <2>. QED  BY <1>1, <1>2, <1>4, <1>13, <2>1, ServerInOrder
<1>14. LocalInv'
  BY <1>13 DEF IInv, LocalInv
<1>15. ASSUME NEW kind, channel = kind PROVE OrderedInv(kind)'
  <2>0. OrderedInv(kind)
    BY <1>15 DEF IInv
  <2>2. OrderInv(kind)' /\ \A id \in Everyone : LanesInOrder(kind, triggered'[id])
    <3>1. Server \in Everyone /\ \A id \in Everyone : id # Server => id \in Clients
      BY DEF Everyone
    <3>2. \A c \in Clients : triggered'[c] = triggered[c]
      BY <1>2, <1>3, TriggeredLocallyHas
    <3>. QED  BY <1>13, <2>0, <3>1, <3>2 DEF OrderedInv
  <2>3. ASSUME NEW c \in Clients PROVE WayInv(kind, c)' /\ (c \in online => StampsInv(kind, c)')
    <3>. DEFINE sent == SentTo(c, Independent, 0)
    <3>2. updateTick[c] \in Nat /\ updateTick[c] <= updateTick[c]
      BY <1>3, ClientTyped
    <3>3. /\ sent \in Seq(Messages) /\ MaySend(c, sent, updateTick[c]) /\ InOrder(kind, sent)
          /\ \A m \in ToSet(sent) : m.independent /\ m.tick = 0
      BY <2>0, IndependentMayBeSent DEF OrderedInv, OrderInv
    <3>. HIDE DEF sent
    <3>4. /\ messages'[c] = messages[c] \o sent /\ queue'[c] = queue[c] /\ triggered'[c] = triggered[c]
          /\ UNCHANGED <<lastStatus, since>>
      BY <1>1, <1>6, <1>7 DEF sent
    <3>5. Unexcluded(c)' = {b \in ToSet(Buffered) : c \notin b.excluded}
      BY <1>2 DEF Unexcluded
    <3>6. Among(Unexcluded(c)', Origin(c))
      <4>1. ASSUME NEW b \in Unexcluded(c)'
            PROVE  \E e \in Origin(c) : e.id = b.id /\ e.independent = b.independent
        <5>1. b \in ToSet(Buffered) /\ c \notin b.excluded
          BY <3>5
        <5>2. \E e \in Origin(c) : b.id = e.id /\ b.independent = e.independent /\ b.need = e.need
          BY <1>3, <5>1, BufferedFrom
        <5>. QED  BY <5>2
      <4>. QED  BY <4>1 DEF Among
    <3>7. Ahead(kind, ToSet(sent), Unexcluded(c)')
      <4>1. \A b \in Unexcluded(c)' : b.independent = FALSE
        BY <1>3, <3>5, BufferedFrom
      <4>. QED  BY <3>3, <4>1 DEF Ahead, Before
    <3>. QED  BY <1>4, <2>0, <3>2, <3>3, <3>4, <3>6, <3>7, SendsInOrder
  <2>4. online \subseteq Clients
    BY <1>3 DEF TypeOK
  <2>. QED  BY <1>1, <2>2, <2>3, <2>4 DEF OrderedInv
<1>. QED  BY <1>1, <1>9, <1>10, <1>11, <1>12, <1>14, <1>15 DEF IInv

\* A tick sends update messages, and the buffered events with their stamps.
LEMMA TickStep ==
  ASSUME IInv, Tick
  PROVE  IInv'
<1>1. UNCHANGED <<channel, seen, lastId, connected, replicated, spare, online, lastStatus,
                  clientTick, queue, connects, since, joined>>
  BY DEF Tick
<1>2. /\ serverTick < MaxTick /\ serverTick' = serverTick + 1 /\ synced' = replicated
      /\ updateTick' = [c \in Clients |-> UpdateTickAfter(c)]
      /\ inherited' = {c \in inherited : ~HasUpdate(c)}
      /\ updates' = [c \in Clients |-> IF HasUpdate(c) /\ c \in online
                                       THEN Append(updates[c], serverTick') ELSE updates[c]]
      /\ emitted' = <<>> /\ buffered' = <<>> /\ triggered' = TriggeredLocally
      /\ messages' = [c \in Clients |->
                        messages[c] \o SentTo(c, Independent, 0) \o SentBuffered(c)]
  BY DEF Tick
<1>3. TypeOK /\ serverTick \in Nat /\ lastId \in Nat
  BY ServerTyped DEF IInv
<1>4. serverTick + 1 \in Ticks /\ serverTick + 1 \in Nat
  BY <1>2, <1>3, BoundsAssumption DEF Ticks
<1>5. ASSUME NEW c \in Clients
      PROVE  /\ updateTick'[c] = Stamp(c) /\ Stamp(c) \in Ticks /\ Stamp(c) \in Nat
             /\ updateTick[c] \in Nat /\ updateTick[c] <= Stamp(c) /\ Stamp(c) <= serverTick + 1
             /\ HasUpdate(c) => Stamp(c) = serverTick + 1
             /\ ~HasUpdate(c) => Stamp(c) = updateTick[c]
  <2>1. updateTick[c] \in Ticks /\ updateTick[c] \in Nat
    BY <1>3, Bounds DEF TypeOK
  <2>2. /\ Stamp(c) = UpdateTickAfter(c) /\ Stamp(c) \in Nat
        /\ updateTick[c] <= Stamp(c) /\ Stamp(c) <= serverTick + 1
        /\ HasUpdate(c) => Stamp(c) = serverTick + 1
        /\ ~HasUpdate(c) => Stamp(c) = updateTick[c]
    BY StampHas
  <2>3. Stamp(c) \in Ticks
    BY <1>4, <2>1, <2>2
  <2>. QED  BY <1>2, <2>1, <2>2, <2>3
<1>6. ASSUME NEW c \in Clients
      PROVE  /\ SentTo(c, Independent, 0) \o SentBuffered(c) \in Seq(Messages)
             /\ messages'[c] = messages[c] \o (SentTo(c, Independent, 0) \o SentBuffered(c))
             /\ messages'[c] \in Seq(Messages)
             /\ ToSet(SentTo(c, Independent, 0) \o SentBuffered(c)) =
                  ToSet(SentTo(c, Independent, 0)) \cup ToSet(SentBuffered(c))
  <2>. DEFINE a == SentTo(c, Independent, 0)
              b == SentBuffered(c)
              m == messages[c]
  <2>1. a \in Seq(Messages) /\ b \in Seq(Messages) /\ m \in Seq(Messages)
    BY <1>3, <1>5, ClientTyped, IndependentMayBeSent, BufferedMayBeSent
  <2>2. messages'[c] = m \o a \o b
    BY <1>2
  <2>. HIDE DEF a, b, m
  <2>3. m \o a \o b = m \o (a \o b)
    BY <2>1, ConcatAssociative
  <2>4. a \o b \in Seq(Messages) /\ ToSet(a \o b) = ToSet(a) \cup ToSet(b)
    BY <2>1, ConcatHas
  <2>5. m \o (a \o b) \in Seq(Messages)
    BY <2>1, <2>4
  <2>. QED  BY <2>2, <2>3, <2>4, <2>5 DEF a, b, m
<1>7. /\ ToSet(emitted') = {} /\ (\A kind : InOrder(kind, emitted')) /\ emitted' \in Seq(EventRecords)
      /\ ToSet(buffered') = {} /\ (\A kind : InOrder(kind, buffered')) /\ buffered' \in Seq(BufferedEvents)
  BY <1>2, NothingSent, EmptyOrder
<1>8. /\ triggered' \in [Everyone -> Seq(Traces)]
      /\ \A c \in Clients : triggered'[c] = triggered[c]
  BY <1>2, <1>3, TriggeredLocallyHas
<1>9. ASSUME NEW c \in Clients
      PROVE  /\ updates[c] \in Seq(Ticks)
             /\ updates'[c] = IF HasUpdate(c) /\ c \in online
                              THEN Append(updates[c], serverTick + 1) ELSE updates[c]
             /\ updates'[c] \in Seq(Ticks)
  <2>1. updates[c] \in Seq(Ticks)
    BY <1>3, ClientTyped
  <2>2. Append(updates[c], serverTick + 1) \in Seq(Ticks)
    BY <1>4, <2>1
  <2>. QED  BY <1>2, <2>1, <2>2
<1>10. TypeOK'
  <2>1. messages' \in [Clients -> Seq(Messages)]
    BY <1>2, <1>6
  <2>2. updates' \in [Clients -> Seq(Ticks)]
    BY <1>2, <1>9
  <2>3. updateTick' \in [Clients -> Ticks]
    BY <1>2, <1>5
  <2>4. inherited' \subseteq Clients
    BY <1>2, <1>3 DEF TypeOK
  <2>5. /\ connected' \subseteq Clients /\ replicated' \subseteq connected'
        /\ synced' \subseteq replicated' /\ online' \subseteq connected'
    BY <1>1, <1>2, <1>3 DEF TypeOK
  <2>. QED  BY <1>1, <1>2, <1>3, <1>4, <1>7, <1>8, <2>1, <2>2, <2>3, <2>4, <2>5 DEF TypeOK, Traces
<1>11. ServerInv'
  <2>1. ServerInv
    BY DEF IInv
  <2>2. ASSUME NEW c \in Clients
        PROVE  /\ seen[c] <= serverTick' + 1
               /\ updateTick'[c] <= serverTick'
               /\ c \notin replicated => updateTick'[c] = 0
               /\ c \in replicated => seen[c] <= updateTick'[c]
               /\ joined[c] <= since[c] /\ since[c] <= lastId
    <3>1. /\ seen[c] \in Nat /\ seen[c] <= serverTick + 1
          /\ joined[c] <= since[c] /\ since[c] <= lastId
      BY <1>3, <2>1, ClientTyped DEF ServerInv
    <3>2. seen[c] <= serverTick' + 1
      BY <1>2, <1>3, <3>1
    <3>3. c \notin replicated => ~HasUpdate(c) /\ updateTick[c] = 0
      BY <2>1 DEF HasUpdate, ServerInv
    <3>4. c \in replicated => seen[c] <= Stamp(c)
      BY StampHas
    <3>. QED  BY <1>2, <1>5, <3>1, <3>2, <3>3, <3>4
  <2>3. \A t \in ToSet(spare') : t <= serverTick'
    <3>1. \A t \in ToSet(spare) : t \in Nat
      <4>1. spare \in Seq(Ticks)
        BY <1>3 DEF TypeOK
      <4>. QED  BY <4>1, HasElements, Bounds
    <3>. QED  BY <1>1, <1>2, <1>3, <2>1, <3>1 DEF ServerInv
  <2>. QED  BY <1>1, <1>2, <2>2, <2>3 DEF ServerInv
<1>12. EventsInv'
  BY <1>7 DEF EventsInv, Waiting
<1>13. ASSUME NEW c \in Clients
       PROVE  MaySend(c, SentTo(c, Independent, 0) \o SentBuffered(c), Stamp(c))
  <2>1. MaySend(c, SentTo(c, Independent, 0), Stamp(c)) /\ MaySend(c, SentBuffered(c), Stamp(c))
    BY <1>5, IndependentMayBeSent, BufferedMayBeSent
  <2>. QED  BY <1>6, <2>1 DEF MaySend
<1>14. ASSUME NEW c \in Clients PROVE ClientInv(c)'
  <2>. DEFINE sent == SentTo(c, Independent, 0) \o SentBuffered(c)
              u == updates[c]
              n == Len(u)
  <2>1. ClientInv(c) /\ clientTick[c] \in Nat /\ clientTick[c] <= serverTick
    BY <1>3, ClientTyped DEF IInv, ClientInv, UpdatesInv
  <2>2. sent \in Seq(Messages) /\ messages'[c] = messages[c] \o sent
    BY <1>6
  <2>3. MaySend(c, sent, Stamp(c))
    BY <1>13
  <2>4. n \in Nat /\ \A i \in 1..n : u[i] \in Nat
    <3>1. u \in Seq(Ticks)
      BY <1>9
    <3>2. n \in Nat
      BY <3>1
    <3>. QED  BY <1>3, <3>2, ClientTyped
  <2>5. /\ \A i \in 1..n : clientTick[c] <= u[i] /\ u[i] <= serverTick
        /\ \A i, j \in 1..n : i < j => u[i] <= u[j]
    BY <2>1 DEF ClientInv, UpdatesInv
  <2>6. HasUpdate(c) /\ c \in online =>
          /\ Len(updates'[c]) = n + 1 /\ updates'[c][n + 1] = serverTick + 1
          /\ \A i \in 1..n : updates'[c][i] = u[i]
    <3>. HIDE DEF u
    <3>1. /\ Len(Append(u, serverTick + 1)) = n + 1
          /\ Append(u, serverTick + 1)[n + 1] = serverTick + 1
          /\ \A i \in 1..n : Append(u, serverTick + 1)[i] = u[i]
      BY <1>9 DEF u
    <3>. QED  BY <1>9, <3>1 DEF u
  <2>. HIDE DEF sent, u, n
  <2>7. UpdatesInv(c)'
    <3>1. CASE HasUpdate(c) /\ c \in online
      <4>1. \A i \in 1..(n + 1) : i \in 1..n \/ i = n + 1
        BY <2>4
      <4>2. ASSUME NEW i \in 1..(n + 1)
            PROVE  clientTick[c] <= updates'[c][i] /\ updates'[c][i] <= serverTick + 1
        <5>1. CASE i \in 1..n
          BY <1>3, <2>4, <2>5, <2>6, <3>1, <5>1
        <5>2. CASE i = n + 1
          BY <1>3, <2>1, <2>6, <3>1, <5>2
        <5>. QED  BY <4>1, <5>1, <5>2
      <4>3. ASSUME NEW i \in 1..(n + 1), NEW j \in 1..(n + 1), i < j
            PROVE  updates'[c][i] <= updates'[c][j]
        <5>1. i \in 1..n
          BY <2>4, <4>3
        <5>2. CASE j \in 1..n
          BY <2>5, <2>6, <3>1, <4>3, <5>1, <5>2
        <5>3. CASE j = n + 1
          BY <1>3, <2>4, <2>5, <2>6, <3>1, <5>1, <5>3
        <5>. QED  BY <4>1, <5>2, <5>3
      <4>4. clientTick[c] <= serverTick + 1
        BY <1>3, <2>1
      <4>. QED  BY <1>1, <1>2, <2>6, <3>1, <4>2, <4>3, <4>4 DEF UpdatesInv
    <3>2. CASE ~(HasUpdate(c) /\ c \in online)
      <4>1. updates'[c] = u
        BY <1>9, <3>2 DEF u
      <4>2. clientTick[c] <= serverTick + 1 /\ \A i \in 1..n : u[i] <= serverTick + 1
        BY <1>3, <2>1, <2>4, <2>5
      <4>. QED  BY <1>1, <1>2, <2>5, <4>1, <4>2 DEF UpdatesInv, n
    <3>. QED  BY <3>1, <3>2
  <2>8. /\ MessagesInv(c)' /\ Current(c)' = Current(c) \cup ToSet(sent)
        /\ Stale(c)' = Stale(c) /\ Kept(c)' = Kept(c)
    <3>1. /\ Stamp(c) \in Nat /\ Stamp(c) <= serverTick'
          /\ serverTick' \in Nat /\ serverTick <= serverTick'
      BY <1>2, <1>3, <1>4, <1>5
    <3>2. queue'[c] = queue[c] /\ UNCHANGED <<lastStatus, lastId, since, joined>>
      BY <1>1
    <3>. QED  BY <2>2, <2>3, <3>1, <3>2, SendsClient
  <2>9. StaleInv(c)'
    <3>1. StaleInv(c)
      BY <2>1 DEF ClientInv
    <3>2. ASSUME NEW x \in Stale(c) PROVE \A i \in 1..Len(updates'[c]) : x.tick <= updates'[c][i]
      <4>1. \A i \in 1..n : x.tick <= u[i]
        BY <3>1 DEF StaleInv, u, n
      <4>2. x \in OnTheirWay(c) /\ x.tick \in Nat
        BY <1>3, ClientTyped, MessageTyped DEF Stale, OnTheirWay
      <4>3. x.tick <= serverTick + 1
        BY <1>3, <2>1, <4>2 DEF ClientInv, MessagesInv
      <4>4. CASE HasUpdate(c) /\ c \in online
        <5>1. \A i \in 1..(n + 1) : i \in 1..n \/ i = n + 1
          BY <2>4
        <5>. QED  BY <2>6, <4>1, <4>3, <4>4, <5>1
      <4>5. CASE ~(HasUpdate(c) /\ c \in online)
        BY <1>9, <4>1, <4>5 DEF u, n
      <4>. QED  BY <4>4, <4>5
    <3>. QED  BY <1>1, <2>8, <3>1, <3>2 DEF StaleInv
  <2>10. CASE c \in online
    <3>1. StampedInv(c) /\ ReachesInv(c)
      BY <2>1, <2>10 DEF ClientInv
    <3>2. \A m \in ToSet(sent) : m.tick = 0 \/ m.tick = Stamp(c)
      BY <2>3 DEF MaySend
    <3>3. StampedInv(c)'
      <4>1. \A m \in Current(c) : m.tick \in Nat
        BY <1>3, ClientTyped, MessageTyped DEF Current
      <4>2. \A m \in Current(c) \cup ToSet(sent) : m.tick <= Stamp(c)
        BY <1>5, <3>1, <3>2, <4>1 DEF StampedInv
      <4>. QED  BY <1>5, <2>8, <4>2 DEF StampedInv
    <3>4. ReachesInv(c)'
      <4>1. CASE HasUpdate(c)
        <5>1. n + 1 \in 1..Len(updates'[c]) /\ updates'[c][n + 1] = updateTick'[c]
          BY <1>5, <2>4, <2>6, <2>10, <4>1
        <5>2. updateTick'[c] \in Nat
          BY <1>5
        <5>. QED  BY <3>3, <5>1, <5>2 DEF StampedInv, ReachesInv, Reaches
      <4>2. CASE ~HasUpdate(c)
        <5>1. c \notin inherited' => c \notin inherited
          BY <1>2, <4>2
        <5>2. c \notin inherited =>
                Reaches(c, updateTick[c]) /\ \A m \in Current(c) : Reaches(c, m.tick)
          BY <3>1 DEF ReachesInv
        <5>3. \A m \in ToSet(sent) : m.tick = 0 \/ m.tick = updateTick[c]
          BY <1>5, <3>2, <4>2
        <5>4. Reaches(c, 0)
          BY <2>1 DEF Reaches
        <5>5. \A t : Reaches(c, t) =>
                t <= clientTick'[c] \/ \E i \in 1..Len(updates'[c]) : t <= updates'[c][i]
          BY <1>1, <1>9, <4>2 DEF Reaches
        <5>6. updateTick'[c] = updateTick[c]
          BY <1>5, <4>2
        <5>7. c \notin inherited' =>
                /\ Reaches(c, updateTick'[c])
                /\ \A m \in Current(c)' : Reaches(c, m.tick)
          BY <2>8, <5>1, <5>2, <5>3, <5>4, <5>6
        <5>8. c \notin inherited' =>
                /\ updateTick'[c] <= clientTick'[c]
                     \/ \E i \in 1..Len(updates'[c]) : updateTick'[c] <= updates'[c][i]
                /\ \A m \in Current(c)' :
                     m.tick <= clientTick'[c] \/ \E i \in 1..Len(updates'[c]) : m.tick <= updates'[c][i]
          BY <5>5, <5>7
        <5>. QED  BY <5>8 DEF ReachesInv, Reaches
      <4>. QED  BY <4>1, <4>2
    <3>. QED  BY <1>1, <2>7, <2>8, <2>9, <2>10, <3>3, <3>4 DEF ClientInv
  <2>11. CASE c \notin online
    <3>1. messages[c] = <<>> /\ updates[c] = <<>>
      BY <2>1, <2>11 DEF ClientInv, OfflineInv
    <3>2. SentTo(c, Independent, 0) = <<>> /\ SentBuffered(c) = <<>>
      BY <1>5, <2>11, IndependentMayBeSent, BufferedMayBeSent
    <3>3. messages'[c] = <<>>
      BY <2>2, <3>1, <3>2, NothingSent DEF sent
    <3>4. updates'[c] = <<>>
      BY <1>9, <2>11, <3>1
    <3>. QED  BY <1>1, <2>7, <2>8, <2>9, <2>11, <3>3, <3>4 DEF ClientInv, OfflineInv
  <2>. QED  BY <2>10, <2>11
<1>15. ASSUME NEW kind, OrderInv(kind), LanesInOrder(kind, triggered[Server])
       PROVE  OrderInv(kind)' /\ LanesInOrder(kind, triggered'[Server])
  BY <1>1, <1>2, <1>7, <1>15, ServerInOrder
<1>16. LocalInv'
  BY <1>15 DEF IInv, LocalInv
<1>17. ASSUME NEW kind, channel = kind PROVE OrderedInv(kind)'
  <2>0. OrderedInv(kind)
    BY <1>17 DEF IInv
  <2>1. OrderInv(kind)' /\ \A id \in Everyone : LanesInOrder(kind, triggered'[id])
    <3>1. Server \in Everyone /\ \A id \in Everyone : id # Server => id \in Clients
      BY DEF Everyone
    <3>2. \A c \in Clients : triggered'[c] = triggered[c]
      BY <1>2, <1>3, TriggeredLocallyHas
    <3>. QED  BY <1>15, <2>0, <3>1, <3>2 DEF OrderedInv
  <2>2. ASSUME NEW c \in Clients PROVE WayInv(kind, c)' /\ (c \in online => StampsInv(kind, c)')
    <3>. DEFINE a == SentTo(c, Independent, 0)
                b == SentBuffered(c)
                sent == a \o b
    <3>2. Stamp(c) \in Nat /\ updateTick[c] <= Stamp(c)
      BY <1>5
    <3>3. a \in Seq(Messages) /\ InOrder(kind, a) /\ \A m \in ToSet(a) : m.independent
      BY <2>0, IndependentMayBeSent DEF OrderedInv, OrderInv
    <3>4. b \in Seq(Messages) /\ InOrder(kind, b) /\ \A m \in ToSet(b) : ~m.independent
      BY <1>5, <2>0, BufferedMayBeSent DEF OrderedInv
    <3>5. MaySend(c, sent, Stamp(c)) /\ sent \in Seq(Messages) /\ messages'[c] = messages[c] \o sent
      BY <1>6, <1>13
    <3>. HIDE DEF a, b
    <3>6. InOrder(kind, sent)
      <4>1. Ahead(kind, ToSet(a), ToSet(b))
        BY <3>3, <3>4 DEF Ahead, Before
      <4>. QED  BY <3>3, <3>4, <4>1, ConcatOrder
    <3>. HIDE DEF sent
    <3>7. Unexcluded(c)' = {}
      BY <1>7 DEF Unexcluded
    <3>8. Among(Unexcluded(c)', Origin(c)) /\ Ahead(kind, ToSet(sent), Unexcluded(c)')
      BY <3>7 DEF Among, Ahead
    <3>9. queue'[c] = queue[c] /\ triggered'[c] = triggered[c] /\ UNCHANGED <<lastStatus, since>>
      BY <1>1, <1>8
    <3>. QED  BY <1>7, <2>0, <3>2, <3>5, <3>6, <3>8, <3>9, SendsInOrder
  <2>3. online \subseteq Clients
    BY <1>3 DEF TypeOK
  <2>. QED  BY <1>1, <2>1, <2>2, <2>3 DEF OrderedInv
<1>. QED  BY <1>1, <1>10, <1>11, <1>12, <1>14, <1>16, <1>17 DEF IInv

-----------------------------------------------------------------------------
(* The stream of events.                                                   *)

\* A sequence is a prefix of one that has its elements at its places.
LEMMA PrefixIs ==
  ASSUME NEW S, NEW s \in Seq(S), NEW t \in Seq(S), Len(s) <= Len(t),
         \A i \in 1..Len(s) : t[i] = s[i]
  PROVE  Stream!IsPrefix(s, t)
<1>1. ASSUME NEW n \in 0..Len(t)
      PROVE  SubSeq(t, 1, n) \in [1..n -> S] /\ \A i \in 1..n : SubSeq(t, 1, n)[i] = t[i]
  <2>1. SubSeq(t, 1, n) = [i \in 1..n |-> t[i]]
    OBVIOUS
  <2>2. \A i \in 1..n : t[i] \in S
    OBVIOUS
  <2>. QED  BY <2>1, <2>2
<1>2. Len(s) \in 0..Len(t) /\ s \in [1..Len(s) -> S]
  <2>1. Len(s) \in Nat /\ Len(t) \in Nat
    OBVIOUS
  <2>2. \A q \in Seq(S) : q \in [1..Len(q) -> S]
    OBVIOUS
  <2>. QED  BY <2>1, <2>2
<1>3. SubSeq(t, 1, Len(s)) \in [1..Len(s) -> S]
      /\ \A i \in 1..Len(s) : SubSeq(t, 1, Len(s))[i] = s[i]
  BY <1>1, <1>2
<1>. DEFINE u == SubSeq(t, 1, Len(s))
<1>. HIDE DEF u
<1>4. u = s
  BY <1>2, <1>3 DEF u
<1>5. SubSeq(s, 1, Len(s)) = s
  OBVIOUS
<1>. QED  BY <1>4, <1>5 DEF Stream!IsPrefix, u

\* From one sequence to the next, a reader reads on.
ReadsOn(id, q, r) ==
  /\ Stream!IsPrefix(q, r)
  /\ \A i \in DOMAIN r : i > Len(q) =>
       /\ r[i][2] \in (Joined(id) + 1)..lastId
       /\ \A j \in 1..(i - 1) : Stream!Follows(id, r[j], r[i])

\* It does if what is added is new to it, and in order.
LEMMA OrderReadsOn ==
  ASSUME NEW id \in Everyone, NEW kind, kind = "Ordered" <=> id \notin Unordered,
         NEW a \in Seq(Traces), NEW b \in Seq(Traces), Joined(id) \in Nat, lastId \in Nat,
         LanesInOrder(kind, a \o b), \A x \in ToSet(b) : Joined(id) < x[2] /\ x[2] <= lastId
  PROVE  ReadsOn(id, a, a \o b)
<1>. DEFINE r == a \o b
<1>1. /\ Len(a) \in Nat /\ Len(b) \in Nat /\ r \in Seq(Traces) /\ Len(r) = Len(a) + Len(b)
      /\ \A i \in 1..Len(a) : r[i] = a[i]
      /\ \A i \in 1..Len(b) : r[i + Len(a)] = b[i]
  OBVIOUS
<1>2. \A i \in 1..Len(b) : b[i] \in ToSet(b)
  BY HasElements
<1>3. LanesInOrder(kind, r)
  OBVIOUS
<1>. HIDE DEF r
<1>4. Stream!IsPrefix(a, r)
  BY <1>1, PrefixIs
<1>5. ASSUME NEW i \in DOMAIN r, i > Len(a)
      PROVE  /\ r[i][2] \in (Joined(id) + 1)..lastId
             /\ \A j \in 1..(i - 1) : Stream!Follows(id, r[j], r[i])
  <2>1. i \in 1..Len(r)
    BY <1>1
  <2>2. i - Len(a) \in 1..Len(b) /\ i = (i - Len(a)) + Len(a)
    BY <1>1, <1>5, <2>1
  <2>3. r[i] = b[i - Len(a)]
    BY <1>1, <2>2
  <2>4. Joined(id) < r[i][2] /\ r[i][2] <= lastId
    BY <1>2, <2>2, <2>3
  <2>5. r[i][2] \in Nat
    <3>1. r[i] \in Traces
      BY <1>1, <2>1
    <3>. QED  BY <3>1, TraceTyped
  <2>6. r[i][2] \in (Joined(id) + 1)..lastId
    BY <2>4, <2>5
  <2>7. ASSUME NEW j \in 1..(i - 1) PROVE Stream!Follows(id, r[j], r[i])
    <3>1. j \in 1..Len(r) /\ j < i
      BY <1>1, <2>1, <2>7
    <3>2. Follows(kind, r[j], r[i])
      BY <1>3, <2>1, <3>1 DEF LanesInOrder
    <3>. QED  BY <3>2 DEF Follows, Stream!Follows
  <2>. QED  BY <2>6, <2>7
<1>. QED  BY <1>4, <1>5 DEF ReadsOn, r

\* What is triggered in a step is new to the reader.
IsNew(id) ==
  \E t \in Seq(Traces) :
    /\ triggered'[id] = triggered[id] \o t
    /\ \A x \in ToSet(t) : Joined(id) < x[2] /\ x[2] <= lastId

\* So it is if nothing is triggered.
LEMMA NoneIsNew ==
  ASSUME TypeOK, NEW id \in Everyone, triggered'[id] = triggered[id]
  PROVE  IsNew(id)
<1>1. triggered[id] \in Seq(Traces) /\ <<>> \in Seq(Traces)
  BY TriggeredTyped, NothingSent
<1>2. triggered[id] \o <<>> = triggered[id]
  BY <1>1
<1>3. \A x \in ToSet(<<>>) : Joined(id) < x[2] /\ x[2] <= lastId
  BY NothingSent
<1>. QED  BY <1>1, <1>2, <1>3 DEF IsNew

\* The server triggers what was emitted in this frame.
LEMMA ServerIsNew ==
  ASSUME IInv, NEW id \in Everyone, triggered' = TriggeredLocally
  PROVE  IsNew(id)
<1>1. TypeOK /\ EventsInv
  BY DEF IInv
<1>2. CASE id = Server
  <2>1. PICK t \in Seq(Traces) :
          triggered'[Server] = triggered[Server] \o t /\ Shown(ToSet(t), ToSet(emitted))
    BY <1>1, TriggeredLocallyHas
  <2>2. ASSUME NEW x \in ToSet(t) PROVE Joined(Server) < x[2] /\ x[2] <= lastId
    <3>1. PICK e \in ToSet(emitted) : x[2] = e.id
      BY <2>1 DEF Shown
    <3>2. e.id <= lastId
      BY <1>1, <3>1 DEF EventsInv, Waiting
    <3>3. x[2] \in Ids
      BY HasElements, TraceTyped
    <3>4. 0 < x[2]
      BY <3>3 DEF Ids
    <3>. QED  BY <3>1, <3>2, <3>4 DEF Joined
  <2>. QED  BY <1>2, <2>1, <2>2 DEF IsNew
<1>3. CASE id \in Clients
  <2>1. triggered'[id] = triggered[id]
    BY <1>1, <1>3, TriggeredLocallyHas
  <2>. QED  BY <1>1, <2>1, NoneIsNew
<1>. QED  BY <1>2, <1>3 DEF Everyone

\* A client triggers what was on its way, none of it older than the connection that
\* a frame of its noticed.
LEMMA ClientIsNew ==
  ASSUME IInv, NEW id \in Everyone, NEW c \in Clients, NEW i \in 0..Len(messages[c]),
         ReceiveEvents(c, i)
  PROVE  IsNew(id)
<1>. DEFINE T == Taken(c, i)
<1>1. TypeOK /\ lastStatus[c] = "Connected" /\ c \in Everyone /\ c # Server
  BY ServerAssumption DEF IInv, ReceiveEvents, Receives, Everyone
<1>2. triggered' = [triggered EXCEPT ![c] = @ \o Triggers(T)] /\ DOMAIN triggered = Everyone
  BY <1>1 DEF ReceiveEvents, Taken, QueueFirst, TypeOK
<1>3. T \in Seq(Messages) /\ ToSet(T) \subseteq OnTheirWay(c)
  BY <1>1, ReceivedHas
<1>. HIDE DEF T
<1>4. Triggers(T) \in Seq(Traces) /\ Shown(ToSet(Triggers(T)), ToSet(T))
  BY <1>3, TriggersHas
<1>5. ASSUME NEW e \in OnTheirWay(c) PROVE joined[c] < e.id /\ e.id <= lastId
  <2>1. MessagesInv(c) /\ joined[c] <= since[c]
    BY DEF IInv, ClientInv, ServerInv
  <2>2. joined[c] \in Nat /\ since[c] \in Nat /\ e.id \in Nat
    BY <1>1, ClientTyped, MessageTyped
  <2>3. CASE e \in ToSet(messages[c])
    <3>1. since[c] < e.id
      BY <2>1, <2>3 DEF MessagesInv
    <3>. QED  BY <2>1, <2>2, <3>1 DEF MessagesInv
  <2>4. CASE e \in ToSet(Kept(c))
    BY <2>1, <2>4 DEF MessagesInv
  <2>. QED  BY <2>3, <2>4 DEF OnTheirWay
<1>6. CASE id = c
  <2>1. ASSUME NEW x \in ToSet(Triggers(T)) PROVE Joined(c) < x[2] /\ x[2] <= lastId
    <3>1. PICK e \in ToSet(T) : x[2] = e.id
      BY <1>4 DEF Shown
    <3>. QED  BY <1>1, <1>3, <1>5, <3>1 DEF Joined
  <2>2. triggered'[c] = triggered[c] \o Triggers(T)
    BY <1>1, <1>2
  <2>. QED  BY <1>4, <1>6, <2>1, <2>2 DEF IsNew
<1>7. CASE id # c
  <2>1. triggered'[id] = triggered[id]
    BY <1>2, <1>7
  <2>. QED  BY <1>1, <2>1, NoneIsNew
<1>. QED  BY <1>6, <1>7

-----------------------------------------------------------------------------
(* Theorems.                                                               *)

\* A step that changes nothing.
LEMMA StutterStep ==
  ASSUME IInv, UNCHANGED vars
  PROVE  IInv'
<1>. USE DEF vars, serverVars, clientVars, history
<1>1. TypeOK' /\ ServerInv' /\ EventsInv'
  BY DEF IInv, TypeOK, ServerInv, EventsInv, Waiting
<1>2. ASSUME NEW c \in Clients PROVE ClientInv(c)'
  <2>1. SameClient(c)
    BY DEF SameClient, SameEvents
  <2>2. serverTick' = serverTick /\ lastId' = lastId /\ serverTick \in Nat /\ lastId \in Nat
    BY ServerTyped DEF IInv
  <2>3. TypeOK /\ ClientInv(c)
    BY DEF IInv
  <2>. QED  BY <2>1, <2>2, <2>3, ClientKept
<1>3. LocalInv' /\ \A kind : channel' = kind => OrderedInv(kind)'
  BY OrderKept
<1>. QED  BY <1>1, <1>2, <1>3 DEF IInv

\* Every step keeps the invariant.
LEMMA NextIInv ==
  IInv /\ [Next]_vars => IInv'
<1>. SUFFICES ASSUME IInv, [Next]_vars PROVE IInv'
  OBVIOUS
<1>1. ASSUME NEW viewers \in SUBSET Clients, ChangeWorld(viewers) PROVE IInv'
  BY <1>1, ChangeWorldStep
<1>2. ASSUME NEW mode \in SendModes, NEW independent \in BOOLEAN, Emit(mode, independent)
      PROVE  IInv'
  BY <1>2, EmitStep
<1>3. CASE Frame
  BY <1>3, FrameStep
<1>4. CASE Tick
  BY <1>4, TickStep
<1>5. ASSUME NEW c \in Clients, ClientStep(c) PROVE IInv'
  <2>1. ASSUME NEW start \in BOOLEAN, Connect(c, start) PROVE IInv'
    BY <2>1, ConnectStep
  <2>2. CASE StartReplication(c)
    BY <2>2, StartReplicationStep
  <2>3. CASE LoseConnection(c)
    BY <2>3, LoseConnectionStep
  <2>4. CASE Disconnect(c)
    BY <2>4, DisconnectStep
  <2>5. CASE ApplyUpdate(c)
    BY <2>5, ApplyUpdateStep
  <2>6. ASSUME NEW i \in 0..Len(messages[c]), ReceiveEvents(c, i) PROVE IInv'
    BY <2>6, ReceiveEventsStep
  <2>7. ASSUME NEW i \in DOMAIN messages[c], Lose(c, i) PROVE IInv'
    BY <2>7, LoseStep
  <2>8. ASSUME NEW status \in Statuses, NoticeStatus(c, status) PROVE IInv'
    BY <2>8, NoticeStatusStep
  <2>. QED  BY <1>5, <2>1, <2>2, <2>3, <2>4, <2>5, <2>6, <2>7, <2>8 DEF ClientStep
<1>6. CASE UNCHANGED vars
  BY <1>6, StutterStep
<1>. QED  BY <1>1, <1>2, <1>3, <1>4, <1>5, <1>6 DEF Next

\* The invariant of events from the server and of the connections they depend
\* on: what is on the way to a client or in its queue, which connection it comes from,
\* in what order it is, and with what stamp.
THEOREM SpecIInv ==
  Spec => []IInv
BY InitIInv, NextIInv, PTL DEF Spec

\* The variables keep their types.
THEOREM TypeCorrect ==
  Spec => []TypeOK
<1>1. IInv => TypeOK
  BY DEF IInv
<1>. QED  BY <1>1, SpecIInv, PTL

\* An event that a client may trigger now refers to nothing that the client does
\* not have: send_buffered stamps it after send_replication, and
\* ServerEventQueue keeps it until the client has applied the update message.
THEOREM ReadyEventsAreCurrent ==
  Spec => []ReadyIsCurrent
<1>1. ASSUME IInv PROVE ReadyIsCurrent
  <2>. SUFFICES ASSUME NEW c \in online, NEW m \in OnTheirWay(c),
                       ~m.independent, m.tick <= clientTick[c]
                PROVE  m.need <= clientTick[c]
    BY DEF ReadyIsCurrent
  <2>1. TypeOK /\ c \in Clients /\ MessagesInv(c)
    BY <1>1 DEF IInv, TypeOK, ClientInv
  <2>2. m.need \in Nat /\ m.tick \in Nat /\ clientTick[c] \in Nat
    BY <2>1, ClientTyped, MessageTyped
  <2>3. m.need <= m.tick
    BY <2>1 DEF MessagesInv
  <2>. QED  BY <2>2, <2>3
<1>. QED  BY <1>1, SpecIInv, PTL

\* A client is sent no event that was emitted before it connected (exclude_client).
\* Its queue has none that was emitted before the last connection that a frame
\* found to be new, as that frame empties it (ServerEvent::reset, client_just_connected).
THEOREM ConnectionsAreSeparate ==
  Spec => []NoOldEvents
<1>1. ASSUME IInv PROVE NoOldEvents
  <2>. SUFFICES ASSUME NEW c \in online
                PROVE  /\ \A i \in DOMAIN messages[c] : messages[c][i].id > since[c]
                       /\ \A i \in DOMAIN Kept(c) : Kept(c)[i].id > joined[c]
    BY DEF NoOldEvents
  <2>1. TypeOK /\ c \in Clients /\ MessagesInv(c)
    BY <1>1 DEF IInv, TypeOK, ClientInv
  <2>2. /\ messages[c] \in Seq(Messages) /\ Kept(c) \in Seq(Messages)
        /\ since[c] \in Nat /\ joined[c] \in Nat
    BY <2>1, ClientTyped
  <2>3. ASSUME NEW i \in DOMAIN messages[c] PROVE messages[c][i].id > since[c]
    <3>1. messages[c][i] \in ToSet(messages[c]) /\ messages[c][i] \in Messages
      BY <2>2, HasElements
    <3>2. since[c] < messages[c][i].id
      BY <2>1, <3>1 DEF MessagesInv, OnTheirWay
    <3>. QED  BY <2>2, <3>1, <3>2, MessageTyped
  <2>4. ASSUME NEW i \in DOMAIN Kept(c) PROVE Kept(c)[i].id > joined[c]
    <3>1. Kept(c)[i] \in ToSet(Kept(c)) /\ Kept(c)[i] \in Messages
      BY <2>2, HasElements
    <3>2. joined[c] < Kept(c)[i].id
      BY <2>1, <3>1 DEF MessagesInv
    <3>. QED  BY <2>2, <3>1, <3>2, MessageTyped
  <2>. QED  BY <2>3, <2>4
<1>. QED  BY <1>1, SpecIInv, PTL

\* On an ordered channel, events of one type that were sent in one connection are
\* triggered in the order in which they were emitted, those that waited in the queue
\* and those that did not; on the server, all events of a type are.
THEOREM EventsAreTriggeredInOrder ==
  Spec => []TriggeredInOrder
<1>1. ASSUME IInv PROVE TriggeredInOrder
  <2>. SUFFICES ASSUME channel = "Ordered", NEW id \in Everyone,
                       NEW i \in DOMAIN triggered[id], NEW j \in DOMAIN triggered[id],
                       i < j, triggered[id][i][1] = triggered[id][j][1]
                PROVE  triggered[id][i][2] < triggered[id][j][2]
    BY DEF TriggeredInOrder
  <2>1. triggered[id] \in Seq(Traces)
    BY <1>1, TriggeredTyped DEF IInv
  <2>2. i \in 1..Len(triggered[id]) /\ j \in 1..Len(triggered[id])
    BY <2>1
  <2>3. LanesInOrder("Ordered", triggered[id])
    BY <1>1 DEF IInv, OrderedInv
  <2>. QED  BY <2>2, <2>3 DEF LanesInOrder, Follows
<1>. QED  BY <1>1, SpecIInv, PTL

\* An event of the connection that sent it waits only for an update message that is
\* on its way, unless the client's update tick is left over from another client
\* (ReplicatedClients::add reuses what has been removed).
THEOREM NoneWaitsInVainUnlessInherited ==
  Spec => []WaitsOnlyIfInherited
<1>1. ASSUME IInv PROVE WaitsOnlyIfInherited
  <2>. SUFFICES ASSUME NEW c \in online, c \notin inherited, NEW m \in OnTheirWay(c),
                       m.since = since[c]
                PROVE  \/ m.tick <= clientTick[c]
                       \/ \E i \in DOMAIN updates[c] : updates[c][i] >= m.tick
    BY DEF WaitsOnlyIfInherited, NoneWaitsInVain
  <2>1. TypeOK /\ c \in Clients /\ ReachesInv(c)
    BY <1>1 DEF IInv, TypeOK, ClientInv
  <2>2. Reaches(c, m.tick)
    BY <2>1 DEF ReachesInv, Current
  <2>3. updates[c] \in Seq(Ticks) /\ \A i \in 1..Len(updates[c]) : updates[c][i] \in Nat
    BY <2>1, ClientTyped
  <2>4. DOMAIN updates[c] = 1..Len(updates[c])
    BY <2>3
  <2>5. m.tick \in Nat
    BY <2>1, ClientTyped, MessageTyped
  <2>. QED  BY <2>2, <2>3, <2>4, <2>5 DEF Reaches
<1>. QED  BY <1>1, SpecIInv, PTL

\* ServerEvents implements EventStream.  The server itself, and each client, reads
\* events that were emitted since it joined, which for a client is when it made the
\* last connection that a frame found to be new.  It reads none of a type twice in a
\* connection, and those of a type and a connection in the order in which they were
\* emitted if their channel is ordered, whatever the backend loses and whenever
\* clients come and go (send_or_buffer, exclude_client, ServerEventQueue).
THEOREM ImplementsEventStream ==
  Spec => ImplementsStream
<1>. DEFINE start == [id \in Everyone |-> Joined(id)]
<1>1. Init => Stream!Init
  <2>. SUFFICES ASSUME Init
                PROVE  /\ lastId = 0 /\ start = [id \in Everyone |-> 0]
                       /\ triggered = [id \in Everyone |-> <<>>] /\ Unordered \subseteq Everyone
    BY DEF Stream!Init
  <2>1. \A id \in Everyone : Joined(id) = 0
    BY DEF Init, Joined, Everyone
  <2>2. Unordered \subseteq Everyone
    BY DEF Unordered, Everyone
  <2>. QED  BY <2>1, <2>2 DEF Init
<1>2. ASSUME IInv, IInv', [Next]_vars
      PROVE  [Stream!Next]_<<lastId, start, triggered, Unordered>>
  <2>1. TypeOK /\ TypeOK' /\ lastId \in Nat
    BY <1>2, ServerTyped DEF IInv
  <2>2. ASSUME NEW mode \in SendModes, NEW independent \in BOOLEAN, Emit(mode, independent)
        PROVE  Stream!Next
    <3>1. lastId' = lastId + 1 /\ UNCHANGED <<joined, triggered, channel>>
      BY <2>2 DEF Emit, clientVars, history
    <3>2. start' = start /\ Unordered' = Unordered
      BY <3>1 DEF Joined, Unordered
    <3>. QED  BY <3>1, <3>2 DEF Stream!Next, Stream!Emit
  <2>3. ASSUME UNCHANGED <<lastId, joined, channel>>, \A id \in Everyone : IsNew(id)
        PROVE  Stream!Next
    <3>1. start' = start /\ Unordered' = Unordered
      BY <2>3 DEF Joined, Unordered
    <3>2. ASSUME NEW id \in Everyone PROVE ReadsOn(id, triggered[id], triggered'[id])
      <4>1. PICK t \in Seq(Traces) :
              /\ triggered'[id] = triggered[id] \o t
              /\ \A x \in ToSet(t) : Joined(id) < x[2] /\ x[2] <= lastId
        BY <2>3 DEF IsNew
      <4>2. triggered[id] \in Seq(Traces) /\ Joined(id) \in Nat
        BY <2>1, TriggeredTyped, ClientTyped DEF Joined, Everyone
      <4>3. \E kind : (kind = "Ordered" <=> id \notin Unordered)
                      /\ LanesInOrder(kind, triggered'[id])
        <5>1. CASE id = Server
          <6>1. LanesInOrder("Ordered", triggered'[Server]) /\ Server \notin Unordered
            BY <1>2, ServerAssumption DEF IInv, LocalInv, Unordered
          <6>. QED  BY <5>1, <6>1
        <5>2. CASE id \in Clients
          <6>1. LanesInOrder(channel', triggered'[id]) /\ channel' = channel
            BY <1>2, <2>3 DEF IInv, OrderedInv
          <6>2. channel = "Ordered" <=> id \notin Unordered
            BY <5>2 DEF Unordered
          <6>. QED  BY <6>1, <6>2
        <5>. QED  BY <5>1, <5>2 DEF Everyone
      <4>4. PICK kind : (kind = "Ordered" <=> id \notin Unordered)
                        /\ LanesInOrder(kind, triggered'[id])
        BY <4>3
      <4>. QED  BY <2>1, <4>1, <4>2, <4>4, OrderReadsOn
    <3>3. ASSUME NEW id \in Everyone PROVE Stream!ReadsOn(id)
      <4>1. start[id] = Joined(id)
        OBVIOUS
      <4>2. ReadsOn(id, triggered[id], triggered'[id])
        BY <3>2
      <4>. HIDE DEF start
      <4>. QED  BY <4>1, <4>2 DEF ReadsOn, Stream!ReadsOn, Stream!MayRead, start
    <3>. HIDE DEF start
    <3>4. UNCHANGED <<lastId, start, Unordered>>
      BY <2>3, <3>1
    <3>5. Stream!Read
      BY <3>3, <3>4 DEF Stream!Read, start
    <3>. QED  BY <3>5 DEF Stream!Next
  <2>4. ASSUME UNCHANGED <<lastId, joined, channel, triggered>> PROVE Stream!Next
    <3>1. \A id \in Everyone : IsNew(id)
      BY <2>1, <2>4, NoneIsNew
    <3>. QED  BY <2>3, <2>4, <3>1
  <2>5. ASSUME NEW c \in Clients, NEW begin \in BOOLEAN, Connect(c, begin)
        PROVE  Stream!Next
    <3>1. /\ joined' = IF lastStatus[c] = "Connected" THEN joined
                       ELSE [joined EXCEPT ![c] = lastId]
          /\ UNCHANGED <<lastId, triggered, channel>>
      BY <2>5 DEF Connect
    <3>2. CASE lastStatus[c] = "Connected"
      BY <2>4, <3>1, <3>2
    <3>3. CASE lastStatus[c] # "Connected"
      <4>1. c \in Everyone /\ c # Server /\ joined \in [Clients -> 0..MaxEvents]
        BY <2>1, ServerAssumption DEF Everyone, TypeOK
      <4>2. ASSUME NEW id \in Everyone
            PROVE  Joined(id)' = IF id = c THEN lastId ELSE Joined(id)
        BY <3>1, <3>3, <4>1 DEF Joined, Everyone
      <4>3. start' = [start EXCEPT ![c] = lastId]
        BY <4>1, <4>2
      <4>4. Unordered' = Unordered
        BY <3>1 DEF Unordered
      <4>. QED  BY <3>1, <4>1, <4>3, <4>4 DEF Stream!Next, Stream!Join
    <3>. QED  BY <3>2, <3>3
  <2>6. CASE Frame \/ Tick
    <3>1. UNCHANGED <<lastId, joined, channel>> /\ triggered' = TriggeredLocally
      BY <2>6 DEF Frame, Tick, history
    <3>2. \A id \in Everyone : IsNew(id)
      BY <1>2, <3>1, ServerIsNew
    <3>. QED  BY <2>3, <3>1, <3>2
  <2>7. ASSUME NEW c \in Clients, NEW i \in 0..Len(messages[c]), ReceiveEvents(c, i)
        PROVE  Stream!Next
    <3>1. UNCHANGED <<lastId, joined, channel>>
      BY <2>7 DEF ReceiveEvents, serverVars, history
    <3>2. \A id \in Everyone : IsNew(id)
      BY <1>2, <2>7, ClientIsNew
    <3>. QED  BY <2>3, <3>1, <3>2
  <2>8. ASSUME NEW c \in Clients, ClientStep(c) PROVE Stream!Next
    <3>1. CASE StartReplication(c) \/ LoseConnection(c) \/ Disconnect(c) \/ ApplyUpdate(c)
      <4>1. UNCHANGED <<lastId, joined, channel, triggered>>
        BY <3>1 DEF StartReplication, LoseConnection, Disconnect, ApplyUpdate, serverVars,
           clientVars, history
      <4>. QED  BY <2>4, <4>1
    <3>2. ASSUME NEW i \in DOMAIN messages[c], Lose(c, i) PROVE Stream!Next
      <4>1. UNCHANGED <<lastId, joined, channel, triggered>>
        BY <3>2 DEF Lose, serverVars, clientVars, history
      <4>. QED  BY <2>4, <4>1
    <3>3. ASSUME NEW status \in Statuses, NoticeStatus(c, status) PROVE Stream!Next
      <4>1. UNCHANGED <<lastId, joined, channel, triggered>>
        BY <3>3 DEF NoticeStatus, serverVars, history
      <4>. QED  BY <2>4, <4>1
    <3>. QED  BY <2>5, <2>7, <2>8, <3>1, <3>2, <3>3 DEF ClientStep
  <2>9. ASSUME NEW viewers \in SUBSET Clients, ChangeWorld(viewers) PROVE Stream!Next
    <3>1. UNCHANGED <<lastId, joined, channel, triggered>>
      BY <2>9 DEF ChangeWorld, clientVars, history
    <3>. QED  BY <2>4, <3>1
  <2>10. CASE UNCHANGED vars
    <3>1. UNCHANGED <<lastId, joined, channel, triggered>>
      BY <2>10 DEF vars, serverVars, clientVars, history
    <3>. QED  BY <2>4, <3>1
  <2>. QED  BY <1>2, <2>2, <2>6, <2>8, <2>9, <2>10 DEF Next
<1>. QED  BY <1>1, <1>2, SpecIInv, PTL DEF Spec, ImplementsStream, Stream!Spec
=============================================================================
