-------------------------- MODULE RegistrationProofs --------------------------
(***************************************************************************)
(* Proofs about Registration, for any components, groups, markers and      *)
(* priorities, registered in any order and number.                         *)
(*                                                                         *)
(* What positions mean is kept (FnsIdsAgree, SlotInv), because nothing has *)
(* two places (UniqueInv) and what is inserted into a list moves what      *)
(* refers to it; and the lists stay in descending order (ListsInv), so     *)
(* that the first rule or marker that fits is one of the highest priority. *)
(***************************************************************************)
EXTENDS Registration, SequenceTheorems, WellFoundedInduction, TLAPS

-----------------------------------------------------------------------------
(* Numbers, and insertion into a sequence.                                *)

\* A non-empty set of numbers has a least element.
LEMMA LeastExists ==
  ASSUME NEW I, I \subseteq Nat, I # {}
  PROVE  \E n \in I : \A i \in I : n <= i
<1>1. PICK n \in I : \A i \in I : <<i, n>> \notin OpToRel(<, Nat)
  BY NatLessThanWellFounded, WFMin
<1>2. ASSUME NEW i \in I, i < n PROVE FALSE
  <2>1. <<i, n>> \in Nat \X Nat
    OBVIOUS
  <2>2. <<i, n>>[1] < <<i, n>>[2]
    BY <1>2
  <2>3. <<i, n>> \in OpToRel(<, Nat)
    BY <2>1, <2>2, Zenon DEF OpToRel
  <2>. QED  BY <1>1, <2>3
<1>. QED  BY <1>2

\* Induction up to a bound.
LEMMA UpTo ==
  ASSUME NEW n \in Nat, NEW good, 0 \in good, \A m \in 1..n : m - 1 \in good => m \in good
  PROVE  0..n \subseteq good
<1>. DEFINE bad == (0..n) \ good
<1>. SUFFICES ASSUME bad # {} PROVE FALSE
  OBVIOUS
<1>1. bad \subseteq Nat
  OBVIOUS
<1>. HIDE DEF bad
<1>2. PICK m \in bad : \A i \in bad : m <= i
  BY <1>1, LeastExists
<1>3. m \in 0..n /\ m \notin good /\ m # 0
  BY <1>2 DEF bad
<1>4. m \in 1..n /\ m - 1 \in 0..n /\ m - 1 \notin bad
  BY <1>1, <1>2, <1>3
<1>. QED  BY <1>3, <1>4 DEF bad

\* What Min selects.
LEMMA MinIsLeast ==
  ASSUME NEW I, I \subseteq Nat, I # {}
  PROVE  Min(I) \in I /\ \A i \in I : Min(I) <= i
BY LeastExists DEF Min

\* InsertAt moves what is behind the new element by one position.
LEMMA Inserted ==
  ASSUME NEW S, NEW s \in Seq(S), NEW e \in S, NEW i \in 1..(Len(s) + 1)
  PROVE  /\ InsertAt(s, i, e) \in Seq(S)
         /\ Len(InsertAt(s, i, e)) = Len(s) + 1
         /\ \A j \in 1..(i - 1) : InsertAt(s, i, e)[j] = s[j]
         /\ InsertAt(s, i, e)[i] = e
         /\ \A j \in i..Len(s) : InsertAt(s, i, e)[j + 1] = s[j]
<1>1. SubSeq(s, 1, i - 1) \in Seq(S) /\ Len(SubSeq(s, 1, i - 1)) = i - 1
      /\ \A j \in 1..(i - 1) : SubSeq(s, 1, i - 1)[j] = s[j]
  OBVIOUS
<1>2. SubSeq(s, i, Len(s)) \in Seq(S) /\ Len(SubSeq(s, i, Len(s))) = Len(s) - i + 1
      /\ \A j \in 1..(Len(s) - i + 1) : SubSeq(s, i, Len(s))[j] = s[j + i - 1]
  OBVIOUS
<1>. DEFINE a == SubSeq(s, 1, i - 1)
            b == SubSeq(s, i, Len(s))
<1>3. a \in Seq(S) /\ Len(a) = i - 1 /\ b \in Seq(S) /\ Len(b) = Len(s) - i + 1
  BY <1>1, <1>2
<1>. HIDE DEF a, b
<1>4. /\ a \o <<e>> \o b \in Seq(S)
      /\ Len(a \o <<e>> \o b) = Len(s) + 1
      /\ \A j \in 1..(i - 1) : (a \o <<e>> \o b)[j] = a[j]
      /\ (a \o <<e>> \o b)[i] = e
      /\ \A j \in i..Len(s) : (a \o <<e>> \o b)[j + 1] = b[j + 1 - i]
  BY <1>3
<1>5. \A j \in i..Len(s) : b[j + 1 - i] = s[j]
  BY <1>2 DEF b
<1>. QED  BY <1>1, <1>4, <1>5 DEF InsertAt, a, b

-----------------------------------------------------------------------------
(* Lists in descending order of priority.                                  *)

Descending(list) ==
  \A i, j \in 1..Len(list) : i < j => list[i].priority >= list[j].priority

Prioritised(list) ==
  \A i \in 1..Len(list) : list[i].priority \in Nat

\* An insertion where binary_search points to keeps a list in order.
LEMMA StaysDescending ==
  ASSUME NEW S, NEW list \in Seq(S), Prioritised(list), Descending(list),
         NEW e \in S, e.priority \in Nat,
         NEW i \in InsertionPoints(list, e.priority)
  PROVE  /\ i \in 1..(Len(list) + 1)
         /\ Prioritised(InsertAt(list, i, e))
         /\ Descending(InsertAt(list, i, e))
<1>. DEFINE new == InsertAt(list, i, e)
<1>1. i \in 1..(Len(list) + 1)
  BY DEF InsertionPoints
<1>2. /\ \A j \in 1..(i - 1) : list[j].priority >= e.priority
      /\ \A j \in i..Len(list) : list[j].priority <= e.priority
  <2>1. CASE \E k \in DOMAIN list : list[k].priority = e.priority
    <3>1. i \in 1..Len(list) /\ list[i].priority = e.priority
      BY <2>1 DEF InsertionPoints
    <3>. QED  BY <3>1 DEF Descending, Prioritised
  <2>2. CASE ~\E k \in DOMAIN list : list[k].priority = e.priority
    <3>1. /\ \A j \in 1..(i - 1) : list[j].priority > e.priority
          /\ \A j \in i..Len(list) : list[j].priority < e.priority
      BY <2>2 DEF InsertionPoints
    <3>. QED  BY <1>1, <3>1 DEF Prioritised
  <2>. QED  BY <2>1, <2>2
<1>3. /\ Len(new) = Len(list) + 1
      /\ \A j \in 1..(i - 1) : new[j] = list[j]
      /\ new[i] = e
      /\ \A j \in i..Len(list) : new[j + 1] = list[j]
  BY <1>1, Inserted
<1>. HIDE DEF new
<1>4. \A k \in 1..Len(new) :
        \/ k < i /\ k \in 1..(i - 1) /\ k \in 1..Len(list) /\ new[k] = list[k]
        \/ k = i
        \/ k > i /\ k - 1 \in i..Len(list) /\ k - 1 \in 1..Len(list) /\ new[k] = list[k - 1]
  <2>. TAKE k \in 1..Len(new)
  <2>1. k > i => k - 1 \in i..Len(list) /\ k - 1 \in 1..Len(list) /\ k - 1 + 1 = k
    BY <1>1, <1>3
  <2>2. k < i => k \in 1..(i - 1) /\ k \in 1..Len(list)
    BY <1>1, <1>3
  <2>3. k < i \/ k = i \/ k > i
    BY <1>1
  <2>4. k > i => new[k] = list[k - 1]
    <3>. SUFFICES ASSUME k > i PROVE new[k] = list[k - 1]
      OBVIOUS
    <3>1. new[(k - 1) + 1] = list[k - 1]
      BY <1>3, <2>1
    <3>. QED  BY <2>1, <3>1
  <2>. QED  BY <1>3, <2>1, <2>2, <2>3, <2>4
<1>5. \A k \in 1..Len(new) : new[k].priority \in Nat
  <2>. TAKE k \in 1..Len(new)
  <2>1. CASE k = i
    BY <1>3, <2>1
  <2>2. CASE k # i
    BY <1>4, <2>2 DEF Prioritised
  <2>. QED  BY <2>1, <2>2
<1>6. Descending(new)
  <2>. SUFFICES ASSUME NEW k \in 1..Len(new), NEW l \in 1..Len(new), k < l
                PROVE  new[k].priority >= new[l].priority
    BY DEF Descending
  <2>1. CASE l < i
    <3>1. k < i
      BY <1>1, <2>1
    <3>2. new[k] = list[k] /\ new[l] = list[l] /\ k \in 1..Len(list) /\ l \in 1..Len(list)
      BY <1>1, <1>4, <2>1, <3>1
    <3>. QED  BY <3>2 DEF Descending
  <2>2. CASE l = i
    <3>1. k \in 1..(i - 1)
      BY <1>1, <1>3, <2>2
    <3>. QED  BY <1>2, <1>3, <2>2, <3>1
  <2>3. CASE l > i /\ k < i
    <3>0. k \in 1..(i - 1) /\ l - 1 \in i..Len(list)
      BY <1>1, <1>3, <1>4, <2>3
    <3>1. list[k].priority >= e.priority /\ list[l - 1].priority <= e.priority
      BY <1>2, <3>0
    <3>2. new[k] = list[k] /\ new[l] = list[l - 1] /\ k \in 1..Len(list) /\ l - 1 \in 1..Len(list)
      BY <1>1, <1>3, <1>4, <2>3
    <3>. QED  BY <3>1, <3>2 DEF Prioritised
  <2>4. CASE l > i /\ k = i
    BY <1>2, <1>3, <1>4, <2>4
  <2>5. CASE k > i
    <3>1. new[k] = list[k - 1] /\ new[l] = list[l - 1] /\ k - 1 < l - 1
          /\ k - 1 \in 1..Len(list) /\ l - 1 \in 1..Len(list)
      BY <1>1, <1>3, <1>4, <2>5
    <3>. QED  BY <3>1 DEF Descending
  <2>. QED  BY <2>1, <2>2, <2>3, <2>4, <2>5, <1>1
<1>. QED  BY <1>1, <1>5, <1>6 DEF new, Prioritised

-----------------------------------------------------------------------------
(* Rules.                                                                  *)

\* Rules that match an archetype and have a component.
Covering(list, archetype, c) ==
  {i \in 1..Len(list) : Matches(list[i], archetype) /\ c \in list[i].components}

\* An archetype replicates the components that some rule covers, each with the
\* functions of the first such rule.
LEMMA FirstRuleReplicates ==
  ASSUME NEW S, NEW list \in Seq(S), NEW archetype, NEW c
  PROVE  /\ c \in Replicated(list, archetype) <=> Covering(list, archetype, c) # {}
         /\ c \in Replicated(list, archetype) =>
              ReplicatedArchetype(list, archetype)[c] =
                list[Min(Covering(list, archetype, c))].fns
<1>1. DOMAIN list = 1..Len(list)
  OBVIOUS
<1>2. c \in Replicated(list, archetype) <=>
        \E i \in 1..Len(list) : Matches(list[i], archetype) /\ c \in list[i].components
  BY <1>1 DEF Replicated
<1>3. ASSUME c \in Replicated(list, archetype)
      PROVE  ReplicatedArchetype(list, archetype)[c] =
                list[Min(Covering(list, archetype, c))].fns
  <2>1. ReplicatedArchetype(list, archetype)[c] =
          FirstFns(list, LAMBDA r : Matches(r, archetype) /\ c \in r.components)
    BY <1>3 DEF ReplicatedArchetype
  <2>2. SelectInSeq(list, LAMBDA r : Matches(r, archetype) /\ c \in r.components) =
          Min(Covering(list, archetype, c))
    BY <1>2, <1>3 DEF SelectInSeq, Covering
  <2>. QED  BY <2>1, <2>2 DEF FirstFns
<1>. QED  BY <1>2, <1>3 DEF Covering

\* Rules that make the server send the removal of a component.
CoveringRemoval(list, archetype, removed, c) ==
  {i \in 1..Len(list) : MatchesRemovals(list[i], archetype, removed)
                        /\ c \in list[i].components}

\* A removal is sent with the functions of the first such rule.
LEMMA FirstRuleRemoves ==
  ASSUME NEW S, NEW list \in Seq(S), NEW archetype, NEW removed, NEW c
  PROVE  /\ c \in Removed(list, archetype, removed) <=>
              CoveringRemoval(list, archetype, removed, c) # {} /\ c \notin archetype
         /\ c \in Removed(list, archetype, removed) =>
              RemovedIds(list, archetype, removed)[c] =
                list[Min(CoveringRemoval(list, archetype, removed, c))].fns
<1>1. DOMAIN list = 1..Len(list)
  OBVIOUS
<1>2. c \in Removed(list, archetype, removed) <=>
        /\ \E i \in 1..Len(list) : MatchesRemovals(list[i], archetype, removed)
                                   /\ c \in list[i].components
        /\ c \notin archetype
  BY <1>1 DEF Removed
<1>3. ASSUME c \in Removed(list, archetype, removed)
      PROVE  RemovedIds(list, archetype, removed)[c] =
                list[Min(CoveringRemoval(list, archetype, removed, c))].fns
  <2>1. RemovedIds(list, archetype, removed)[c] =
          FirstFns(list, LAMBDA r : MatchesRemovals(r, archetype, removed)
                                    /\ c \in r.components)
    BY <1>3 DEF RemovedIds
  <2>2. SelectInSeq(list, LAMBDA r : MatchesRemovals(r, archetype, removed)
                                     /\ c \in r.components) =
          Min(CoveringRemoval(list, archetype, removed, c))
    BY <1>2, <1>3 DEF SelectInSeq, CoveringRemoval
  <2>. QED  BY <2>1, <2>2 DEF FirstFns
<1>. QED  BY <1>2, <1>3 DEF CoveringRemoval

\* What is removed is what was replicated and is gone.
Undone(after, before, archetype) ==
  /\ after = [c \in DOMAIN after |-> after[c]]
  /\ DOMAIN after = (DOMAIN before) \ archetype
  /\ \A c \in DOMAIN after : after[c] = before[c]

\* The two loops over the rules agree, for any list of rules: the removals sent
\* are those of the components that were replicated and are gone, with the
\* functions they were replicated with.
LEMMA RemovalsAgree ==
  ASSUME NEW S, NEW list \in Seq(S), NEW archetype, NEW removed
  PROVE  Undone(RemovedIds(list, archetype, removed),
                ReplicatedArchetype(list, archetype \cup removed), archetype)
<1>. DEFINE before == ReplicatedArchetype(list, archetype \cup removed)
            after  == RemovedIds(list, archetype, removed)
<1>1. DOMAIN before = Replicated(list, archetype \cup removed)
      /\ DOMAIN after = Removed(list, archetype, removed)
      /\ after = [c \in DOMAIN after |-> after[c]]
  BY DEF ReplicatedArchetype, RemovedIds
<1>2. ASSUME NEW c, c \notin archetype
      PROVE  Covering(list, archetype \cup removed, c) =
               CoveringRemoval(list, archetype, removed, c)
  <2>1. \A i \in 1..Len(list) :
          Matches(list[i], archetype \cup removed) /\ c \in list[i].components <=>
          MatchesRemovals(list[i], archetype, removed) /\ c \in list[i].components
    BY <1>2 DEF Matches, MatchesRemovals
  <2>. QED  BY <2>1 DEF Covering, CoveringRemoval
<1>3. ASSUME NEW c
      PROVE  /\ c \in (DOMAIN before) \ archetype <=> c \in DOMAIN after
             /\ c \in DOMAIN after => after[c] = before[c]
  <2>. DEFINE all  == archetype \cup removed
              cov  == Covering(list, all, c)
              covr == CoveringRemoval(list, archetype, removed, c)
  <2>1. /\ c \in Replicated(list, all) <=> cov # {}
        /\ c \in Replicated(list, all) => before[c] = list[Min(cov)].fns
    BY FirstRuleReplicates
  <2>2. /\ c \in Removed(list, archetype, removed) <=> covr # {} /\ c \notin archetype
        /\ c \in Removed(list, archetype, removed) => after[c] = list[Min(covr)].fns
    BY FirstRuleRemoves
  <2>3. c \notin archetype => cov = covr
    BY <1>2
  <2>. HIDE DEF before, after, cov, covr
  <2>. QED  BY <1>1, <2>1, <2>2, <2>3
<1>4. \A c \in DOMAIN after : after[c] = before[c]
  BY <1>3
<1>. HIDE DEF before, after
<1>5. (DOMAIN before) \ archetype = DOMAIN after
  BY <1>3
<1>6. Undone(after, before, archetype)
  BY <1>1, <1>4, <1>5 DEF Undone
<1>. QED  BY <1>6 DEF before, after

\* In a list in descending order, an archetype's components have the functions
\* of a rule that covers them, such that no other has a higher priority.
LEMMA HighestReplicates ==
  ASSUME NEW S, NEW list \in Seq(S), Descending(list), Prioritised(list), NEW archetype,
         NEW c \in Replicated(list, archetype)
  PROVE  \E i \in Covering(list, archetype, c) :
            /\ ReplicatedArchetype(list, archetype)[c] = list[i].fns
            /\ \A j \in Covering(list, archetype, c) : list[j].priority <= list[i].priority
<1>. DEFINE is == Covering(list, archetype, c)
<1>1. is # {} /\ ReplicatedArchetype(list, archetype)[c] = list[Min(is)].fns
  BY FirstRuleReplicates
<1>2. is \subseteq Nat /\ is \subseteq 1..Len(list)
  BY DEF Covering
<1>. HIDE DEF is
<1>3. PICK n \in 1..Len(list) : n = Min(is) /\ n \in is /\ \A i \in is : n <= i
  BY <1>1, <1>2, MinIsLeast
<1>4. ASSUME NEW j \in is PROVE list[j].priority <= list[n].priority
  <2>1. j \in 1..Len(list) /\ n <= j
    BY <1>2, <1>3
  <2>2. list[j].priority \in Nat /\ list[n].priority \in Nat
    BY <2>1 DEF Prioritised
  <2>3. n < j => list[n].priority >= list[j].priority
    BY <2>1 DEF Descending
  <2>4. n < j \/ n = j
    BY <2>1
  <2>. QED  BY <2>2, <2>3, <2>4
<1>5. \E i \in is : /\ ReplicatedArchetype(list, archetype)[c] = list[i].fns
                    /\ \A j \in is : list[j].priority <= list[i].priority
  BY <1>1, <1>3, <1>4
<1>. QED  BY <1>5 DEF is

-----------------------------------------------------------------------------
(* The registry's components.                                              *)

Registered(list) ==
  /\ list \in Seq(ComponentFns)
  /\ \A i \in 1..Len(list) : Len(list[i].markers) = markerSlots
  /\ \A i, j \in 1..Len(list) : list[i].component = list[j].component => i = j

\* A list continues another one with components that have no functions yet.
Continues(new, list) ==
  /\ Registered(new)
  /\ Len(list) <= Len(new)
  /\ \A i \in 1..Len(list) : new[i] = list[i]
  /\ \A i \in (Len(list) + 1)..Len(new) : new[i] = NewFns(new[i].component)

Has(list, c) == \E i \in 1..Len(list) : list[i].component = c

\* The functions of a new component have as many empty slots as there are
\* markers.
LEMMA NewFnsType ==
  ASSUME NEW c \in Components, markerSlots \in Nat
  PROVE  /\ NewFns(c) \in ComponentFns
         /\ Len(NewFns(c).markers) = markerSlots
         /\ \A k \in 1..markerSlots : NewFns(c).markers[k] = NoFns
         /\ NewFns(c).component = c
         /\ NewFns(c) = NewFns(NewFns(c).component)
<1>1. [i \in 1..markerSlots |-> NoFns] \in Seq(Markers \cup {NoFns})
      /\ Len([i \in 1..markerSlots |-> NoFns]) = markerSlots
  OBVIOUS
<1>. QED  BY <1>1 DEF NewFns, ComponentFns

\* init_component_fns adds a component once.
LEMMA OneComponent ==
  ASSUME markerSlots \in Nat, NEW list, Registered(list), NEW c \in Components
  PROVE  Continues(WithComponent(list, c), list) /\ Has(WithComponent(list, c), c)
<1>0. list \in Seq(ComponentFns) /\ DOMAIN list = 1..Len(list)
  BY DEF Registered
<1>1. CASE Has(list, c)
  <2>1. WithComponent(list, c) = list
    BY <1>0, <1>1 DEF WithComponent, Has
  <2>. QED  BY <1>0, <1>1, <2>1 DEF Continues
<1>2. CASE ~Has(list, c)
  <2>. DEFINE new == WithComponent(list, c)
              e   == NewFns(c)
  <2>1. new = Append(list, e)
    BY <1>0, <1>2 DEF WithComponent, Has
  <2>2. /\ e \in ComponentFns /\ Len(e.markers) = markerSlots
        /\ e.component = c /\ e = NewFns(e.component)
    BY NewFnsType
  <2>. HIDE DEF e, new
  <2>3. /\ new \in Seq(ComponentFns)
        /\ Len(new) = Len(list) + 1
        /\ \A i \in 1..Len(list) : new[i] = list[i]
        /\ new[Len(list) + 1] = e
    BY <1>0, <2>1, <2>2
  <2>4. \A i \in 1..Len(new) : i \in 1..Len(list) \/ i = Len(list) + 1
    BY <1>0, <2>3
  <2>5. Registered(new)
    BY <1>0, <1>2, <2>2, <2>3, <2>4 DEF Registered, Has
  <2>6. \A i \in (Len(list) + 1)..Len(new) : new[i] = NewFns(new[i].component)
    <3>1. \A i \in (Len(list) + 1)..Len(new) : i = Len(list) + 1
      BY <1>0, <2>3
    <3>. QED  BY <2>2, <2>3, <3>1
  <2>7. Continues(new, list)
    BY <1>0, <2>3, <2>5, <2>6 DEF Continues
  <2>8. Has(new, c)
    BY <1>0, <2>2, <2>3 DEF Has
  <2>. QED  BY <2>7, <2>8 DEF new
<1>. QED  BY <1>1, <1>2

\* To continue a continuation is to continue.
LEMMA ContinuesOn ==
  ASSUME NEW a, NEW b, NEW c, Registered(a), Continues(b, a), Continues(c, b)
  PROVE  Continues(c, a)
<1>1. Len(a) \in Nat /\ Len(b) \in Nat /\ Len(c) \in Nat
  BY DEF Registered, Continues
<1>2. Len(a) <= Len(c) /\ \A i \in 1..Len(a) : c[i] = a[i]
  BY <1>1 DEF Continues
<1>3. ASSUME NEW i \in (Len(a) + 1)..Len(c) PROVE c[i] = NewFns(c[i].component)
  <2>1. CASE i \in 1..Len(b)
    <3>1. i \in (Len(a) + 1)..Len(b) /\ c[i] = b[i]
      BY <1>1, <2>1 DEF Continues
    <3>. QED  BY <3>1 DEF Continues
  <2>2. CASE i \in (Len(b) + 1)..Len(c)
    BY <2>2 DEF Continues
  <2>. QED  BY <1>1, <2>1, <2>2
<1>. QED  BY <1>2, <1>3 DEF Continues

\* The lists that the recursion in WithComponents goes through exist.
LEMMA WithComponentsSteps ==
  ASSUME NEW cs \in Seq(Components)
  PROVE  \E list :
            /\ list = [n \in 0..Len(cs) |->
                         IF n = 0 THEN components ELSE WithComponent(list[n - 1], cs[n])]
            /\ WithComponents(cs) = list[Len(cs)]
<1>. DEFINE Steps(m) == \E f : f = [n \in 0..m |->
                IF n = 0 THEN components ELSE WithComponent(f[n - 1], cs[n])]
            good == {m \in 0..Len(cs) : Steps(m)}
<1>1. Len(cs) \in Nat
  OBVIOUS
<1>2. 0 \in good
  <2>. DEFINE f == [n \in 0..0 |-> components]
  <2>1. f = [n \in 0..0 |-> IF n = 0 THEN components ELSE WithComponent(f[n - 1], cs[n])]
    OBVIOUS
  <2>. HIDE DEF f
  <2>2. Steps(0)
    BY <2>1
  <2>. HIDE DEF Steps
  <2>. QED  BY <1>1, <2>2
<1>3. ASSUME NEW m \in 1..Len(cs), m - 1 \in good PROVE m \in good
  <2>4. Steps(m - 1)
    BY <1>3
  <2>5. PICK f : f = [n \in 0..(m - 1) |->
                        IF n = 0 THEN components ELSE WithComponent(f[n - 1], cs[n])]
    BY <2>4
  <2>. DEFINE g == [n \in 0..m |-> IF n = m THEN WithComponent(f[m - 1], cs[m]) ELSE f[n]]
  <2>6. g = [n \in 0..m |-> IF n = 0 THEN components ELSE WithComponent(g[n - 1], cs[n])]
    <3>. SUFFICES ASSUME NEW n \in 0..m
                  PROVE  g[n] = IF n = 0 THEN components ELSE WithComponent(g[n - 1], cs[n])
      OBVIOUS
    <3>1. CASE n = m
      <4>1. m - 1 \in 0..m /\ m - 1 # m
        BY <1>1
      <4>2. g[n - 1] = f[m - 1]
        BY <3>1, <4>1
      <4>. QED  BY <1>1, <3>1, <4>2
    <3>2. CASE n # m
      <4>1. n \in 0..(m - 1) /\ (n # 0 => n - 1 \in 0..m /\ n - 1 # m)
        BY <1>1, <3>2
      <4>2. f[n] = IF n = 0 THEN components ELSE WithComponent(f[n - 1], cs[n])
        BY <2>5, <4>1
      <4>3. n # 0 => g[n - 1] = f[n - 1]
        BY <4>1
      <4>. QED  BY <3>2, <4>2, <4>3
    <3>. QED  BY <3>1, <3>2
  <2>. HIDE DEF g
  <2>7. Steps(m)
    BY <2>6
  <2>. HIDE DEF Steps
  <2>. QED  BY <1>1, <2>7
<1>4. Steps(Len(cs))
  <2>. HIDE DEF good
  <2>1. 0..Len(cs) \subseteq good
    BY <1>1, <1>2, <1>3, UpTo
  <2>. QED  BY <1>1, <2>1 DEF good
<1>. DEFINE list == CHOOSE f : f = [n \in 0..Len(cs) |->
                IF n = 0 THEN components ELSE WithComponent(f[n - 1], cs[n])]
<1>5. list = [n \in 0..Len(cs) |->
                IF n = 0 THEN components ELSE WithComponent(list[n - 1], cs[n])]
  BY <1>4
<1>6. WithComponents(cs) = list[Len(cs)]
  BY DEF WithComponents
<1>. QED  BY <1>5, <1>6

\* register_rule_fns for every component of a group adds those that are missing.
LEMMA ManyComponents ==
  ASSUME markerSlots \in Nat, Registered(components), NEW cs \in Seq(Components)
  PROVE  /\ Continues(WithComponents(cs), components)
         /\ \A k \in 1..Len(cs) : Has(WithComponents(cs), cs[k])
<1>1. PICK list :
         /\ list = [n \in 0..Len(cs) |->
                      IF n = 0 THEN components ELSE WithComponent(list[n - 1], cs[n])]
         /\ WithComponents(cs) = list[Len(cs)]
  BY WithComponentsSteps
<1>2. Len(cs) \in Nat
  OBVIOUS
<1>3. list[0] = components
      /\ \A n \in 1..Len(cs) : list[n] = WithComponent(list[n - 1], cs[n])
  <2>1. \A n \in 0..Len(cs) :
          list[n] = IF n = 0 THEN components ELSE WithComponent(list[n - 1], cs[n])
    BY <1>1
  <2>. QED  BY <1>2, <2>1
<1>. DEFINE Good(n) == Continues(list[n], components) /\ \A k \in 1..n : Has(list[n], cs[k])
            good == {n \in 0..Len(cs) : Good(n)}
<1>4. Continues(components, components)
  <2>1. Len(components) \in Nat
    BY DEF Registered
  <2>. QED  BY <2>1 DEF Continues
<1>5. 0 \in good
  BY <1>2, <1>3, <1>4
<1>6. ASSUME NEW n \in 1..Len(cs), n - 1 \in good PROVE n \in good
  <2>4. n \in 0..Len(cs) /\ Good(n - 1)
    BY <1>2, <1>6
  <2>. DEFINE old == list[n - 1]
              new == list[n]
  <2>5. new = WithComponent(old, cs[n]) /\ cs[n] \in Components
    BY <1>3, <2>4
  <2>6. Continues(old, components) /\ Registered(old) /\ \A k \in 1..(n - 1) : Has(old, cs[k])
    BY <2>4 DEF Continues
  <2>. HIDE DEF old, new
  <2>7. Continues(new, old) /\ Has(new, cs[n])
    BY <2>5, <2>6, OneComponent
  <2>8. Continues(new, components)
    BY <2>6, <2>7, ContinuesOn
  <2>9. \A k \in 1..n : Has(new, cs[k])
    <3>1. ASSUME NEW k \in 1..(n - 1) PROVE Has(new, cs[k])
      <4>1. PICK i \in 1..Len(old) : old[i].component = cs[k]
        BY <2>6 DEF Has
      <4>2. i \in 1..Len(new) /\ new[i] = old[i]
        BY <2>7, <2>6 DEF Continues, Registered
      <4>. QED  BY <4>1, <4>2 DEF Has
    <3>. QED  BY <2>4, <2>7, <3>1
  <2>. QED  BY <2>4, <2>8, <2>9 DEF new
<1>7. Good(Len(cs))
  <2>. HIDE DEF good
  <2>1. 0..Len(cs) \subseteq good
    BY <1>2, <1>5, <1>6, UpTo
  <2>. QED  BY <1>2, <2>1 DEF good
<1>. QED  BY <1>1, <1>7

\* A component has one place in the list.
LEMMA IndexOf ==
  ASSUME NEW list, Registered(list), NEW i \in 1..Len(list)
  PROVE  ComponentIndex(list, list[i].component) = i
<1>. DEFINE is == {j \in 1..Len(list) : list[j].component = list[i].component}
<1>1. Len(list) \in Nat
  BY DEF Registered
<1>2. is = {i}
  BY DEF Registered
<1>3. Min({i}) = i
  BY <1>1 DEF Min
<1>4. ComponentIndex(list, list[i].component) = IF is # {} THEN Min(is) ELSE 0
  BY DEF ComponentIndex, SelectInSeq
<1>. QED  BY <1>2, <1>3, <1>4

-----------------------------------------------------------------------------
(* The invariant.                                                          *)

AnyRule ==
  [components : SUBSET Components, priority : RulePriorities,
   fns : UNION {[s -> Nat] : s \in SUBSET Components}]

\* Lists are in descending order, wherever binary_search put an element.
ListsInv ==
  /\ rules \in Seq(AnyRule)
  /\ Descending(rules)
  /\ Descending(commandMarkers)

\* Nothing has two places.
UniqueInv ==
  /\ Registered(components)
  /\ \A i, j \in 1..Len(commandMarkers) :
       commandMarkers[i].marker = commandMarkers[j].marker => i = j

\* Functions are set for markers and components that have a place.
GivenInv ==
  \A p \in given :
    /\ \E k \in 1..Len(commandMarkers) : commandMarkers[k].marker = p[1]
    /\ Has(components, p[2])

\* A slot is at the position its marker has now, and filled if the marker was
\* given functions for the component.
SlotInv ==
  \A i \in 1..Len(components), k \in 1..Len(commandMarkers) :
    components[i].markers[k] =
      IF <<commandMarkers[k].marker, components[i].component>> \in given
      THEN commandMarkers[k].marker ELSE NoFns

IInv == TypeOK /\ ListsInv /\ UniqueInv /\ GivenInv /\ SlotInv /\ FnsIdsAgree

\* Before anything is registered there is nothing to be wrong.
LEMMA InitIInv == Init => IInv
<1>. SUFFICES ASSUME Init PROVE IInv
  OBVIOUS
<1>1. /\ <<>> \in Seq(AnyRule) /\ <<>> \in Seq(ComponentFns) /\ <<>> \in Seq(CommandMarker)
      /\ <<>> \in Seq(Components) /\ <<>> \in Seq({}) /\ Len(<<>>) = 0 /\ DOMAIN <<>> = {}
      /\ 1..0 = {}
  OBVIOUS
<1>2. TypeOK
  BY <1>1, BoundsAssumption DEF Init, TypeOK
<1>3. ListsInv
  BY <1>1 DEF Init, ListsInv, Descending
<1>4. UniqueInv /\ GivenInv /\ SlotInv
  BY <1>1 DEF Init, UniqueInv, GivenInv, SlotInv, Registered
<1>5. FnsIdsAgree
  BY <1>1 DEF Init, FnsIdsAgree
<1>. QED  BY <1>2, <1>3, <1>4, <1>5 DEF IInv

\* The lists of the registry, as sequences.
LEMMA Shape ==
  ASSUME IInv
  PROVE  /\ rules \in Seq(AnyRule) /\ fns \in Seq(1..Len(components))
         /\ components \in Seq(ComponentFns) /\ commandMarkers \in Seq(CommandMarker)
         /\ serialized \in Seq(Components)
         /\ Len(rules) \in Nat /\ Len(fns) \in Nat /\ Len(components) \in Nat
         /\ Len(commandMarkers) \in Nat /\ Len(serialized) = Len(fns)
         /\ markerSlots = Len(commandMarkers)
         /\ DOMAIN rules = 1..Len(rules) /\ DOMAIN fns = 1..Len(fns)
         /\ DOMAIN components = 1..Len(components)
         /\ DOMAIN commandMarkers = 1..Len(commandMarkers)
         /\ Prioritised(rules) /\ Prioritised(commandMarkers)
<1>1. rules \in Seq(AnyRule) /\ Descending(rules)
  BY DEF IInv, ListsInv
<1>2. components \in Seq(ComponentFns) /\ commandMarkers \in Seq(CommandMarker)
      /\ serialized \in Seq(Components) /\ markerSlots = Len(commandMarkers)
      /\ fns \in Seq(DOMAIN components) /\ Len(serialized) = Len(fns)
  BY DEF IInv, TypeOK, FnsIdsAgree
<1>3. \A r \in AnyRule : r.priority \in Nat
  BY PrioritiesAssumption DEF AnyRule
<1>4. \A r \in CommandMarker : r.priority \in Nat
  BY PrioritiesAssumption DEF CommandMarker
<1>5. Prioritised(rules)
  BY <1>1, <1>3 DEF Prioritised
<1>6. Prioritised(commandMarkers)
  BY <1>2, <1>4 DEF Prioritised
<1>. QED  BY <1>1, <1>2, <1>5, <1>6

\* New components disturb neither what FnsIds nor what slots mean.
LEMMA Continued ==
  ASSUME IInv, NEW new, Continues(new, components)
  PROVE  /\ Registered(new) /\ Len(components) <= Len(new)
         /\ new \in Seq(ComponentFns) /\ Len(new) \in Nat /\ DOMAIN new = 1..Len(new)
         /\ \A i \in 1..Len(components) : new[i] = components[i]
         /\ \A i \in 1..Len(new), k \in 1..Len(commandMarkers) :
              new[i].markers[k] =
                IF <<commandMarkers[k].marker, new[i].component>> \in given
                THEN commandMarkers[k].marker ELSE NoFns
         /\ \A p \in given : Has(new, p[2])
         /\ fns \in Seq(1..Len(new))
         /\ \A n \in 1..Len(fns) : new[fns[n]].component = serialized[n]
<1>1. /\ Registered(new) /\ Len(components) <= Len(new)
      /\ new \in Seq(ComponentFns) /\ Len(new) \in Nat /\ DOMAIN new = 1..Len(new)
      /\ \A i \in 1..Len(components) : new[i] = components[i]
      /\ \A i \in (Len(components) + 1)..Len(new) : new[i] = NewFns(new[i].component)
  BY DEF Continues, Registered
<1>2. /\ Len(components) \in Nat /\ Len(commandMarkers) \in Nat
      /\ markerSlots = Len(commandMarkers) /\ fns \in Seq(1..Len(components))
      /\ DOMAIN fns = 1..Len(fns) /\ DOMAIN components = 1..Len(components)
  BY Shape
<1>3. \A p \in given : Has(new, p[2])
  BY <1>1, <1>2 DEF IInv, GivenInv, Has
<1>4. fns \in Seq(1..Len(new))
  <2>1. 1..Len(components) \subseteq 1..Len(new)
    BY <1>1, <1>2
  <2>. QED  BY <1>2, <2>1, SeqMonotonic
<1>5. \A n \in 1..Len(fns) : new[fns[n]].component = serialized[n]
  <2>. TAKE n \in 1..Len(fns)
  <2>1. fns[n] \in 1..Len(components) /\ components[fns[n]].component = serialized[n]
    BY <1>2 DEF IInv, FnsIdsAgree
  <2>. QED  BY <1>1, <2>1
<1>6. ASSUME NEW i \in 1..Len(new), NEW k \in 1..Len(commandMarkers)
      PROVE  new[i].markers[k] =
                IF <<commandMarkers[k].marker, new[i].component>> \in given
                THEN commandMarkers[k].marker ELSE NoFns
  <2>1. CASE i \in 1..Len(components)
    BY <1>1, <2>1 DEF IInv, SlotInv
  <2>2. CASE i \in (Len(components) + 1)..Len(new)
    <3>0. new[i] \in ComponentFns
      BY <1>1
    <3>1. new[i].component \in Components
      BY <3>0 DEF ComponentFns
    <3>2. new[i].markers[k] = NoFns
      BY <1>1, <1>2, <2>2, <3>1, NewFnsType
    <3>3. <<commandMarkers[k].marker, new[i].component>> \notin given
      <4>. SUFFICES ASSUME <<commandMarkers[k].marker, new[i].component>> \in given
                    PROVE  FALSE
        OBVIOUS
      <4>1. Has(components, new[i].component)
        BY DEF IInv, GivenInv
      <4>2. PICK j \in 1..Len(components) : components[j].component = new[i].component
        BY <4>1 DEF Has
      <4>3. j \in 1..Len(new) /\ new[j].component = new[i].component /\ i # j
        BY <1>1, <1>2, <2>2, <4>2
      <4>. QED  BY <1>1, <4>3 DEF Registered
    <3>. QED  BY <3>2, <3>3
  <2>. QED  BY <1>1, <1>2, <2>1, <2>2
<1>. QED  BY <1>1, <1>3, <1>4, <1>5, <1>6

\* The functions of a rule start where those of earlier rules end.
LEMMA GroupIndex ==
  ASSUME NEW group \in Groups, NEW c \in ToSet(group)
  PROVE  /\ SelectInSeq(group, LAMBDA g : g = c) \in 1..Len(group)
         /\ group[SelectInSeq(group, LAMBDA g : g = c)] = c
<1>. DEFINE is == {i \in 1..Len(group) : group[i] = c}
<1>1. group \in Seq(Components)
  BY GroupsAssumption
<1>2. is # {} /\ is \subseteq Nat
  BY <1>1 DEF ToSet
<1>3. SelectInSeq(group, LAMBDA g : g = c) = Min(is)
  BY <1>2 DEF SelectInSeq
<1>. HIDE DEF is
<1>4. Min(is) \in is
  BY <1>2, MinIsLeast
<1>. QED  BY <1>3, <1>4 DEF is

\* Registering a rule appends its functions and leaves the others where they are.
LEMMA RegisterRuleKeepsIInv ==
  ASSUME IInv, NEW group \in Groups, NEW priority \in RulePriorities,
         RegisterRule(group, priority)
  PROVE  IInv'
<1>. DEFINE new == WithComponents(group)
            ids == [i \in DOMAIN group |-> ComponentIndex(components', group[i])]
            e   == [components |-> ToSet(group), priority |-> priority,
                    fns |-> [c \in ToSet(group) |->
                               Len(fns) + SelectInSeq(group, LAMBDA g : g = c)]]
<1>1. PICK i \in InsertionPoints(rules, priority) : rules' = InsertAt(rules, i, e)
  BY DEF RegisterRule
<1>2. /\ components' = new /\ fns' = fns \o ids /\ serialized' = serialized \o group
      /\ UNCHANGED <<markerSlots, commandMarkers, given>>
      /\ Len(rules) + Len(commandMarkers) < MaxRegistered
  BY DEF RegisterRule
<1>3. group \in Seq(Components) /\ group # <<>> /\ DOMAIN group = 1..Len(group)
      /\ Len(group) \in Nat
  BY GroupsAssumption
<1>4. /\ rules \in Seq(AnyRule) /\ commandMarkers \in Seq(CommandMarker)
      /\ serialized \in Seq(Components)
      /\ Len(rules) \in Nat /\ Len(fns) \in Nat /\ Len(components) \in Nat
      /\ Len(commandMarkers) \in Nat /\ Len(serialized) = Len(fns)
      /\ markerSlots = Len(commandMarkers)
      /\ DOMAIN rules = 1..Len(rules) /\ DOMAIN fns = 1..Len(fns)
      /\ DOMAIN components = 1..Len(components)
      /\ Prioritised(rules)
  BY Shape
<1>5. Continues(new, components) /\ \A k \in 1..Len(group) : Has(new, group[k])
  BY <1>3, <1>4, ManyComponents DEF IInv, UniqueInv
<1>6. /\ Registered(new) /\ Len(components) <= Len(new)
      /\ new \in Seq(ComponentFns) /\ Len(new) \in Nat /\ DOMAIN new = 1..Len(new)
      /\ \A j \in 1..Len(new), k \in 1..Len(commandMarkers) :
           new[j].markers[k] =
             IF <<commandMarkers[k].marker, new[j].component>> \in given
             THEN commandMarkers[k].marker ELSE NoFns
      /\ \A p \in given : Has(new, p[2])
      /\ fns \in Seq(1..Len(new))
      /\ \A n \in 1..Len(fns) : new[fns[n]].component = serialized[n]
  BY <1>5, Continued
<1>. HIDE DEF new
<1>7. /\ ids \in Seq(1..Len(new)) /\ Len(ids) = Len(group)
      /\ \A k \in 1..Len(group) : new[ids[k]].component = group[k]
  <2>1. ASSUME NEW k \in 1..Len(group)
        PROVE  ids[k] \in 1..Len(new) /\ new[ids[k]].component = group[k]
    <3>1. PICK j \in 1..Len(new) : new[j].component = group[k]
      BY <1>5 DEF Has
    <3>2. ComponentIndex(new, group[k]) = j
      BY <1>6, <3>1, IndexOf
    <3>. QED  BY <1>2, <1>3, <3>1, <3>2
  <2>2. ids = [k \in 1..Len(group) |-> ids[k]]
    BY <1>3
  <2>. HIDE DEF ids
  <2>3. ids \in [1..Len(group) -> 1..Len(new)]
    BY <2>1, <2>2
  <2>4. ids \in Seq(1..Len(new)) /\ Len(ids) = Len(group)
    BY <1>3, <2>3
  <2>. QED  BY <2>1, <2>4
<1>. HIDE DEF ids
<1>8. /\ fns' \in Seq(1..Len(new)) /\ Len(fns') = Len(fns) + Len(group)
      /\ \A n \in 1..Len(fns) : fns'[n] = fns[n]
      /\ \A k \in 1..Len(group) : fns'[Len(fns) + k] = ids[k]
  <2>1. fns \in Seq(1..Len(new)) /\ ids \in Seq(1..Len(new)) /\ Len(ids) = Len(group)
    BY <1>6, <1>7
  <2>. DEFINE S == 1..Len(new)
              f == fns
  <2>. HIDE DEF S, f
  <2>2. /\ fns \o ids \in Seq(1..Len(new)) /\ Len(fns \o ids) = Len(fns) + Len(ids)
        /\ \A n \in 1..Len(fns) : (fns \o ids)[n] = fns[n]
        /\ \A k \in 1..Len(ids) : (fns \o ids)[Len(fns) + k] = ids[k]
    <3>1. f \in Seq(S) /\ ids \in Seq(S)
      BY <2>1 DEF S, f
    <3>2. /\ f \o ids \in Seq(S) /\ Len(f \o ids) = Len(f) + Len(ids)
          /\ \A n \in 1..Len(f) : (f \o ids)[n] = f[n]
          /\ \A k \in 1..Len(ids) : (f \o ids)[Len(f) + k] = ids[k]
      BY <3>1
    <3>. QED  BY <3>2 DEF S, f
  <2>. QED  BY <1>2, <2>1, <2>2
<1>9. /\ serialized' \in Seq(Components) /\ Len(serialized') = Len(fns) + Len(group)
      /\ \A n \in 1..Len(fns) : serialized'[n] = serialized[n]
      /\ \A k \in 1..Len(group) : serialized'[Len(fns) + k] = group[k]
  <2>1. serialized \in Seq(Components) /\ Len(serialized) = Len(fns)
    BY <1>4
  <2>2. /\ serialized \o group \in Seq(Components)
        /\ Len(serialized \o group) = Len(serialized) + Len(group)
        /\ \A n \in 1..Len(serialized) : (serialized \o group)[n] = serialized[n]
        /\ \A k \in 1..Len(group) : (serialized \o group)[Len(serialized) + k] = group[k]
    BY <1>3, <2>1
  <2>. QED  BY <1>2, <2>1, <2>2
<1>10. /\ e.components = ToSet(group) /\ e.priority = priority
       /\ e.fns \in [ToSet(group) -> (Len(fns) + 1)..(Len(fns) + Len(group))]
       /\ \A c \in ToSet(group) : serialized'[e.fns[c]] = c
  <2>1. ASSUME NEW c \in ToSet(group)
        PROVE  /\ e.fns[c] \in (Len(fns) + 1)..(Len(fns) + Len(group))
               /\ serialized'[e.fns[c]] = c
    <3>. DEFINE k == SelectInSeq(group, LAMBDA g : g = c)
    <3>1. k \in 1..Len(group) /\ group[k] = c
      BY GroupIndex
    <3>2. e.fns[c] = Len(fns) + k
      OBVIOUS
    <3>. HIDE DEF k, e
    <3>. QED  BY <1>3, <1>4, <1>9, <3>1, <3>2
  <2>. QED  BY <2>1
<1>11. ToSet(group) \subseteq Components
  BY <1>3 DEF ToSet
<1>12. e \in AnyRule
  <2>0. (Len(fns) + 1)..(Len(fns) + Len(group)) \subseteq Nat
    BY <1>3, <1>4
  <2>1. e.fns \in [ToSet(group) -> Nat]
    BY <1>10, <2>0
  <2>2. e = [components |-> ToSet(group), priority |-> priority, fns |-> e.fns]
    OBVIOUS
  <2>. HIDE DEF e
  <2>. QED  BY <1>11, <2>1, <2>2 DEF AnyRule
<1>13. e \in [components : {ToSet(group)}, priority : RulePriorities,
              fns : [ToSet(group) -> 1..Len(fns')]]
  <2>0. (Len(fns) + 1)..(Len(fns) + Len(group)) \subseteq 1..Len(fns')
    BY <1>3, <1>4, <1>8
  <2>1. e.fns \in [ToSet(group) -> 1..Len(fns')]
    BY <1>10, <2>0
  <2>2. e = [components |-> ToSet(group), priority |-> priority, fns |-> e.fns]
    OBVIOUS
  <2>. HIDE DEF e
  <2>. QED  BY <2>1, <2>2
<1>. HIDE DEF e
<1>14. i \in 1..(Len(rules) + 1) /\ Prioritised(rules') /\ Descending(rules')
  <2>1. e.priority \in Nat /\ e.priority = priority
    BY <1>10, PrioritiesAssumption
  <2>2. i \in InsertionPoints(rules, e.priority)
    BY <2>1
  <2>3. Descending(rules)
    BY DEF IInv, ListsInv
  <2>. QED  BY <1>1, <1>4, <1>12, <2>1, <2>2, <2>3, StaysDescending
<1>15. /\ rules' \in Seq(AnyRule) /\ Len(rules') = Len(rules) + 1
       /\ \A j \in 1..(i - 1) : rules'[j] = rules[j]
       /\ rules'[i] = e
       /\ \A j \in i..Len(rules) : rules'[j + 1] = rules[j]
  <2>. DEFINE list == rules
  <2>1. list \in Seq(AnyRule) /\ i \in 1..(Len(list) + 1) /\ rules' = InsertAt(list, i, e)
    BY <1>1, <1>4, <1>14
  <2>. HIDE DEF list
  <2>2. /\ rules' \in Seq(AnyRule) /\ Len(rules') = Len(list) + 1
        /\ \A j \in 1..(i - 1) : rules'[j] = list[j]
        /\ rules'[i] = e
        /\ \A j \in i..Len(list) : rules'[j + 1] = list[j]
    BY <1>12, <2>1, Inserted
  <2>. QED  BY <2>2 DEF list
<1>16. \A j \in 1..Len(rules') : rules'[j] = e \/ \E k \in 1..Len(rules) : rules'[j] = rules[k]
  <2>. TAKE j \in 1..Len(rules')
  <2>1. CASE j < i
    BY <1>4, <1>14, <1>15, <2>1
  <2>2. CASE j > i
    <3>1. j - 1 \in i..Len(rules) /\ j - 1 \in 1..Len(rules) /\ (j - 1) + 1 = j
      BY <1>4, <1>14, <1>15, <2>2
    <3>. QED  BY <1>15, <3>1
  <2>. QED  BY <1>14, <1>15, <2>1, <2>2
<1>17. TypeOK'
  <2>1. Len(rules') + Len(commandMarkers') <= MaxRegistered
    BY <1>2, <1>4, <1>15, BoundsAssumption
  <2>2. ASSUME NEW j \in DOMAIN rules'
        PROVE  \E g \in Groups : rules'[j] \in
                 [components : {ToSet(g)}, priority : RulePriorities,
                  fns : [ToSet(g) -> DOMAIN fns']]
    <3>1. DOMAIN fns' = 1..Len(fns') /\ j \in 1..Len(rules')
      BY <1>8, <1>15, <2>2
    <3>2. CASE rules'[j] = e
      BY <1>13, <3>1, <3>2
    <3>3. CASE \E k \in 1..Len(rules) : rules'[j] = rules[k]
      <4>1. PICK k \in 1..Len(rules) : rules'[j] = rules[k]
        BY <3>3
      <4>2. PICK g \in Groups : rules[k] \in
              [components : {ToSet(g)}, priority : RulePriorities,
               fns : [ToSet(g) -> DOMAIN fns]]
        BY <1>4 DEF IInv, TypeOK, ReplicationRule
      <4>3. DOMAIN fns \subseteq DOMAIN fns'
        BY <1>3, <1>4, <1>8, <3>1
      <4>4. rules[k].fns \in [ToSet(g) -> DOMAIN fns']
        BY <4>2, <4>3
      <4>. QED  BY <4>1, <4>2, <4>4
    <3>. QED  BY <1>16, <3>1, <3>2, <3>3
  <2>3. fns' \in Seq(DOMAIN components') /\ components' \in Seq(ComponentFns)
    BY <1>2, <1>6, <1>8
  <2>4. /\ \A j \in DOMAIN components' : Len(components'[j].markers) = markerSlots'
        /\ commandMarkers' \in Seq(CommandMarker) /\ markerSlots' = Len(commandMarkers')
    BY <1>2, <1>4, <1>6 DEF Registered
  <2>5. serialized' \in Seq(Components) /\ given' \subseteq Markers \X Components
    BY <1>2, <1>9 DEF IInv, TypeOK
  <2>. QED  BY <2>1, <2>2, <2>3, <2>4, <2>5 DEF TypeOK, ReplicationRule
<1>18. ListsInv'
  BY <1>2, <1>14, <1>15 DEF IInv, ListsInv, Descending
<1>19. UniqueInv'
  BY <1>2, <1>6 DEF IInv, UniqueInv, Registered
<1>20. GivenInv'
  BY <1>2, <1>6 DEF IInv, GivenInv, Has
<1>21. SlotInv'
  BY <1>2, <1>6 DEF SlotInv
<1>22. FnsIdsAgree'
  <2>1. Len(fns') = Len(serialized') /\ DOMAIN fns' = 1..Len(fns')
    BY <1>8, <1>9
  <2>2. ASSUME NEW n \in 1..Len(fns')
        PROVE  components'[fns'[n]].component = serialized'[n]
    <3>1. CASE n \in 1..Len(fns)
      BY <1>2, <1>6, <1>8, <1>9, <3>1
    <3>2. CASE n > Len(fns)
      <4>1. n - Len(fns) \in 1..Len(group) /\ Len(fns) + (n - Len(fns)) = n
        BY <1>3, <1>4, <1>8, <3>2
      <4>2. fns'[n] = ids[n - Len(fns)] /\ serialized'[n] = group[n - Len(fns)]
        BY <1>8, <1>9, <4>1
      <4>. QED  BY <1>2, <1>7, <4>1, <4>2
    <3>. QED  BY <1>4, <1>8, <3>1, <3>2
  <2>3. ASSUME NEW j \in DOMAIN rules', NEW c \in rules'[j].components
        PROVE  serialized'[rules'[j].fns[c]] = c
    <3>1. j \in 1..Len(rules')
      BY <1>15, <2>3
    <3>2. CASE rules'[j] = e
      BY <1>10, <2>3, <3>2
    <3>3. CASE \E k \in 1..Len(rules) : rules'[j] = rules[k]
      <4>1. PICK k \in 1..Len(rules) : rules'[j] = rules[k]
        BY <3>3
      <4>2. PICK g \in Groups : rules[k] \in
              [components : {ToSet(g)}, priority : RulePriorities,
               fns : [ToSet(g) -> DOMAIN fns]]
        BY <1>4 DEF IInv, TypeOK, ReplicationRule
      <4>3. rules[k].fns[c] \in 1..Len(fns)
        BY <1>4, <2>3, <4>1, <4>2
      <4>4. serialized[rules[k].fns[c]] = c
        BY <1>4, <2>3, <4>1 DEF IInv, FnsIdsAgree
      <4>. QED  BY <1>9, <4>1, <4>3, <4>4
    <3>. QED  BY <1>16, <3>1, <3>2, <3>3
  <2>. QED  BY <2>1, <2>2, <2>3 DEF FnsIdsAgree
<1>. QED  BY <1>17, <1>18, <1>19, <1>20, <1>21, <1>22 DEF IInv

\* A registered marker has one place.
LEMMA MarkerIdOf ==
  ASSUME IInv, NEW m, MarkerId(m) # 0
  PROVE  MarkerId(m) \in 1..Len(commandMarkers) /\ commandMarkers[MarkerId(m)].marker = m
<1>. DEFINE is == {k \in 1..Len(commandMarkers) : commandMarkers[k].marker = m}
<1>1. MarkerId(m) = IF is # {} THEN Min(is) ELSE 0
  BY DEF MarkerId, SelectInSeq
<1>2. is \subseteq Nat
  OBVIOUS
<1>. HIDE DEF is
<1>3. MarkerId(m) \in is
  BY <1>1, <1>2, MinIsLeast
<1>. QED  BY <1>3 DEF is

\* Registering a marker moves the slots in the same way as the markers.
LEMMA RegisterMarkerKeepsIInv ==
  ASSUME IInv, NEW m \in Markers, NEW priority \in MarkerPriorities, NEW history \in BOOLEAN,
         RegisterMarker(m, priority, history)
  PROVE  IInv'
<1>. DEFINE e == [marker |-> m, priority |-> priority, history |-> history]
<1>1. PICK i \in InsertionPoints(commandMarkers, priority) :
        /\ commandMarkers' = InsertAt(commandMarkers, i, e)
        /\ components' = [k \in DOMAIN components |->
             [components[k] EXCEPT !.markers = SlotAdded(@, i)]]
  BY DEF RegisterMarker
<1>2. /\ markerSlots' = markerSlots + 1 /\ UNCHANGED <<rules, fns, serialized, given>>
      /\ Len(rules) + Len(commandMarkers) < MaxRegistered
      /\ \A k \in DOMAIN commandMarkers : commandMarkers[k].marker # m
  BY DEF RegisterMarker
<1>3. /\ commandMarkers \in Seq(CommandMarker) /\ components \in Seq(ComponentFns)
      /\ Len(rules) \in Nat /\ Len(components) \in Nat /\ Len(commandMarkers) \in Nat
      /\ markerSlots = Len(commandMarkers)
      /\ DOMAIN components = 1..Len(components)
      /\ DOMAIN commandMarkers = 1..Len(commandMarkers)
      /\ DOMAIN fns = 1..Len(fns) /\ fns \in Seq(1..Len(components))
      /\ Prioritised(commandMarkers)
  BY Shape
<1>4. /\ Registered(components)
      /\ \A k, l \in 1..Len(commandMarkers) :
           commandMarkers[k].marker = commandMarkers[l].marker => k = l
      /\ Descending(commandMarkers)
  BY DEF IInv, UniqueInv, ListsInv
<1>5. e \in CommandMarker /\ e.priority = priority /\ e.marker = m /\ priority \in Nat
  BY PrioritiesAssumption DEF CommandMarker
<1>. HIDE DEF e
<1>6. i \in 1..(Len(commandMarkers) + 1) /\ Descending(commandMarkers')
  <2>1. e.priority \in Nat /\ i \in InsertionPoints(commandMarkers, e.priority)
    BY <1>5
  <2>. QED  BY <1>1, <1>3, <1>4, <1>5, <2>1, StaysDescending
<1>7. /\ commandMarkers' \in Seq(CommandMarker)
      /\ Len(commandMarkers') = Len(commandMarkers) + 1
      /\ \A j \in 1..(i - 1) : commandMarkers'[j] = commandMarkers[j]
      /\ commandMarkers'[i] = e
      /\ \A j \in i..Len(commandMarkers) : commandMarkers'[j + 1] = commandMarkers[j]
  <2>. DEFINE list == commandMarkers
  <2>1. commandMarkers' = InsertAt(list, i, e)
    BY <1>1
  <2>2. list \in Seq(CommandMarker) /\ i \in 1..(Len(list) + 1) /\ e \in CommandMarker
    BY <1>3, <1>5, <1>6
  <2>. HIDE DEF list
  <2>3. /\ InsertAt(list, i, e) \in Seq(CommandMarker)
        /\ Len(InsertAt(list, i, e)) = Len(list) + 1
        /\ \A j \in 1..(i - 1) : InsertAt(list, i, e)[j] = list[j]
        /\ InsertAt(list, i, e)[i] = e
        /\ \A j \in i..Len(list) : InsertAt(list, i, e)[j + 1] = list[j]
    BY <2>2, Inserted
  <2>4. /\ commandMarkers' \in Seq(CommandMarker) /\ Len(commandMarkers') = Len(list) + 1
        /\ \A j \in 1..(i - 1) : commandMarkers'[j] = list[j]
        /\ commandMarkers'[i] = e
        /\ \A j \in i..Len(list) : commandMarkers'[j + 1] = list[j]
    BY <2>1, <2>3
  <2>. QED  BY <2>4 DEF list
<1>8. ASSUME NEW k \in 1..Len(components)
      PROVE  /\ components'[k] \in ComponentFns
             /\ components'[k].component = components[k].component
             /\ Len(components'[k].markers) = Len(commandMarkers')
             /\ \A j \in 1..(i - 1) : components'[k].markers[j] = components[k].markers[j]
             /\ components'[k].markers[i] = NoFns
             /\ \A j \in i..Len(commandMarkers) :
                  components'[k].markers[j + 1] = components[k].markers[j]
  <2>. DEFINE slots == components[k].markers
              moved == InsertAt(slots, i, NoFns)
  <2>1. components[k] \in ComponentFns /\ Len(slots) = Len(commandMarkers)
    BY <1>3, <1>4 DEF Registered
  <2>2. slots \in Seq(Markers \cup {NoFns}) /\ NoFns \in Markers \cup {NoFns}
    BY <2>1 DEF ComponentFns
  <2>3. components'[k] = [components[k] EXCEPT !.markers = moved]
    BY <1>1, <1>3 DEF SlotAdded
  <2>4. i \in 1..(Len(slots) + 1)
    BY <1>6, <2>1
  <2>. DEFINE S == Markers \cup {NoFns}
  <2>7. slots \in Seq(S) /\ NoFns \in S
    BY <2>2
  <2>. HIDE DEF slots, S
  <2>8. /\ InsertAt(slots, i, NoFns) \in Seq(S)
        /\ Len(InsertAt(slots, i, NoFns)) = Len(slots) + 1
        /\ \A j \in 1..(i - 1) : InsertAt(slots, i, NoFns)[j] = slots[j]
        /\ InsertAt(slots, i, NoFns)[i] = NoFns
        /\ \A j \in i..Len(slots) : InsertAt(slots, i, NoFns)[j + 1] = slots[j]
    BY <2>4, <2>7, Inserted
  <2>5. /\ moved \in Seq(Markers \cup {NoFns}) /\ Len(moved) = Len(slots) + 1
        /\ \A j \in 1..(i - 1) : moved[j] = slots[j]
        /\ moved[i] = NoFns
        /\ \A j \in i..Len(slots) : moved[j + 1] = slots[j]
    BY <2>8 DEF S
  <2>. HIDE DEF moved
  <2>6. /\ components'[k] \in ComponentFns /\ components'[k].markers = moved
        /\ components'[k].component = components[k].component
    BY <2>1, <2>3, <2>5 DEF ComponentFns
  <2>. QED  BY <1>7, <2>1, <2>5, <2>6 DEF slots
<1>9. /\ components' \in Seq(ComponentFns) /\ Len(components') = Len(components)
      /\ DOMAIN components' = DOMAIN components
  <2>1. DOMAIN components' = 1..Len(components)
    BY <1>1, <1>3
  <2>2. components' \in [1..Len(components) -> ComponentFns]
    BY <1>1, <1>3, <1>8, <2>1
  <2>. QED  BY <1>3, <2>1, <2>2
<1>10. TypeOK'
  <2>1. Len(rules') + Len(commandMarkers') <= MaxRegistered
    BY <1>2, <1>3, <1>7, BoundsAssumption
  <2>2. \A j \in DOMAIN rules' : \E g \in Groups : rules'[j] \in
          [components : {ToSet(g)}, priority : RulePriorities,
           fns : [ToSet(g) -> DOMAIN fns']]
    BY <1>2 DEF IInv, TypeOK, ReplicationRule
  <2>3. fns' \in Seq(DOMAIN components') /\ components' \in Seq(ComponentFns)
    BY <1>2, <1>3, <1>9
  <2>4. markerSlots' = Len(commandMarkers')
    BY <1>2, <1>3, <1>7
  <2>5. \A j \in DOMAIN components' : Len(components'[j].markers) = markerSlots'
    BY <1>3, <1>8, <1>9, <2>4
  <2>6. serialized' \in Seq(Components) /\ given' \subseteq Markers \X Components
    BY <1>2 DEF IInv, TypeOK
  <2>. QED  BY <1>7, <2>1, <2>2, <2>3, <2>4, <2>5, <2>6 DEF TypeOK, ReplicationRule
<1>11. ListsInv'
  BY <1>2, <1>6 DEF IInv, ListsInv, Descending
<1>12. ASSUME NEW k \in 1..Len(commandMarkers')
       PROVE  \/ k = i
              \/ k # i /\ \E j \in 1..Len(commandMarkers) :
                   /\ commandMarkers'[k] = commandMarkers[j]
                   /\ k = IF j < i THEN j ELSE j + 1
                   /\ \A n \in 1..Len(components) :
                        components'[n].markers[k] = components[n].markers[j]
  <2>1. CASE k < i
    <3>1. k \in 1..(i - 1) /\ k \in 1..Len(commandMarkers)
      BY <1>3, <1>6, <2>1
    <3>2. commandMarkers'[k] = commandMarkers[k]
          /\ \A n \in 1..Len(components) : components'[n].markers[k] = components[n].markers[k]
      BY <1>7, <1>8, <3>1
    <3>. QED  BY <2>1, <3>1, <3>2, <1>6
  <2>2. CASE k > i
    <3>1. k - 1 \in i..Len(commandMarkers) /\ k - 1 \in 1..Len(commandMarkers)
          /\ (k - 1) + 1 = k /\ ~(k - 1 < i)
      BY <1>3, <1>6, <1>7, <2>2
    <3>2. commandMarkers'[(k - 1) + 1] = commandMarkers[k - 1]
          /\ \A n \in 1..Len(components) :
               components'[n].markers[(k - 1) + 1] = components[n].markers[k - 1]
      BY <1>7, <1>8, <3>1
    <3>. QED  BY <2>2, <3>1, <3>2, <1>6
  <2>. QED  BY <1>6, <2>1, <2>2
<1>13. UniqueInv'
  <2>1. Registered(components)'
    BY <1>2, <1>3, <1>4, <1>7, <1>8, <1>9 DEF Registered
  <2>2. ASSUME NEW k \in 1..Len(commandMarkers'), NEW l \in 1..Len(commandMarkers'),
               commandMarkers'[k].marker = commandMarkers'[l].marker
        PROVE  k = l
    <3>1. \A n \in 1..Len(commandMarkers) : commandMarkers[n].marker # m
      BY <1>2, <1>3
    <3>2. commandMarkers'[i].marker = m
      BY <1>5, <1>7
    <3>3. CASE k = i \/ l = i
      BY <1>12, <2>2, <3>1, <3>2, <3>3
    <3>4. CASE k # i /\ l # i
      <4>1. PICK a \in 1..Len(commandMarkers) :
              commandMarkers'[k] = commandMarkers[a] /\ k = IF a < i THEN a ELSE a + 1
        BY <1>12, <3>4
      <4>2. PICK b \in 1..Len(commandMarkers) :
              commandMarkers'[l] = commandMarkers[b] /\ l = IF b < i THEN b ELSE b + 1
        BY <1>12, <3>4
      <4>3. a = b
        BY <1>4, <2>2, <4>1, <4>2
      <4>. QED  BY <4>1, <4>2, <4>3
    <3>. QED  BY <3>3, <3>4
  <2>. QED  BY <2>1, <2>2 DEF UniqueInv
<1>14. GivenInv'
  <2>. SUFFICES ASSUME NEW p \in given
                PROVE  /\ \E k \in 1..Len(commandMarkers') : commandMarkers'[k].marker = p[1]
                       /\ Has(components', p[2])
    BY <1>2 DEF GivenInv
  <2>1. PICK j \in 1..Len(commandMarkers) : commandMarkers[j].marker = p[1]
    BY DEF IInv, GivenInv
  <2>2. \E k \in 1..Len(commandMarkers') : commandMarkers'[k] = commandMarkers[j]
    <3>1. CASE j < i
      BY <1>3, <1>6, <1>7, <3>1
    <3>2. CASE j >= i
      <4>1. j \in i..Len(commandMarkers) /\ j + 1 \in 1..Len(commandMarkers')
        BY <1>3, <1>6, <1>7, <3>2
      <4>. QED  BY <1>7, <4>1
    <3>. QED  BY <1>6, <3>1, <3>2
  <2>3. Has(components', p[2])
    BY <1>8, <1>9 DEF IInv, GivenInv, Has
  <2>. QED  BY <2>1, <2>2, <2>3
<1>15. SlotInv'
  <2>. SUFFICES ASSUME NEW n \in 1..Len(components), NEW k \in 1..Len(commandMarkers')
                PROVE  components'[n].markers[k] =
                         IF <<commandMarkers'[k].marker, components[n].component>> \in given
                         THEN commandMarkers'[k].marker ELSE NoFns
    BY <1>2, <1>8, <1>9 DEF SlotInv
  <2>1. CASE k = i
    <3>1. commandMarkers'[k].marker = m /\ components'[n].markers[k] = NoFns
      BY <1>5, <1>7, <1>8, <2>1
    <3>2. <<m, components[n].component>> \notin given
      BY <1>2, <1>3 DEF IInv, GivenInv
    <3>. QED  BY <3>1, <3>2
  <2>2. CASE k # i
    <3>1. PICK j \in 1..Len(commandMarkers) :
            /\ commandMarkers'[k] = commandMarkers[j]
            /\ components'[n].markers[k] = components[n].markers[j]
      BY <1>12, <2>2
    <3>. QED  BY <3>1 DEF IInv, SlotInv
  <2>. QED  BY <2>1, <2>2
<1>16. FnsIdsAgree'
  <2>1. \A n \in DOMAIN fns : fns[n] \in 1..Len(components)
    BY <1>3
  <2>2. \A n \in DOMAIN fns : components'[fns[n]].component = serialized[n]
    BY <1>8, <2>1 DEF IInv, FnsIdsAgree
  <2>. QED  BY <1>2, <2>2 DEF IInv, FnsIdsAgree
<1>. QED  BY <1>10, <1>11, <1>13, <1>14, <1>15, <1>16 DEF IInv

\* What a slot should hold, before a step and after it.
Filled(m, c) == IF <<m, c>> \in given THEN m ELSE NoFns
FilledNext(m, c) == IF <<m, c>> \in given' THEN m ELSE NoFns

\* A step that only replaces the functions of a component, which it may add, and
\* adds to `given` for that component only.
Sets(c, entry) ==
  LET list == WithComponent(components, c)
      n    == ComponentIndex(list, c)
  IN  /\ UNCHANGED <<rules, fns, markerSlots, commandMarkers, serialized>>
      /\ components' = [list EXCEPT ![n] = entry]
      /\ entry \in ComponentFns /\ entry.component = c
      /\ Len(entry.markers) = Len(commandMarkers)
      /\ given' \subseteq Markers \X Components
      /\ \A p \in given' :
           \/ p \in given
           \/ /\ \E k \in 1..Len(commandMarkers) : commandMarkers[k].marker = p[1]
              /\ p[2] = c
      /\ \A k \in 1..Len(commandMarkers), d \in Components :
           d # c => (<<commandMarkers[k].marker, d>> \in given' <=>
                     <<commandMarkers[k].marker, d>> \in given)
      /\ \A k \in 1..Len(commandMarkers) :
           list[n].markers[k] = Filled(commandMarkers[k].marker, c) =>
             entry.markers[k] = FilledNext(commandMarkers[k].marker, c)

\* Such a step keeps the invariant.
LEMMA SettingKeepsIInv ==
  ASSUME IInv, NEW c \in Components, NEW entry, Sets(c, entry)
  PROVE  IInv'
<1>. DEFINE list == WithComponent(components, c)
            n    == ComponentIndex(list, c)
<1>0. /\ UNCHANGED <<rules, fns, markerSlots, commandMarkers, serialized>>
      /\ components' = [list EXCEPT ![n] = entry]
      /\ entry \in ComponentFns /\ entry.component = c
      /\ Len(entry.markers) = Len(commandMarkers)
      /\ given' \subseteq Markers \X Components
      /\ \A p \in given' :
           \/ p \in given
           \/ /\ \E k \in 1..Len(commandMarkers) : commandMarkers[k].marker = p[1]
              /\ p[2] = c
      /\ \A k \in 1..Len(commandMarkers), d \in Components :
           d # c => (<<commandMarkers[k].marker, d>> \in given' <=>
                     <<commandMarkers[k].marker, d>> \in given)
      /\ \A k \in 1..Len(commandMarkers) :
           list[n].markers[k] = Filled(commandMarkers[k].marker, c) =>
             entry.markers[k] = FilledNext(commandMarkers[k].marker, c)
  BY DEF Sets
<1>1. /\ fns \in Seq(1..Len(components)) /\ Len(components) \in Nat
      /\ markerSlots = Len(commandMarkers) /\ Len(commandMarkers) \in Nat
      /\ DOMAIN fns = 1..Len(fns)
  BY Shape
<1>2. Continues(list, components) /\ Has(list, c)
  BY <1>1, OneComponent DEF IInv, UniqueInv
<1>. HIDE DEF list
<1>3. /\ Registered(list) /\ list \in Seq(ComponentFns) /\ Len(list) \in Nat
      /\ DOMAIN list = 1..Len(list)
      /\ \A i \in 1..Len(list), k \in 1..Len(commandMarkers) :
           list[i].markers[k] =
             IF <<commandMarkers[k].marker, list[i].component>> \in given
             THEN commandMarkers[k].marker ELSE NoFns
      /\ \A p \in given : Has(list, p[2])
      /\ fns \in Seq(1..Len(list))
      /\ \A i \in 1..Len(fns) : list[fns[i]].component = serialized[i]
  BY ONLY IInv, <1>2, Continued
<1>4. n \in 1..Len(list) /\ list[n].component = c
  <2>1. PICK i \in 1..Len(list) : list[i].component = c
    BY <1>2 DEF Has
  <2>. QED  BY <1>3, <2>1, IndexOf
<1>. HIDE DEF n
<1>5. /\ components' \in Seq(ComponentFns) /\ Len(components') = Len(list)
      /\ DOMAIN components' = 1..Len(list)
      /\ components'[n] = entry
      /\ \A i \in 1..Len(list) : i # n => components'[i] = list[i]
  BY <1>0, <1>3, <1>4
<1>6. \A i \in 1..Len(list) : /\ components'[i].component = list[i].component
                              /\ Len(components'[i].markers) = Len(list[i].markers)
  <2>1. Len(list[n].markers) = Len(commandMarkers)
    BY <1>1, <1>3, <1>4 DEF Registered
  <2>. QED  BY <1>0, <1>4, <1>5, <2>1
<1>7. TypeOK'
  <2>1. Len(rules') + Len(commandMarkers') <= MaxRegistered
        /\ commandMarkers' \in Seq(CommandMarker) /\ serialized' \in Seq(Components)
        /\ markerSlots' = Len(commandMarkers')
    BY <1>0 DEF IInv, TypeOK
  <2>2. \A j \in DOMAIN rules' : \E g \in Groups : rules'[j] \in
          [components : {ToSet(g)}, priority : RulePriorities,
           fns : [ToSet(g) -> DOMAIN fns']]
    BY <1>0 DEF IInv, TypeOK, ReplicationRule
  <2>3. fns' \in Seq(DOMAIN components')
    BY <1>0, <1>3, <1>5
  <2>4. \A j \in DOMAIN components' : Len(components'[j].markers) = markerSlots'
    BY <1>0, <1>3, <1>5, <1>6 DEF Registered
  <2>. QED  BY <1>0, <1>5, <2>1, <2>2, <2>3, <2>4 DEF TypeOK, ReplicationRule
<1>8. ListsInv'
  BY <1>0 DEF IInv, ListsInv, Descending
<1>9. UniqueInv'
  BY <1>0, <1>3, <1>5, <1>6 DEF IInv, UniqueInv, Registered
<1>10. GivenInv'
  <2>. SUFFICES ASSUME NEW p \in given'
                PROVE  /\ \E k \in 1..Len(commandMarkers) : commandMarkers[k].marker = p[1]
                       /\ Has(components', p[2])
    BY <1>0 DEF GivenInv
  <2>1. \E k \in 1..Len(commandMarkers) : commandMarkers[k].marker = p[1]
    BY <1>0 DEF IInv, GivenInv
  <2>2. Has(list, p[2])
    BY <1>0, <1>2, <1>3
  <2>. QED  BY <1>5, <1>6, <2>1, <2>2 DEF Has
<1>11. SlotInv'
  <2>. SUFFICES ASSUME NEW i \in 1..Len(list), NEW k \in 1..Len(commandMarkers)
                PROVE  components'[i].markers[k] =
                         FilledNext(commandMarkers[k].marker, list[i].component)
    BY <1>0, <1>5, <1>6 DEF SlotInv, FilledNext
  <2>1. CASE i = n
    BY <1>0, <1>3, <1>4, <1>5, <2>1 DEF Filled
  <2>2. CASE i # n
    <3>1. list[i].component # c
      BY <1>3, <1>4, <2>2 DEF Registered
    <3>2. list[i] \in ComponentFns
      BY <1>3
    <3>3. list[i].component \in Components
      BY <3>2 DEF ComponentFns
    <3>. QED  BY <1>0, <1>3, <1>5, <2>2, <3>1, <3>3 DEF FilledNext
  <2>. QED  BY <2>1, <2>2
<1>12. FnsIdsAgree'
  <2>1. \A i \in 1..Len(fns) : fns[i] \in 1..Len(list)
    BY <1>3
  <2>2. \A i \in 1..Len(fns) : components'[fns[i]].component = serialized[i]
    BY <1>3, <1>6, <2>1
  <2>. QED  BY <1>0, <1>1, <2>2 DEF IInv, FnsIdsAgree
<1>. QED  BY <1>7, <1>8, <1>9, <1>10, <1>11, <1>12 DEF IInv

\* Where a component is in the list it was added to.
LEMMA PlaceOf ==
  ASSUME IInv, NEW c \in Components, NEW list, list = WithComponent(components, c),
         NEW n, n = ComponentIndex(list, c)
  PROVE  /\ n \in 1..Len(list) /\ list[n] \in ComponentFns /\ list[n].component = c
         /\ Len(list[n].markers) = Len(commandMarkers)
<1>1. markerSlots = Len(commandMarkers) /\ Len(commandMarkers) \in Nat
  BY Shape
<1>2. Continues(list, components) /\ Has(list, c)
  BY <1>1, OneComponent DEF IInv, UniqueInv
<1>3. Registered(list) /\ list \in Seq(ComponentFns)
  BY <1>2 DEF Continues, Registered
<1>4. PICK i \in 1..Len(list) : list[i].component = c
  BY <1>2 DEF Has
<1>5. n = i
  BY <1>3, <1>4, IndexOf
<1>. QED  BY <1>1, <1>3, <1>4, <1>5 DEF Registered

\* Functions for a marker go to its slot.
LEMMA SetMarkerFnsKeepsIInv ==
  ASSUME IInv, NEW m \in Markers, NEW c \in Components, SetMarkerFns(m, c)
  PROVE  IInv'
<1>. DEFINE list  == WithComponent(components, c)
            n     == ComponentIndex(list, c)
            id    == MarkerId(m)
            entry == [list[n] EXCEPT !.markers = [@ EXCEPT ![id] = m]]
<1>1. /\ components' = [list EXCEPT ![n] = entry]
      /\ given' = given \cup {<<m, c>>}
      /\ UNCHANGED <<rules, fns, markerSlots, commandMarkers, serialized>>
      /\ id # 0
  BY DEF SetMarkerFns
<1>2. /\ n \in 1..Len(list) /\ list[n] \in ComponentFns /\ list[n].component = c
      /\ Len(list[n].markers) = Len(commandMarkers)
  BY PlaceOf
<1>3. id \in 1..Len(commandMarkers) /\ commandMarkers[id].marker = m
  BY <1>1, MarkerIdOf
<1>. HIDE DEF id
<1>4. list[n].markers \in Seq(Markers \cup {NoFns})
  BY <1>2 DEF ComponentFns
<1>5. /\ entry.markers \in Seq(Markers \cup {NoFns})
      /\ Len(entry.markers) = Len(commandMarkers)
      /\ entry.markers[id] = m
      /\ \A k \in 1..Len(commandMarkers) : k # id => entry.markers[k] = list[n].markers[k]
  <2>. DEFINE slots == list[n].markers
              S     == Markers \cup {NoFns}
  <2>1. slots \in Seq(S) /\ m \in S /\ id \in 1..Len(slots) /\ Len(slots) = Len(commandMarkers)
    BY <1>2, <1>3, <1>4
  <2>2. entry.markers = [slots EXCEPT ![id] = m]
    BY <1>2 DEF ComponentFns
  <2>. HIDE DEF slots, S, entry
  <2>3. /\ [slots EXCEPT ![id] = m] \in Seq(S)
        /\ Len([slots EXCEPT ![id] = m]) = Len(slots)
        /\ [slots EXCEPT ![id] = m][id] = m
        /\ \A k \in 1..Len(slots) : k # id => [slots EXCEPT ![id] = m][k] = slots[k]
    BY <2>1
  <2>. QED  BY <2>1, <2>2, <2>3 DEF slots, S
<1>6. entry \in ComponentFns /\ entry.component = c
  BY <1>2, <1>5 DEF ComponentFns
<1>7. \A k \in 1..Len(commandMarkers) : commandMarkers[k].marker = m => k = id
  BY <1>3 DEF IInv, UniqueInv
<1>8. \A k \in 1..Len(commandMarkers) :
        list[n].markers[k] = Filled(commandMarkers[k].marker, c) =>
          entry.markers[k] = FilledNext(commandMarkers[k].marker, c)
  <2>. TAKE k \in 1..Len(commandMarkers)
  <2>1. CASE k = id
    BY <1>1, <1>3, <1>5, <2>1 DEF FilledNext
  <2>2. CASE k # id
    <3>1. commandMarkers[k].marker # m
      BY <1>7, <2>2
    <3>2. entry.markers[k] = list[n].markers[k]
      BY <1>5, <2>2
    <3>3. <<commandMarkers[k].marker, c>> \in given' <=> <<commandMarkers[k].marker, c>> \in given
      BY <1>1, <3>1
    <3>. HIDE DEF entry, list, n
    <3>. QED  BY <3>2, <3>3 DEF Filled, FilledNext
  <2>. QED  BY <2>1, <2>2
<1>9. given' \subseteq Markers \X Components
  BY <1>1 DEF IInv, TypeOK
<1>10. \A p \in given' : \/ p \in given
                         \/ /\ \E k \in 1..Len(commandMarkers) : commandMarkers[k].marker = p[1]
                            /\ p[2] = c
  BY <1>1, <1>3
<1>11. \A k \in 1..Len(commandMarkers), d \in Components :
         d # c => (<<commandMarkers[k].marker, d>> \in given' <=>
                   <<commandMarkers[k].marker, d>> \in given)
  BY <1>1
<1>12. entry.component = c /\ Len(entry.markers) = Len(commandMarkers)
  BY <1>5, <1>6
<1>. HIDE DEF entry
<1>13. Sets(c, entry)
  BY <1>1, <1>6, <1>8, <1>9, <1>10, <1>11, <1>12 DEF Sets
<1>. QED  BY <1>13, SettingKeepsIInv

\* The default functions have no slot.
LEMMA SetCommandFnsKeepsIInv ==
  ASSUME IInv, NEW c \in Components, SetCommandFns(c)
  PROVE  IInv'
<1>. DEFINE list  == WithComponent(components, c)
            n     == ComponentIndex(list, c)
            entry == [list[n] EXCEPT !.commands = "custom"]
<1>1. /\ components' = [list EXCEPT ![n] = entry]
      /\ UNCHANGED <<rules, fns, markerSlots, commandMarkers, serialized, given>>
  BY DEF SetCommandFns
<1>2. /\ n \in 1..Len(list) /\ list[n] \in ComponentFns /\ list[n].component = c
  BY PlaceOf
<1>3. /\ entry \in ComponentFns /\ entry.component = c /\ entry.markers = list[n].markers
  BY <1>2 DEF ComponentFns
<1>4. given' \subseteq Markers \X Components
  BY <1>1 DEF IInv, TypeOK
<1>5. \A k \in 1..Len(commandMarkers) :
        list[n].markers[k] = Filled(commandMarkers[k].marker, c) =>
          entry.markers[k] = FilledNext(commandMarkers[k].marker, c)
  BY <1>1, <1>3 DEF Filled, FilledNext
<1>6. Len(entry.markers) = Len(commandMarkers)
  BY <1>3, PlaceOf
<1>7. \A p \in given' : p \in given
  BY <1>1
<1>8. \A k \in 1..Len(commandMarkers), d \in Components :
         d # c => (<<commandMarkers[k].marker, d>> \in given' <=>
                   <<commandMarkers[k].marker, d>> \in given)
  BY <1>1
<1>. HIDE DEF entry
<1>9. Sets(c, entry)
  BY <1>1, <1>3, <1>4, <1>5, <1>6, <1>7, <1>8 DEF Sets
<1>. QED  BY <1>9, SettingKeepsIInv

-----------------------------------------------------------------------------
(* The theorems.                                                           *)

\* Every step keeps the invariant.
LEMMA NextIInv == IInv /\ [Next]_vars => IInv'
<1>. SUFFICES ASSUME IInv, [Next]_vars PROVE IInv'
  OBVIOUS
<1>1. ASSUME NEW group \in Groups, NEW priority \in RulePriorities,
             RegisterRule(group, priority)
      PROVE  IInv'
  BY <1>1, RegisterRuleKeepsIInv
<1>2. ASSUME NEW m \in Markers, NEW priority \in MarkerPriorities, NEW history \in BOOLEAN,
             RegisterMarker(m, priority, history)
      PROVE  IInv'
  BY <1>2, RegisterMarkerKeepsIInv
<1>3. ASSUME NEW m \in Markers, NEW c \in Components, SetMarkerFns(m, c)
      PROVE  IInv'
  BY <1>3, SetMarkerFnsKeepsIInv
<1>4. ASSUME NEW c \in Components, SetCommandFns(c)
      PROVE  IInv'
  BY <1>4, SetCommandFnsKeepsIInv
<1>5. CASE UNCHANGED vars
  <2>1. TypeOK'
    BY <1>5 DEF IInv, vars, TypeOK, ReplicationRule
  <2>2. ListsInv' /\ UniqueInv' /\ GivenInv' /\ SlotInv' /\ FnsIdsAgree'
    BY <1>5 DEF IInv, vars, ListsInv, UniqueInv, GivenInv, SlotInv, FnsIdsAgree,
                Registered, Has, Descending
  <2>. QED  BY <2>1, <2>2 DEF IInv
<1>. QED  BY <1>1, <1>2, <1>3, <1>4, <1>5 DEF Next

\* The invariant holds, whatever an app registers and in whatever order.
THEOREM SpecIInv == Spec => []IInv
<1>1. Init => IInv
  BY InitIInv
<1>2. IInv /\ [Next]_vars => IInv'
  BY NextIInv
<1>. QED  BY <1>1, <1>2, PTL DEF Spec

\* Every list keeps its type; in particular every component's functions have as
\* many slots as there are markers (register_marker, ComponentFns::new).
THEOREM TypeCorrect == Spec => []TypeOK
<1>1. IInv => TypeOK
  BY DEF IInv
<1>. QED  BY <1>1, SpecIInv, PTL

\* A FnsId stands for the component it was registered for, so that a client and
\* a server with the same rules understand each other, whatever else they
\* register in between.
THEOREM FnsIdsMatch == Spec => []FnsIdsAgree
<1>1. IInv => FnsIdsAgree
  BY DEF IInv
<1>. QED  BY <1>1, SpecIInv, PTL

\* Whatever the order of registration, a component is replicated with the
\* functions of a matching rule such that none with a higher priority matches.
THEOREM HighestRules == Spec => []HighestRuleWins
<1>1. IInv => HighestRuleWins
  <2>. SUFFICES ASSUME IInv, NEW archetype \in SUBSET Components, NEW c \in Components
                PROVE
                  LET covering == {i \in DOMAIN rules :
                                     Matches(rules[i], archetype) /\ c \in rules[i].components}
                      chosen   == ReplicatedArchetype(rules, archetype)
                  IN  IF c \notin DOMAIN chosen THEN covering = {}
                      ELSE \E i \in covering :
                             /\ chosen[c] = rules[i].fns
                             /\ \A j \in covering : rules[j].priority <= rules[i].priority
    BY DEF HighestRuleWins
  <2>1. /\ rules \in Seq(AnyRule) /\ DOMAIN rules = 1..Len(rules)
        /\ Prioritised(rules) /\ Descending(rules)
    BY Shape DEF IInv, ListsInv
  <2>2. DOMAIN ReplicatedArchetype(rules, archetype) = Replicated(rules, archetype)
    BY DEF ReplicatedArchetype
  <2>3. c \in Replicated(rules, archetype) <=> Covering(rules, archetype, c) # {}
    BY <2>1, FirstRuleReplicates
  <2>4. ASSUME c \in Replicated(rules, archetype)
        PROVE  \E i \in Covering(rules, archetype, c) :
                  /\ ReplicatedArchetype(rules, archetype)[c] = rules[i].fns
                  /\ \A j \in Covering(rules, archetype, c) :
                       rules[j].priority <= rules[i].priority
    BY <2>1, <2>4, HighestReplicates
  <2>. QED  BY <2>1, <2>2, <2>3, <2>4 DEF Covering
<1>. QED  BY <1>1, SpecIInv, PTL

\* The removals sent for an entity are those of components it replicated and has
\* no more, with the functions they were replicated with.
THEOREM RemovalsMatch == Spec => []RemovalsUndoReplication
<1>1. IInv => RemovalsUndoReplication
  <2>. SUFFICES ASSUME IInv, NEW archetype \in SUBSET Components,
                       NEW removed \in SUBSET Components
                PROVE  RemovedIds(rules, archetype, removed) =
                         [c \in (DOMAIN ReplicatedArchetype(rules, archetype \cup removed))
                                  \ archetype |->
                            ReplicatedArchetype(rules, archetype \cup removed)[c]]
    BY DEF RemovalsUndoReplication
  <2>1. rules \in Seq(AnyRule)
    BY Shape
  <2>. DEFINE before == ReplicatedArchetype(rules, archetype \cup removed)
              after  == RemovedIds(rules, archetype, removed)
  <2>2. Undone(after, before, archetype)
    BY <2>1, RemovalsAgree
  <2>. HIDE DEF before, after
  <2>3. after = [c \in (DOMAIN before) \ archetype |-> before[c]]
    BY <2>2 DEF Undone
  <2>. QED  BY <2>3 DEF before, after
<1>. QED  BY <1>1, SpecIInv, PTL

\* Slots follow their markers: a component is written by the functions set for
\* the present marker with the highest priority among those that have any, and
\* only they may get old values, if their marker asked for them.
THEOREM HighestMarkers == Spec => []HighestMarkerWrites
<1>1. IInv => HighestMarkerWrites
  <2>. SUFFICES ASSUME IInv, NEW i \in 1..Len(components), NEW present \in SUBSET Markers
                PROVE
                  LET entry == components[i]
                      able  == {k \in DOMAIN commandMarkers :
                                  /\ commandMarkers[k].marker \in present
                                  /\ <<commandMarkers[k].marker, entry.component>> \in given}
                  IN  IF able = {}
                      THEN Writes(entry, present) = entry.commands
                           /\ WritesOld(entry, present) = {}
                      ELSE \E k \in able :
                             /\ \A j \in able :
                                  commandMarkers[j].priority <= commandMarkers[k].priority
                             /\ Writes(entry, present) = commandMarkers[k].marker
                             /\ WritesOld(entry, present) =
                                  {m \in {commandMarkers[k].marker} : commandMarkers[k].history}
    BY Shape DEF HighestMarkerWrites
  <2>. DEFINE entry == components[i]
              able  == {k \in DOMAIN commandMarkers :
                          /\ commandMarkers[k].marker \in present
                          /\ <<commandMarkers[k].marker, entry.component>> \in given}
              k     == First(able)
  <2>1. /\ commandMarkers \in Seq(CommandMarker) /\ components \in Seq(ComponentFns)
        /\ DOMAIN commandMarkers = 1..Len(commandMarkers)
        /\ markerSlots = Len(commandMarkers) /\ Len(commandMarkers) \in Nat
        /\ Prioritised(commandMarkers) /\ Descending(commandMarkers)
        /\ Registered(components)
    BY Shape DEF IInv, ListsInv, UniqueInv
  <2>2. entry \in ComponentFns /\ Len(entry.markers) = Len(commandMarkers)
    BY <2>1 DEF Registered
  <2>3. DOMAIN entry.markers = 1..Len(commandMarkers)
    BY <2>2 DEF ComponentFns
  <2>4. \A n \in 1..Len(commandMarkers) :
          /\ commandMarkers[n].marker \in Markers /\ commandMarkers[n].marker # NoFns
          /\ entry.markers[n] =
               IF <<commandMarkers[n].marker, entry.component>> \in given
               THEN commandMarkers[n].marker ELSE NoFns
    <3>. TAKE n \in 1..Len(commandMarkers)
    <3>1. commandMarkers[n] \in CommandMarker
      BY <2>1
    <3>2. commandMarkers[n].marker \in Markers
      BY <3>1 DEF CommandMarker
    <3>. QED  BY <3>2, NoFnsAssumption DEF IInv, SlotInv
  <2>. HIDE DEF entry
  <2>5. Candidates(entry, present) = able
    BY <2>1, <2>3, <2>4 DEF Candidates, IsPresent
  <2>6. able \subseteq Nat /\ able \subseteq 1..Len(commandMarkers)
    BY <2>1
  <2>7. CASE able = {}
    BY <2>5, <2>7 DEF Writes, WritesOld, entry
  <2>8. CASE able # {}
    <3>1. k \in able /\ \A j \in able : k <= j
      <4>. HIDE DEF able
      <4>. QED  BY <2>6, <2>8, LeastExists DEF First
    <3>2. k \in 1..Len(commandMarkers) /\ commandMarkers[k].marker \in present
          /\ <<commandMarkers[k].marker, entry.component>> \in given
      BY <2>6, <3>1
    <3>3. entry.markers[k] = commandMarkers[k].marker
      BY <2>4, <3>2
    <3>4. ASSUME NEW j \in able PROVE commandMarkers[j].priority <= commandMarkers[k].priority
      <4>1. j \in 1..Len(commandMarkers) /\ k <= j
        BY <2>6, <3>1, <3>4
      <4>2. CASE j = k
        BY <2>1, <4>1, <4>2 DEF Prioritised
      <4>3. CASE k < j
        BY <2>1, <3>2, <4>1, <4>3 DEF Descending, Prioritised
      <4>. QED  BY <3>2, <4>1, <4>2, <4>3
    <3>5. Writes(entry, present) = commandMarkers[k].marker
      <4>. HIDE DEF able, k
      <4>. QED  BY <2>5, <2>8, <3>3 DEF Writes, k
    <3>6. commandMarkers[k].history => NeedHistory(present)
      BY <2>1, <3>2 DEF NeedHistory, IsPresent
    <3>7. WritesOld(entry, present) =
            {m \in {commandMarkers[k].marker} : commandMarkers[k].history}
      <4>1. WritesOld(entry, present) =
              IF NeedHistory(present) /\ able # {} /\ commandMarkers[k].history
              THEN {entry.markers[k]} ELSE {}
        <5>. HIDE DEF able
        <5>. QED  BY <2>5 DEF WritesOld
      <4>. HIDE DEF able, k
      <4>. QED  BY <2>8, <3>3, <3>6, <4>1
    <3>. QED  BY <2>8, <3>1, <3>4, <3>5, <3>7 DEF entry
  <2>. QED  BY <2>7, <2>8
<1>. QED  BY <1>1, SpecIInv, PTL
=============================================================================
