------------------------- MODULE OfflineQueueProofs -------------------------
(***************************************************************************)
(* For any number of events, flushers, deaths and failed writes: at most    *)
(* one flusher sends, the list stays sorted, and a stored event is lost only *)
(* for a reason.                                                            *)
(***************************************************************************)
EXTENDS OfflineQueue, FiniteSetTheorems, TLAPS

\* Two positions are always comparable, and one of them comes first.
LEMMA BeforeIsOrder ==
    ASSUME NEW s \in Seq(Event)
    PROVE  /\ \A i, j \in DOMAIN s : Precedes(s, i, j) \/ Precedes(s, j, i)
           /\ \A i, j \in DOMAIN s : Precedes(s, i, j) /\ Precedes(s, j, i) => i = j
           /\ \A i, j, k \in DOMAIN s :
                 Precedes(s, i, j) /\ Precedes(s, j, k) => Precedes(s, i, k)
           /\ \A i, j \in DOMAIN s : Precedes(s, i, j) => Before(s[i], s[j])
<1>1. \A i \in DOMAIN s : s[i].prio \in Nat /\ s[i].time \in Nat /\ i \in Nat
  <2>1. \A e \in Event : e.prio \in Nat /\ e.time \in Nat
    BY OfflineQueueBounds DEF Event, PrioResult, PrioState
  <2>2. DOMAIN s = 1 .. Len(s) /\ \A i \in DOMAIN s : s[i] \in Event
    OBVIOUS
  <2> QED
    BY <2>1, <2>2
<1> QED
  BY <1>1 DEF Precedes, Before

\* The places of a list's positions are its positions, each taken once.
LEMMA PlacesAreDistinct ==
    ASSUME NEW s \in Seq(Event)
    PROVE  /\ \A i \in DOMAIN s : Place(s, i) \in DOMAIN s
           /\ \A i, j \in DOMAIN s : i # j /\ Precedes(s, i, j) => Place(s, i) < Place(s, j)
           /\ \A k \in DOMAIN s : \E i \in DOMAIN s : Place(s, i) = k
<1> DEFINE n == Len(s)
           Upto(i) == {j \in DOMAIN s : Precedes(s, j, i)}
<1>1. n \in Nat /\ DOMAIN s = 1 .. n
  OBVIOUS
<1>2. IsFiniteSet(1 .. n) /\ Cardinality(1 .. n) = n
  BY <1>1, FS_Interval
<1>3. \A i \in DOMAIN s : /\ IsFiniteSet(Upto(i)) /\ Cardinality(Upto(i)) \in Nat
                          /\ Cardinality(Upto(i)) <= n
  BY <1>1, <1>2, FS_Subset, FS_CardinalityType
<1>4. ASSUME NEW i \in DOMAIN s
      PROVE  Place(s, i) \in 1 .. n
  <2>1. i \in Upto(i)
    BY BeforeIsOrder
  <2>2. Cardinality(Upto(i)) # 0
    BY <1>3, <2>1, FS_EmptySet
  <2>3. Place(s, i) = Cardinality(Upto(i))
    BY DEF Place
  <2> HIDE DEF Upto
  <2> QED
    BY <1>1, <1>3, <2>2, <2>3
<1>5. ASSUME NEW i \in DOMAIN s, NEW j \in DOMAIN s, i # j, Precedes(s, i, j)
      PROVE  Place(s, i) < Place(s, j)
  <2>1. Upto(i) \subseteq Upto(j)
    BY <1>5, BeforeIsOrder
  <2>2. j \in Upto(j) /\ j \notin Upto(i)
    BY <1>5, BeforeIsOrder
  <2>3. /\ Cardinality(Upto(i)) <= Cardinality(Upto(j))
        /\ Cardinality(Upto(i)) # Cardinality(Upto(j))
    BY <1>3, <2>1, <2>2, FS_Subset
  <2> HIDE DEF Upto
  <2>4. Cardinality(Upto(i)) < Cardinality(Upto(j))
    BY <1>3, <2>3
  <2> QED
    BY <2>4 DEF Place, Upto
<1>6. ASSUME NEW k \in DOMAIN s
      PROVE  \E i \in DOMAIN s : Place(s, i) = k
  <2> DEFINE f == [i \in 1 .. n |-> Place(s, i)]
  <2>1. f \in [1 .. n -> 1 .. n]
    BY <1>1, <1>4
  <2>2. \A i, j \in 1 .. n : i # j => f[i] # f[j]
    <3> TAKE i, j \in 1 .. n
    <3> HAVE i # j
    <3>1. Precedes(s, i, j) \/ Precedes(s, j, i)
      BY <1>1, BeforeIsOrder
    <3>2. Place(s, i) < Place(s, j) \/ Place(s, j) < Place(s, i)
      BY <1>1, <1>5, <3>1
    <3>3. Place(s, i) \in Nat /\ Place(s, j) \in Nat
      BY <1>1, <1>4
    <3> QED
      BY <3>2, <3>3
  <2> HIDE DEF f
  <2>3. f \in Injection(1 .. n, 1 .. n)
    BY <2>1, <2>2 DEF Injection, IsInjective
  <2>4. f \in Surjection(1 .. n, 1 .. n)
    BY <1>2, <2>3, FS_Injection
  <2>5. PICK i \in 1 .. n : f[i] = k
    BY <1>1, <2>4 DEF Surjection
  <2> QED
    BY <1>1, <2>5 DEF f
<1> QED
  BY <1>1, <1>4, <1>5, <1>6

\* What sortQueue makes of a list: the same events, as often, in order.
LEMMA SortedList ==
    ASSUME NEW s \in Seq(Event)
    PROVE  /\ Sorted(s) \in Seq(Event) /\ Len(Sorted(s)) = Len(s)
           /\ ToSet(Sorted(s)) = ToSet(s)
           /\ \A k, l \in DOMAIN Sorted(s) : k < l => Before(Sorted(s)[k], Sorted(s)[l])
           /\ IsInjective(s) => IsInjective(Sorted(s))
<1> DEFINE At(k) == CHOOSE i \in DOMAIN s : Place(s, i) = k
           t == Sorted(s)
<1>1. DOMAIN s = 1 .. Len(s) /\ Len(s) \in Nat
  OBVIOUS
<1>2. \A k \in DOMAIN s : At(k) \in DOMAIN s /\ Place(s, At(k)) = k
  BY PlacesAreDistinct
<1>3. \A i \in DOMAIN s : Place(s, i) \in DOMAIN s /\ At(Place(s, i)) = i
  <2> TAKE i \in DOMAIN s
  <2>1. Place(s, i) \in DOMAIN s
    BY PlacesAreDistinct
  <2>2. At(Place(s, i)) \in DOMAIN s /\ Place(s, At(Place(s, i))) = Place(s, i)
    BY <1>2, <2>1
  <2>3. \A j \in DOMAIN s : Place(s, j) = Place(s, i) => j = i
    <3> TAKE j \in DOMAIN s
    <3> Place(s, j) \in Nat /\ Place(s, i) \in Nat
      BY <1>1, PlacesAreDistinct
    <3>1. Precedes(s, i, j) \/ Precedes(s, j, i)
      BY BeforeIsOrder
    <3>2. i # j => Place(s, i) < Place(s, j) \/ Place(s, j) < Place(s, i)
      BY <3>1, PlacesAreDistinct
    <3> QED
      BY <3>2
  <2> HIDE DEF At
  <2> QED
    BY <2>1, <2>2, <2>3
<1>4. t = [k \in DOMAIN s |-> s[At(k)]]
  BY DEF Sorted
<1> HIDE DEF At, t
<1>5. /\ DOMAIN t = DOMAIN s
      /\ \A k \in DOMAIN s : t[k] = s[At(k)] /\ t[k] \in Event
  BY <1>2, <1>4
<1>6. t \in Seq(Event) /\ Len(t) = Len(s)
  BY <1>1, <1>4, <1>5
<1>7. ToSet(t) = ToSet(s)
  <2>1. \A k \in DOMAIN t : \E i \in DOMAIN s : t[k] = s[i]
    BY <1>2, <1>5
  <2>2. \A i \in DOMAIN s : \E k \in DOMAIN t : t[k] = s[i]
    BY <1>3, <1>5
  <2> QED
    BY <2>1, <2>2 DEF ToSet
<1>8. \A k, l \in DOMAIN t : k < l => Before(t[k], t[l])
  <2> SUFFICES ASSUME NEW k \in DOMAIN s, NEW l \in DOMAIN s, k < l
               PROVE  Before(s[At(k)], s[At(l)])
    BY <1>5
  <2>1. ~ Precedes(s, At(l), At(k))
    <3>1. At(l) # At(k)
      BY <1>2
    <3>2. k \in Nat /\ l \in Nat /\ ~ (l < k)
      BY <1>1
    <3> QED
      BY <1>2, <3>1, <3>2, PlacesAreDistinct
  <2> QED
    BY <1>2, <2>1, BeforeIsOrder
<1>9. IsInjective(s) => IsInjective(t)
  <2> SUFFICES ASSUME IsInjective(s), NEW k \in DOMAIN s, NEW l \in DOMAIN s, t[k] = t[l]
               PROVE  k = l
    BY <1>5 DEF IsInjective
  <2>1. At(k) = At(l)
    BY <1>2, <1>5 DEF IsInjective
  <2> QED
    BY <1>2, <2>1
<1> QED
  BY <1>6, <1>7, <1>8, <1>9 DEF t
-----------------------------------------------------------------------------
\* A list with one more event, one less, and two lists one behind the other.
LEMMA Appended ==
    ASSUME NEW s \in Seq(Event), NEW e \in Event
    PROVE  /\ Append(s, e) \in Seq(Event) /\ Len(Append(s, e)) = Len(s) + 1
           /\ ToSet(Append(s, e)) = ToSet(s) \cup {e}
           /\ IsInjective(s) /\ e \notin ToSet(s) => IsInjective(Append(s, e))
<1> DEFINE t == Append(s, e)
<1>1. t \in Seq(Event) /\ Len(t) = Len(s) + 1
  OBVIOUS
<1>2. /\ Len(s) \in Nat /\ DOMAIN s = 1 .. Len(s) /\ DOMAIN t = 1 .. Len(s) + 1
      /\ \A i \in 1 .. Len(s) : t[i] = s[i]
      /\ t[Len(s) + 1] = e
  OBVIOUS
<1> HIDE DEF t
<1>3. ToSet(t) = ToSet(s) \cup {e}
  BY <1>2 DEF ToSet
<1>4. IsInjective(s) /\ e \notin ToSet(s) => IsInjective(t)
  BY <1>2 DEF ToSet, IsInjective
<1> QED
  BY <1>1, <1>3, <1>4 DEF t

LEMMA Joined ==
    ASSUME NEW s \in Seq(Event), NEW t \in Seq(Event)
    PROVE  /\ s \o t \in Seq(Event) /\ Len(s \o t) = Len(s) + Len(t)
           /\ \A i \in 1 .. Len(s) + Len(t) :
                 (s \o t)[i] = IF i <= Len(s) THEN s[i] ELSE t[i - Len(s)]
           /\ ToSet(s \o t) = ToSet(s) \cup ToSet(t)
           /\ s = <<>> => s \o t = t
<1> DEFINE u == s \o t
<1>1. u \in Seq(Event) /\ Len(u) = Len(s) + Len(t) /\ (s = <<>> => u = t)
  OBVIOUS
<1>2. /\ Len(s) \in Nat /\ Len(t) \in Nat
      /\ DOMAIN s = 1 .. Len(s) /\ DOMAIN t = 1 .. Len(t)
      /\ DOMAIN u = 1 .. Len(s) + Len(t)
      /\ \A i \in 1 .. Len(s) + Len(t) : u[i] = IF i <= Len(s) THEN s[i] ELSE t[i - Len(s)]
  OBVIOUS
<1> HIDE DEF u
<1>3. \A i \in DOMAIN s : i \in DOMAIN u /\ u[i] = s[i]
  BY <1>2
<1>4. \A i \in DOMAIN t : i + Len(s) \in DOMAIN u /\ u[i + Len(s)] = t[i]
  BY <1>2
<1>5. \A i \in DOMAIN u : \/ i \in DOMAIN s /\ u[i] = s[i]
                          \/ i - Len(s) \in DOMAIN t /\ u[i] = t[i - Len(s)]
  BY <1>2
<1>6. ToSet(u) = ToSet(s) \cup ToSet(t)
  BY <1>3, <1>4, <1>5 DEF ToSet
<1> QED
  BY <1>1, <1>2, <1>6 DEF u

LEMMA Removed ==
    ASSUME NEW s \in Seq(Event), NEW i \in DOMAIN s
    PROVE  /\ RemoveAt(s, i) \in Seq(Event) /\ Len(RemoveAt(s, i)) = Len(s) - 1
           /\ ToSet(RemoveAt(s, i)) \subseteq ToSet(s)
           /\ ToSet(s) \subseteq ToSet(RemoveAt(s, i)) \cup {s[i]}
           /\ IsInjective(s) => IsInjective(RemoveAt(s, i))
           /\ IsInjective(s) => s[i] \notin ToSet(RemoveAt(s, i))
<1> DEFINE a == SubSeq(s, 1, i - 1)
           b == SubSeq(s, i + 1, Len(s))
           t == a \o b
<1>1. Len(s) \in Nat /\ DOMAIN s = 1 .. Len(s) /\ i \in 1 .. Len(s)
  OBVIOUS
<1>2. /\ a \in Seq(Event) /\ Len(a) = i - 1
      /\ \A j \in 1 .. i - 1 : a[j] = s[j]
  BY <1>1
<1>3. /\ b \in Seq(Event) /\ Len(b) = Len(s) - i
      /\ \A j \in 1 .. Len(s) - i : b[j] = s[i + j]
  BY <1>1
<1> HIDE DEF a, b
<1>a. /\ t \in Seq(Event) /\ Len(t) = Len(a) + Len(b)
      /\ \A j \in 1 .. Len(a) + Len(b) : t[j] = IF j <= Len(a) THEN a[j] ELSE b[j - Len(a)]
  BY <1>2, <1>3, Joined
<1> HIDE DEF t
<1>4. t \in Seq(Event) /\ Len(t) = Len(s) - 1 /\ DOMAIN t = 1 .. Len(s) - 1
  BY <1>1, <1>2, <1>3, <1>a
<1>5. \A j \in 1 .. Len(s) - 1 : t[j] = IF j < i THEN s[j] ELSE s[j + 1]
  <2> TAKE j \in 1 .. Len(s) - 1
  <2>1. CASE j < i
    <3>1. j \in 1 .. i - 1 /\ j <= Len(a) /\ j \in 1 .. Len(a) + Len(b)
      BY <1>1, <1>2, <1>3, <2>1
    <3> QED
      BY <1>2, <1>a, <2>1, <3>1
  <2>2. CASE ~ (j < i)
    <3>1. /\ j - Len(a) \in 1 .. Len(s) - i /\ ~ (j <= Len(a))
          /\ j \in 1 .. Len(a) + Len(b)
          /\ i + (j - Len(a)) = j + 1
      BY <1>1, <1>2, <1>3, <2>2
    <3>2. b[j - Len(a)] = s[i + (j - Len(a))]
      BY <1>3, <3>1
    <3> QED
      BY <1>a, <2>2, <3>1, <3>2
  <2> QED
    BY <2>1, <2>2
<1>6. ToSet(t) \subseteq ToSet(s)
  BY <1>1, <1>4, <1>5 DEF ToSet
<1>7. \A j \in DOMAIN s : j = i \/ \E k \in DOMAIN t : t[k] = s[j]
  <2> TAKE j \in DOMAIN s
  <2>1. CASE j < i
    BY <1>1, <1>4, <1>5, <2>1
  <2>2. CASE j > i
    <3> j - 1 \in DOMAIN t /\ t[j - 1] = s[j]
      BY <1>1, <1>4, <1>5, <2>2
    <3> QED
      OBVIOUS
  <2> QED
    BY <1>1, <2>1, <2>2
<1>8. ToSet(s) \subseteq ToSet(t) \cup {s[i]}
  BY <1>7 DEF ToSet
<1>9. IsInjective(s) => IsInjective(t)
  <2> SUFFICES ASSUME IsInjective(s), NEW j \in DOMAIN t, NEW k \in DOMAIN t, t[j] = t[k]
               PROVE  j = k
    BY DEF IsInjective
  <2> DEFINE From(l) == IF l < i THEN l ELSE l + 1
  <2>1. \A l \in DOMAIN t : From(l) \in DOMAIN s /\ t[l] = s[From(l)]
    BY <1>1, <1>4, <1>5
  <2>2. From(j) = From(k)
    <3> HIDE DEF From
    <3> QED
      BY <2>1 DEF IsInjective
  <2> QED
    BY <1>1, <1>4, <2>2
<1>10. IsInjective(s) => s[i] \notin ToSet(t)
  <2> SUFFICES ASSUME IsInjective(s), NEW j \in DOMAIN t, t[j] = s[i]
               PROVE  FALSE
    BY DEF ToSet
  <2>1. PICK l \in DOMAIN s : l # i /\ t[j] = s[l]
    BY <1>1, <1>4, <1>5
  <2> QED
    BY <1>1, <2>1 DEF IsInjective
<1> QED
  BY <1>4, <1>6, <1>8, <1>9, <1>10 DEF RemoveAt, t, a, b

LEMMA Behead ==
    ASSUME NEW s \in Seq(Event), s # <<>>
    PROVE  /\ Tail(s) \in Seq(Event) /\ Len(Tail(s)) = Len(s) - 1
           /\ Head(s) \in ToSet(s) /\ Head(s) \in Event
           /\ ToSet(Tail(s)) \subseteq ToSet(s)
           /\ ToSet(s) \subseteq ToSet(Tail(s)) \cup {Head(s)}
           /\ IsInjective(s) => IsInjective(Tail(s))
           /\ (\A i, j \in DOMAIN s : i < j => Before(s[i], s[j]))
              => \A i, j \in DOMAIN Tail(s) : i < j => Before(Tail(s)[i], Tail(s)[j])
<1> DEFINE t == Tail(s)
           h == Head(s)
<1>1. /\ Len(s) \in Nat \ {0} /\ DOMAIN s = 1 .. Len(s)
      /\ h = s[1] /\ h \in Event
  OBVIOUS
<1>2. /\ t \in Seq(Event) /\ Len(t) = Len(s) - 1 /\ DOMAIN t = 1 .. Len(s) - 1
      /\ \A j \in DOMAIN t : t[j] = s[j + 1]
  OBVIOUS
<1> HIDE DEF t, h
<1>3. \A j \in DOMAIN t : j + 1 \in DOMAIN s /\ j \in Nat
  BY <1>1, <1>2
<1>4. \A j \in DOMAIN s : j = 1 \/ (j - 1 \in DOMAIN t /\ t[j - 1] = s[j])
  BY <1>1, <1>2
<1>5. /\ h \in ToSet(s) /\ ToSet(t) \subseteq ToSet(s)
      /\ ToSet(s) \subseteq ToSet(t) \cup {h}
  <2>1. h \in ToSet(s)
    BY <1>1 DEF ToSet
  <2>2. ToSet(t) \subseteq ToSet(s)
    BY <1>2, <1>3 DEF ToSet
  <2>3. ToSet(s) \subseteq ToSet(t) \cup {h}
    BY <1>1, <1>4 DEF ToSet
  <2> QED
    BY <2>1, <2>2, <2>3
<1>6. IsInjective(s) => IsInjective(t)
  BY <1>2, <1>3 DEF IsInjective
<1>7. (\A i, j \in DOMAIN s : i < j => Before(s[i], s[j]))
      => \A i, j \in DOMAIN t : i < j => Before(t[i], t[j])
  BY <1>2, <1>3
<1> QED
  BY <1>1, <1>2, <1>5, <1>6, <1>7 DEF t, h

\* A set of positions that is not empty has a last one.
LEMMA Newest ==
    ASSUME NEW n \in Nat, NEW S \in SUBSET (1 .. n), S # {}
    PROVE  \E i \in S : \A j \in S : j <= i
<1> DEFINE m == Cardinality(S)
           Upto(i) == {j \in S : j <= i}
           f == [i \in S |-> Cardinality(Upto(i))]
<1>1. IsFiniteSet(S) /\ m \in Nat
  <2> IsFiniteSet(1 .. n)
    BY FS_Interval
  <2> IsFiniteSet(S)
    BY FS_Subset
  <2> QED
    BY FS_CardinalityType
<1>2. IsFiniteSet(1 .. m) /\ Cardinality(1 .. m) = m
  BY <1>1, FS_Interval
<1>3. \A i \in S : /\ IsFiniteSet(Upto(i)) /\ Cardinality(Upto(i)) \in Nat
                   /\ Cardinality(Upto(i)) <= m
                   /\ (Cardinality(Upto(i)) = m => Upto(i) = S)
  BY <1>1, FS_Subset, FS_CardinalityType
<1>4. \A i \in S : i \in Upto(i)
  OBVIOUS
<1>5. \A i \in S : Cardinality(Upto(i)) # 0
  BY <1>3, <1>4, FS_EmptySet
<1>6. f \in [S -> 1 .. m]
  <2> HIDE DEF Upto, m
  <2> QED
    BY <1>1, <1>3, <1>5
<1>7. \A i, j \in S : i < j => Cardinality(Upto(i)) # Cardinality(Upto(j))
  <2> SUFFICES ASSUME NEW i \in S, NEW j \in S, i < j
               PROVE  Cardinality(Upto(i)) # Cardinality(Upto(j))
    OBVIOUS
  <2>1. j <= j /\ ~ (j <= i) /\ \A k \in S : k <= i => k <= j
    <3> \A k \in S : k \in Int
      OBVIOUS
    <3> QED
      OBVIOUS
  <2>2. Upto(i) \subseteq Upto(j) /\ j \in Upto(j) /\ j \notin Upto(i)
    BY <2>1
  <2> HIDE DEF Upto
  <2> QED
    BY <1>3, <2>2, FS_Subset
<1>8. f \in Injection(S, 1 .. m)
  <2>1. \A i, j \in S : i < j \/ j < i \/ i = j
    OBVIOUS
  <2> HIDE DEF Upto, m
  <2> QED
    BY <1>6, <1>7, <2>1 DEF Injection, IsInjective
<1>9. f \in Surjection(S, 1 .. m)
  <2> HIDE DEF f
  <2> QED
    BY <1>2, <1>8, FS_Injection
<1>10. m # 0
  BY <1>1, FS_EmptySet
<1>11. PICK i \in S : f[i] = m
  <2> HIDE DEF f
  <2> QED
    BY <1>1, <1>9, <1>10 DEF Surjection
<1>12. Upto(i) = S
  BY <1>3, <1>11
<1> QED
  BY <1>12

-----------------------------------------------------------------------------
Ordered(s) == \A i, j \in DOMAIN s : i < j => Before(s[i], s[j])

LEMMA VictimsListed ==
    ASSUME TypeOK
    PROVE  \A i \in Victims : i \in DOMAIN queue
<1>1. queue \in Seq(Event) /\ Len(queue) \in Nat /\ DOMAIN queue = 1 .. Len(queue)
      /\ MaxItems \in Nat \ {0}
  BY OfflineQueueBounds DEF TypeOK
<1>2. Len(queue) >= MaxItems => Len(queue) \in DOMAIN queue
  BY <1>1
<1> QED
  BY <1>1, <1>2 DEF Victims

\* What making room leaves of the list.
LEMMA RoomIsMade ==
    ASSUME TypeOK, NEW kept,
           kept = IF Victims = {} THEN queue ELSE RemoveAt(queue, CHOOSE i \in Victims : TRUE)
    PROVE  /\ kept \in Seq(Event) /\ ToSet(kept) \subseteq ToSet(queue)
           /\ {queue[i] : i \in Victims} \subseteq Event
           /\ ToSet(queue) \subseteq ToSet(kept) \cup {queue[i] : i \in Victims}
           /\ Len(queue) <= MaxItems => Len(kept) < MaxItems
           /\ IsInjective(queue) => IsInjective(kept)
<1> DEFINE states == {i \in DOMAIN queue : queue[i].prio = PrioState}
           n == Len(queue)
<1>1. /\ queue \in Seq(Event) /\ n \in Nat /\ DOMAIN queue = 1 .. n
      /\ \A i \in DOMAIN queue : queue[i] \in Event
      /\ MaxItems \in Nat \ {0}
  BY OfflineQueueBounds DEF TypeOK
<1>2. states \in SUBSET (1 .. n) /\ (states # {} => \E i \in states : \A j \in states : j <= i)
  <2>1. states \in SUBSET (1 .. n)
    BY <1>1
  <2> HIDE DEF states
  <2> QED
    BY <1>1, <2>1, Newest
<1>3. Victims = IF n < MaxItems THEN {}
                ELSE IF states = {} THEN {n}
                ELSE {i \in states : \A j \in states : j <= i}
  BY DEF Victims
<1> HIDE DEF states
<1>4. Victims \subseteq DOMAIN queue
  <2>1. CASE n < MaxItems
    BY <1>3, <2>1
  <2>2. CASE ~ (n < MaxItems)
    <3> n \in 1 .. n
      BY <1>1, <2>2
    <3> QED
      BY <1>1, <1>2, <1>3
  <2> QED
    BY <2>1, <2>2
<1>5. n >= MaxItems => Victims # {}
  BY <1>1, <1>2, <1>3
<1>6. CASE Victims = {}
  BY <1>1, <1>5, <1>6
<1>7. CASE Victims # {}
  <2>1. PICK v \in Victims : kept = RemoveAt(queue, v)
    BY <1>7
  <2>2. v \in DOMAIN queue
    BY <1>4
  <2>3. /\ kept \in Seq(Event) /\ Len(kept) = n - 1
        /\ ToSet(kept) \subseteq ToSet(queue)
        /\ ToSet(queue) \subseteq ToSet(kept) \cup {queue[v]}
        /\ IsInjective(queue) => IsInjective(kept)
    <3>1. /\ RemoveAt(queue, v) \in Seq(Event) /\ Len(RemoveAt(queue, v)) = n - 1
          /\ ToSet(RemoveAt(queue, v)) \subseteq ToSet(queue)
          /\ ToSet(queue) \subseteq ToSet(RemoveAt(queue, v)) \cup {queue[v]}
          /\ IsInjective(queue) => IsInjective(RemoveAt(queue, v))
      BY <1>1, <2>2, Removed
    <3> QED
      BY <2>1, <3>1
  <2>4. Len(queue) <= MaxItems => Len(kept) < MaxItems
    <3> Len(queue) \in Nat /\ MaxItems \in Nat /\ Len(kept) = Len(queue) - 1
      BY <1>1, <2>3
    <3> QED
      OBVIOUS
  <2>5. queue[v] \in {queue[i] : i \in Victims} /\ {queue[i] : i \in Victims} \subseteq Event
    BY <1>1, <1>4
  <2> QED
    BY <2>3, <2>4, <2>5
<1> QED
  BY <1>6, <1>7

LEMMA Written ==
    ASSUME TypeOK, NEW s \in Seq(Event), Write(s)
    PROVE  /\ file' \in Seq(Event) /\ stored' \subseteq Event /\ fails' \in Nat
           /\ \/ file' = s /\ stored' = stored \cup ToSet(s)
              \/ UNCHANGED <<file, stored>>
BY DEF TypeOK, Write, ToSet

LEMMA EnqueueChanges ==
    ASSUME TypeOK, NEW e \in calls, Enqueue(e)
    PROVE  /\ queue' \in Seq(Event) /\ Ordered(queue')
           /\ ToSet(queue') \subseteq ToSet(queue) \cup {e}
           /\ ToSet(queue) \subseteq ToSet(queue') \cup dropped'
           /\ dropped \subseteq dropped' /\ dropped' \subseteq Event
           /\ Len(queue) <= MaxItems => Len(queue') <= MaxItems
           /\ IsInjective(queue) /\ e \notin ToSet(queue) => IsInjective(queue')
           /\ Write(queue')
<1> DEFINE kept == IF Victims = {} THEN queue
                   ELSE RemoveAt(queue, CHOOSE i \in Victims : TRUE)
           out == {queue[i] : i \in Victims}
           s == Append(kept, e)
<1>1. /\ kept \in Seq(Event) /\ ToSet(kept) \subseteq ToSet(queue)
      /\ out \subseteq Event
      /\ ToSet(queue) \subseteq ToSet(kept) \cup out
      /\ Len(queue) <= MaxItems => Len(kept) < MaxItems
      /\ IsInjective(queue) => IsInjective(kept)
  BY RoomIsMade
<1>2. queue' = Sorted(s) /\ Write(queue') /\ dropped' = dropped \cup out
  BY DEF Enqueue, Insert
<1> HIDE DEF kept, out
<1>3. e \in Event /\ dropped \subseteq Event /\ MaxItems \in Nat
  BY OfflineQueueBounds DEF TypeOK
<1>4. /\ s \in Seq(Event) /\ Len(s) = Len(kept) + 1
      /\ ToSet(s) = ToSet(kept) \cup {e}
      /\ IsInjective(kept) /\ e \notin ToSet(kept) => IsInjective(s)
  BY <1>1, <1>3, Appended
<1> HIDE DEF s
<1>5. /\ Sorted(s) \in Seq(Event) /\ Len(Sorted(s)) = Len(s) /\ ToSet(Sorted(s)) = ToSet(s)
      /\ Ordered(Sorted(s)) /\ (IsInjective(s) => IsInjective(Sorted(s)))
  BY <1>4, SortedList DEF Ordered
<1>6. Len(queue) <= MaxItems => Len(queue') <= MaxItems
  BY <1>1, <1>2, <1>3, <1>4, <1>5
<1> QED
  BY <1>1, <1>2, <1>3, <1>4, <1>5, <1>6

LEMMA InitLoadChanges ==
    ASSUME TypeOK, InitLoad
    PROVE  /\ queue' \in Seq(Event) /\ Ordered(queue')
           /\ ToSet(queue') = ToSet(queue) \cup ToSet(file)
           /\ queue = <<>> => Len(queue') = Len(file)
           /\ queue = <<>> /\ IsInjective(file) => IsInjective(queue')
<1> DEFINE s == queue \o file
<1>1. /\ s \in Seq(Event) /\ ToSet(s) = ToSet(queue) \cup ToSet(file)
      /\ queue = <<>> => s = file
  BY Joined DEF TypeOK
<1>2. queue' = Sorted(s)
  BY DEF InitLoad, Merge
<1> HIDE DEF s
<1> QED
  BY <1>1, <1>2, SortedList DEF Ordered

LEMMA AcceptedChanges ==
    ASSUME TypeOK, NEW f \in Flushers, FlushAccepted(f)
    PROVE  /\ queue' \in Seq(Event) /\ Len(queue') = Len(queue) - 1
           /\ ToSet(queue') \subseteq ToSet(queue)
           /\ ToSet(queue) \subseteq ToSet(queue') \cup delivered'
           /\ delivered \subseteq delivered' /\ delivered' \subseteq Event
           /\ IsInjective(queue) => IsInjective(queue')
           /\ Ordered(queue) => Ordered(queue')
<1>1. /\ queue \in Seq(Event) /\ queue # <<>> /\ delivered \subseteq Event
      /\ queue' = Tail(queue) /\ delivered' = delivered \cup {Head(queue)}
  BY DEF FlushAccepted, Sending, TypeOK
<1> QED
  BY <1>1, Behead DEF Ordered

\* The steps that leave the list, the file and what became of the events.
Calm ==
    UNCHANGED <<queue, file, ready, stored, early, dropped>> /\ delivered \subseteq delivered'

LEMMA StepChanges ==
    ASSUME TypeOK, [Next]_vars
    PROVE  \/ \E e \in calls : Enqueue(e)
           \/ InitLoad \/ InitBad
           \/ \E f \in Flushers : FlushAccepted(f) \/ FlushClose(f)
           \/ Kill
           \/ Calm
<1>1. ASSUME \E p \in {PrioResult, PrioState} : Call(p)
      PROVE  Calm
  BY <1>1 DEF Call, Calm, memory, outcome
<1>2. ASSUME NEW e \in calls, Abandon(e)
      PROVE  Calm
  BY <1>2 DEF Abandon, Calm, memory, outcome
<1>3. StartService => Calm
  BY DEF StartService, Calm, outcome
<1>4. ASSUME NEW f \in Flushers, FlushCheck(f) \/ FlushFlag(f) \/ FlushLock(f)
      PROVE  Calm
  BY <1>4 DEF FlushCheck, FlushFlag, FlushLock, Calm, memory, outcome
<1>5. ASSUME NEW f \in Flushers, FlushPause(f) \/ FlushDone(f) \/ FlushCancel(f)
      PROVE  Calm
  BY <1>5 DEF FlushPause, FlushDone, FlushCancel, Calm, memory, outcome
<1>6. ASSUME NEW f \in Flushers, FlushError(f)
      PROVE  Calm
  BY <1>6 DEF FlushError, Calm, memory
<1>7. ASSUME NEW e \in ToSet(queue), Refuse(e)
      PROVE  Calm
  BY <1>7 DEF Refuse, Calm, memory
<1>8. UNCHANGED vars => Calm
  BY DEF vars, Calm, memory, outcome
<1> QED
  BY <1>1, <1>2, <1>3, <1>4, <1>5, <1>6, <1>7, <1>8 DEF Next, Proceed

-----------------------------------------------------------------------------
LEMMA InitIInv == Init => IInv
<1> SUFFICES ASSUME Init
             PROVE  IInv
  OBVIOUS
<1>1. TypeOK
  <2>1. queue \in Seq(Event) /\ file \in Seq(Event)
    BY DEF Init
  <2>2. batchCount \in 0 .. Batch
    BY OfflineQueueBounds DEF Init
  <2>3. pc \in [Flushers -> {"idle", "checked", "waiting", "sending", "closing"}]
    BY DEF Init
  <2> QED
    BY <2>1, <2>2, <2>3 DEF Init, TypeOK
<1>2. OneSender
  BY OfflineQueueBounds DEF Init, OneSender
<1>3. ToSet(queue) = {} /\ ToSet(file) = {}
  BY DEF Init, ToSet
<1>4. /\ OldestResultFirst /\ StoredSurvives /\ CallsAreNew
      /\ OnlyReadIsFlushed /\ FileIsBehind
  BY <1>3 DEF Init, OldestResultFirst, StoredSurvives, CallsAreNew, Known, OnlyReadIsFlushed,
              FileIsBehind
<1>5. ListBounded
  BY OfflineQueueBounds DEF Init, ListBounded, IsInjective
<1> QED
  BY <1>1, <1>2, <1>4, <1>5 DEF IInv

\* The types of what a step of the list's own operations changes.
LEMMA ListTypes ==
    ASSUME TypeOK, \/ \E e \in calls : Enqueue(e)
                   \/ InitLoad \/ InitBad
                   \/ \E f \in Flushers : FlushAccepted(f) \/ FlushClose(f)
                   \/ Kill
    PROVE  TypeOK'
<1>1. ASSUME NEW e \in calls, Enqueue(e)
      PROVE  TypeOK'
  <2>1. queue' \in Seq(Event) /\ dropped' \subseteq Event /\ Write(queue')
    BY <1>1, EnqueueChanges
  <2>2. file' \in Seq(Event) /\ stored' \subseteq Event /\ fails' \in Nat
    BY <2>1, Written
  <2> QED
    BY <1>1, <2>1, <2>2 DEF Enqueue, TypeOK, flush
<1>2. ASSUME InitLoad
      PROVE  TypeOK'
  <2>1. queue' \in Seq(Event)
    BY <1>2, InitLoadChanges
  <2> QED
    BY <1>2, <2>1 DEF InitLoad, TypeOK, flush, outcome
<1>3. ASSUME InitBad
      PROVE  TypeOK'
  <2>1. ToSet(file) \subseteq Event /\ ToSet(queue) \subseteq Event
    BY DEF TypeOK, ToSet
  <2>2. queue' \in Seq(Event) /\ file' \in Seq(Event)
    BY <1>3 DEF InitBad
  <2> QED
    <3>1. UNCHANGED <<calls, delivered, refused, stored, clock, kills, early, mutex, pc,
                      isFlushing, batchCount>>
      BY <1>3 DEF InitBad, flush
    <3>2. fails \in Nat /\ fails' = fails + 1 /\ ready' = TRUE /\ starting' = FALSE
      BY <1>3 DEF InitBad, TypeOK
    <3>3. fails' \in Nat
      BY <3>2
    <3>4. ready' \in BOOLEAN /\ starting' \in BOOLEAN
      BY <3>2
    <3>5. dropped' \subseteq Event
      BY <1>3, <2>1 DEF InitBad, TypeOK
    <3> QED
      BY <2>2, <3>1, <3>3, <3>4, <3>5 DEF TypeOK
<1>4. ASSUME NEW f \in Flushers, FlushAccepted(f)
      PROVE  TypeOK'
  <2>1. queue' \in Seq(Event) /\ delivered' \subseteq Event
    BY <1>4, AcceptedChanges
  <2>2. batchCount' \in 0 .. Batch
    BY <1>4, OfflineQueueBounds DEF FlushAccepted, Sending, TypeOK
  <2> QED
    BY <1>4, <2>1, <2>2 DEF FlushAccepted, TypeOK
<1>5. ASSUME NEW f \in Flushers, FlushClose(f)
      PROVE  TypeOK'
  <2>1. file' \in Seq(Event) /\ stored' \subseteq Event /\ fails' \in Nat
    BY <1>5, Written DEF FlushClose, TypeOK
  <2> QED
    BY <1>5, <2>1 DEF FlushClose, TypeOK, memory, outcome
<1>6. ASSUME Kill
      PROVE  TypeOK'
  <2>1. queue' \in Seq(Event)
    BY <1>6 DEF Kill
  <2>2. batchCount' \in 0 .. Batch
    BY <1>6, OfflineQueueBounds DEF Kill
  <2> QED
    <3>1. UNCHANGED <<file, clock, delivered, dropped, refused, stored, early, fails>>
      BY <1>6 DEF Kill, outcome
    <3>2. calls' = {} /\ kills' = kills + 1 /\ ready' = FALSE /\ starting' = FALSE
          /\ mutex' = "free" /\ pc' = [f \in Flushers |-> "idle"] /\ isFlushing' = FALSE
      BY <1>6 DEF Kill
    <3>3. kills' \in Nat /\ pc' \in [Flushers -> {"idle", "checked", "waiting", "sending",
                                                 "closing"}]
      BY <3>2 DEF TypeOK
    <3>4. ready' \in BOOLEAN /\ starting' \in BOOLEAN /\ isFlushing' \in BOOLEAN
      BY <3>2
    <3>5. calls' \subseteq Event /\ mutex' \in Flushers \cup {"free"}
      BY <3>2
    <3> QED
      BY <2>1, <2>2, <3>1, <3>3, <3>4, <3>5 DEF TypeOK
<1> QED
  BY <1>1, <1>2, <1>3, <1>4, <1>5, <1>6

LEMMA TypeStep == TypeOK /\ [Next]_vars => TypeOK'
<1> SUFFICES ASSUME TypeOK, [Next]_vars
             PROVE  TypeOK'
  OBVIOUS
<1>0. Batch \in Nat \ {0} /\ MaxEvents \in Nat
  BY OfflineQueueBounds
<1>1. ASSUME NEW p \in {PrioResult, PrioState}, Call(p)
      PROVE  TypeOK'
  <2>1. [time |-> clock + 1, prio |-> p] \in Event /\ clock' \in Nat
    BY <1>0, <1>1 DEF Call, TypeOK, Event
  <2> QED
    BY <1>1, <2>1 DEF Call, TypeOK, memory, flush, outcome
<1>2. ASSUME NEW e \in calls, Abandon(e)
      PROVE  TypeOK'
  BY <1>2 DEF Abandon, TypeOK, memory, flush, outcome
<1>3. ASSUME StartService
      PROVE  TypeOK'
  BY <1>3 DEF StartService, TypeOK, flush, outcome
<1>4. ASSUME NEW f \in Flushers, FlushCheck(f) \/ FlushFlag(f) \/ FlushLock(f)
      PROVE  TypeOK'
  <2>1. pc' \in [Flushers -> {"idle", "checked", "waiting", "sending", "closing"}]
        /\ mutex' \in Flushers \cup {"free"} /\ batchCount' \in 0 .. Batch
    BY <1>0, <1>4 DEF FlushCheck, FlushFlag, FlushLock, TypeOK
  <2> QED
    BY <1>4, <2>1 DEF FlushCheck, FlushFlag, FlushLock, TypeOK, memory, outcome
<1>5. ASSUME NEW f \in Flushers, FlushPause(f) \/ FlushDone(f) \/ FlushCancel(f)
      PROVE  TypeOK'
  <2>1. pc' \in [Flushers -> {"idle", "checked", "waiting", "sending", "closing"}]
        /\ mutex' \in Flushers \cup {"free"} /\ batchCount' \in 0 .. Batch
    BY <1>0, <1>5 DEF FlushPause, FlushDone, FlushCancel, TypeOK
  <2> QED
    BY <1>5, <2>1 DEF FlushPause, FlushDone, FlushCancel, TypeOK, memory, outcome
<1>6. ASSUME NEW f \in Flushers, FlushError(f)
      PROVE  TypeOK'
  <2>1. Head(queue) \in Event
    BY <1>6, Behead DEF FlushError, Sending, TypeOK
  <2>2. delivered' \subseteq Event
    BY <1>6, <2>1 DEF FlushError, TypeOK
  <2> QED
    BY <1>6, <2>2 DEF FlushError, TypeOK, memory
<1>7. ASSUME NEW e \in ToSet(queue), Refuse(e)
      PROVE  TypeOK'
  <2>1. e \in Event
    BY DEF TypeOK, ToSet
  <2> QED
    BY <1>7, <2>1 DEF Refuse, TypeOK, memory, flush
<1>8. UNCHANGED vars => TypeOK'
  BY DEF vars, memory, flush, outcome, TypeOK
<1> QED
  BY <1>1, <1>2, <1>3, <1>4, <1>5, <1>6, <1>7, <1>8, ListTypes DEF Next, Proceed

\* The flusher inside the mutex is the only one that sends or closes.
LEMMA OneSenderStep == TypeOK /\ OneSender /\ [Next]_vars => OneSender'
<1> SUFFICES ASSUME TypeOK, OneSender, [Next]_vars
             PROVE  OneSender'
  OBVIOUS
<1>0. "free" \notin Flushers /\ DOMAIN pc = Flushers
  BY OfflineQueueBounds DEF TypeOK
<1>1. ASSUME NEW f \in Flushers, FlushCheck(f) \/ FlushFlag(f) \/ FlushLock(f)
      PROVE  OneSender'
  BY <1>0, <1>1 DEF FlushCheck, FlushFlag, FlushLock, OneSender
<1>2. ASSUME NEW f \in Flushers, FlushPause(f) \/ FlushDone(f) \/ FlushCancel(f)
      PROVE  OneSender'
  BY <1>0, <1>2 DEF FlushPause, FlushDone, FlushCancel, OneSender
<1>3. ASSUME NEW f \in Flushers, FlushError(f) \/ FlushClose(f)
      PROVE  OneSender'
  <2>1. CASE FlushError(f)
    BY <1>0, <2>1 DEF FlushError, Sending, OneSender
  <2>2. CASE FlushClose(f)
    <3>1. mutex = f /\ mutex' = "free" /\ pc' = [pc EXCEPT ![f] = "idle"]
      BY <2>2 DEF FlushClose, OneSender
    <3> QED
      BY <1>0, <3>1 DEF OneSender
  <2> QED
    BY <1>3, <2>1, <2>2
<1>4. Kill => OneSender'
  BY <1>0 DEF Kill, OneSender
<1>5. ASSUME UNCHANGED <<mutex, pc>>
      PROVE  OneSender'
  BY <1>5 DEF OneSender
<1>6. ASSUME NEW p \in {PrioResult, PrioState}, Call(p)
      PROVE  UNCHANGED <<mutex, pc>>
  BY <1>6 DEF Call, flush
<1>7. ASSUME NEW e \in calls, Enqueue(e) \/ Abandon(e)
      PROVE  UNCHANGED <<mutex, pc>>
  BY <1>7 DEF Enqueue, Abandon, flush
<1>8. StartService \/ InitLoad \/ InitBad => UNCHANGED <<mutex, pc>>
  BY DEF StartService, InitLoad, InitBad, flush
<1>9. ASSUME NEW e \in ToSet(queue), Refuse(e)
      PROVE  UNCHANGED <<mutex, pc>>
  BY <1>9 DEF Refuse, flush
<1>10. ASSUME NEW f \in Flushers, FlushAccepted(f)
       PROVE  UNCHANGED <<mutex, pc>>
  BY <1>10 DEF FlushAccepted
<1>11. UNCHANGED vars => UNCHANGED <<mutex, pc>>
  BY DEF vars, flush
<1> QED
  BY <1>1, <1>2, <1>3, <1>4, <1>5, <1>6, <1>7, <1>8, <1>9, <1>10, <1>11 DEF Next, Proceed

\* sortQueue follows every addition, and a flush only takes the head away.
LEMMA OrderStep == TypeOK /\ OldestResultFirst /\ [Next]_vars => OldestResultFirst'
<1> SUFFICES ASSUME TypeOK, Ordered(queue), [Next]_vars
             PROVE  Ordered(queue')
  BY DEF OldestResultFirst, Ordered
<1>1. ASSUME NEW e \in calls, Enqueue(e)
      PROVE  Ordered(queue')
  BY <1>1, EnqueueChanges
<1>2. InitLoad => Ordered(queue')
  BY InitLoadChanges
<1>3. InitBad \/ Kill => Ordered(queue')
  BY DEF InitBad, Kill, Ordered
<1>4. ASSUME NEW f \in Flushers, FlushAccepted(f)
      PROVE  Ordered(queue')
  BY <1>4, AcceptedChanges
<1>5. ASSUME UNCHANGED queue
      PROVE  Ordered(queue')
  BY <1>5
<1>6. ASSUME NEW f \in Flushers, FlushClose(f)
      PROVE  UNCHANGED queue
  BY <1>6 DEF FlushClose, memory
<1>7. Calm => UNCHANGED queue
  BY DEF Calm
<1> QED
  BY <1>1, <1>2, <1>3, <1>4, <1>5, <1>6, <1>7, StepChanges

\* The flags: the list is read once in a process, and flushed only then.
LEMMA ReadStep == TypeOK /\ OnlyReadIsFlushed /\ [Next]_vars => OnlyReadIsFlushed'
<1> SUFFICES ASSUME TypeOK, OnlyReadIsFlushed, [Next]_vars
             PROVE  OnlyReadIsFlushed'
  OBVIOUS
<1>0. DOMAIN pc = Flushers
  BY DEF TypeOK
<1>1. ASSUME NEW f \in Flushers, FlushCheck(f) \/ FlushFlag(f) \/ FlushLock(f)
      PROVE  OnlyReadIsFlushed'
  BY <1>0, <1>1 DEF FlushCheck, FlushFlag, FlushLock, OnlyReadIsFlushed, memory
<1>2. ASSUME NEW f \in Flushers, FlushPause(f) \/ FlushDone(f) \/ FlushCancel(f)
      PROVE  OnlyReadIsFlushed'
  BY <1>0, <1>2 DEF FlushPause, FlushDone, FlushCancel, OnlyReadIsFlushed, memory
<1>3. ASSUME NEW f \in Flushers, FlushError(f) \/ FlushClose(f)
      PROVE  OnlyReadIsFlushed'
  <2>1. CASE FlushError(f)
    BY <1>0, <2>1 DEF FlushError, Sending, OnlyReadIsFlushed, memory
  <2>2. CASE FlushClose(f)
    <3>1. pc' = [pc EXCEPT ![f] = "idle"] /\ UNCHANGED <<ready, starting>> /\ pc[f] # "idle"
      BY <2>2 DEF FlushClose, memory
    <3> QED
      BY <1>0, <3>1 DEF OnlyReadIsFlushed
  <2> QED
    BY <1>3, <2>1, <2>2
<1>4. Kill => OnlyReadIsFlushed'
  BY DEF Kill, OnlyReadIsFlushed
<1>5. StartService => OnlyReadIsFlushed'
  BY DEF StartService, OnlyReadIsFlushed, flush
<1>6. InitLoad \/ InitBad => OnlyReadIsFlushed'
  BY DEF InitLoad, InitBad, OnlyReadIsFlushed, flush
<1>7. ASSUME UNCHANGED <<ready, starting, pc>>
      PROVE  OnlyReadIsFlushed'
  BY <1>7 DEF OnlyReadIsFlushed
<1>8. ASSUME NEW p \in {PrioResult, PrioState}, Call(p)
      PROVE  UNCHANGED <<ready, starting, pc>>
  BY <1>8 DEF Call, memory, flush
<1>9. ASSUME NEW e \in calls, Enqueue(e) \/ Abandon(e)
      PROVE  UNCHANGED <<ready, starting, pc>>
  BY <1>9 DEF Enqueue, Abandon, memory, flush
<1>10. ASSUME NEW e \in ToSet(queue), Refuse(e)
       PROVE  UNCHANGED <<ready, starting, pc>>
  BY <1>10 DEF Refuse, memory, flush
<1>11. ASSUME NEW f \in Flushers, FlushAccepted(f)
       PROVE  UNCHANGED <<ready, starting, pc>>
  BY <1>11 DEF FlushAccepted
<1>12. UNCHANGED vars => UNCHANGED <<ready, starting, pc>>
  BY DEF vars, memory, flush
<1> QED
  BY <1>1, <1>2, <1>3, <1>4, <1>5, <1>6, <1>7, <1>8, <1>9, <1>10, <1>11, <1>12
     DEF Next, Proceed

\* A flusher that closes has a list that was read.
LEMMA CloseChanges ==
    ASSUME TypeOK, OnlyReadIsFlushed, NEW f \in Flushers, FlushClose(f)
    PROVE  /\ ready /\ UNCHANGED <<calls, queue, ready, delivered, dropped, early, clock>>
           /\ \/ file' = queue /\ stored' = stored \cup ToSet(queue)
              \/ UNCHANGED <<file, stored>>
<1>1. Write(queue) /\ queue \in Seq(Event) /\ pc[f] # "idle"
  BY DEF FlushClose, TypeOK
<1>2. \/ file' = queue /\ stored' = stored \cup ToSet(queue)
      \/ UNCHANGED <<file, stored>>
  BY <1>1, Written
<1> QED
  BY <1>1, <1>2 DEF FlushClose, OnlyReadIsFlushed, memory, outcome

LEMMA StoredStep ==
    TypeOK /\ OnlyReadIsFlushed /\ FileIsBehind /\ StoredSurvives /\ [Next]_vars
    => FileIsBehind' /\ StoredSurvives'
<1> SUFFICES ASSUME TypeOK, OnlyReadIsFlushed, FileIsBehind, StoredSurvives, [Next]_vars
             PROVE  FileIsBehind' /\ StoredSurvives'
  OBVIOUS
<1>0. ToSet(<<>>) = {}
  BY DEF ToSet
<1>1. ASSUME NEW e \in calls, Enqueue(e)
      PROVE  FileIsBehind' /\ StoredSurvives'
  <2>1. /\ ToSet(queue) \subseteq ToSet(queue') \cup dropped' /\ dropped \subseteq dropped'
        /\ queue' \in Seq(Event) /\ Write(queue')
    BY <1>1, EnqueueChanges
  <2>2. \/ file' = queue' /\ stored' = stored \cup ToSet(queue')
        \/ UNCHANGED <<file, stored>>
    BY <2>1, Written
  <2>3. early' = (early \/ ~ready) /\ UNCHANGED <<ready, delivered>>
    BY <1>1 DEF Enqueue
  <2> QED
    BY <2>1, <2>2, <2>3 DEF FileIsBehind, StoredSurvives
<1>2. ASSUME InitLoad
      PROVE  FileIsBehind' /\ StoredSurvives'
  <2>1. ToSet(queue') = ToSet(queue) \cup ToSet(file)
    BY <1>2, InitLoadChanges
  <2>2. ready' /\ UNCHANGED <<file, stored, early, delivered, dropped>>
    BY <1>2 DEF InitLoad, outcome
  <2> QED
    BY <2>1, <2>2 DEF FileIsBehind, StoredSurvives
<1>3. ASSUME InitBad
      PROVE  FileIsBehind' /\ StoredSurvives'
  <2>1. /\ ready' /\ file' = <<>> /\ UNCHANGED <<stored, early, delivered>>
        /\ dropped' = dropped \cup ToSet(file) \cup ToSet(queue)
    BY <1>3 DEF InitBad
  <2> QED
    BY <1>0, <2>1 DEF FileIsBehind, StoredSurvives
<1>4. ASSUME NEW f \in Flushers, FlushAccepted(f)
      PROVE  FileIsBehind' /\ StoredSurvives'
  <2>1. /\ ToSet(queue) \subseteq ToSet(queue') \cup delivered' /\ delivered \subseteq delivered'
        /\ UNCHANGED <<ready, file, dropped, stored, early>>
    BY <1>4, AcceptedChanges DEF FlushAccepted
  <2>2. ready
    BY <1>4 DEF FlushAccepted, Sending, OnlyReadIsFlushed
  <2> QED
    BY <2>1, <2>2 DEF FileIsBehind, StoredSurvives
<1>5. ASSUME NEW f \in Flushers, FlushClose(f)
      PROVE  FileIsBehind' /\ StoredSurvives'
  <2>1. /\ ready /\ UNCHANGED <<queue, ready, delivered, dropped, early>>
        /\ \/ file' = queue /\ stored' = stored \cup ToSet(queue)
           \/ UNCHANGED <<file, stored>>
    BY <1>5, CloseChanges
  <2> QED
    BY <2>1 DEF FileIsBehind, StoredSurvives
<1>6. ASSUME Kill
      PROVE  FileIsBehind' /\ StoredSurvives'
  <2>1. queue' = <<>> /\ ready' = FALSE
        /\ UNCHANGED <<file, stored, early, delivered, dropped>>
    BY <1>6 DEF Kill, outcome
  <2> QED
    BY <2>1 DEF FileIsBehind, StoredSurvives
<1>7. ASSUME Calm
      PROVE  FileIsBehind' /\ StoredSurvives'
  BY <1>7 DEF Calm, FileIsBehind, StoredSurvives
<1> QED
  BY <1>1, <1>2, <1>3, <1>4, <1>5, <1>6, <1>7, StepChanges

\* The cap is kept when room is made, and no event is added a second time.
LEMMA BoundedStep ==
    /\ TypeOK /\ OnlyReadIsFlushed /\ FileIsBehind /\ CallsAreNew /\ ListBounded
    /\ [Next]_vars
    => ListBounded'
<1> DEFINE Fits(s) == Len(s) <= MaxItems /\ IsInjective(s)
<1> SUFFICES ASSUME TypeOK, OnlyReadIsFlushed, FileIsBehind, CallsAreNew, [Next]_vars,
                    early \/ (Fits(queue) /\ Fits(file)),
                    ~early'
             PROVE  Fits(queue') /\ Fits(file')
  BY DEF ListBounded
<1>0. Fits(<<>>)
  BY OfflineQueueBounds DEF IsInjective
<1>1. ASSUME NEW e \in calls, Enqueue(e)
      PROVE  Fits(queue') /\ Fits(file')
  <2>1. ~early /\ Fits(queue) /\ Fits(file)
    BY <1>1 DEF Enqueue
  <2>2. e \notin ToSet(queue)
    BY DEF CallsAreNew, Known
  <2>3. Fits(queue') /\ queue' \in Seq(Event) /\ Write(queue')
    BY <1>1, <2>1, <2>2, EnqueueChanges
  <2>4. file' = queue' \/ UNCHANGED file
    BY <2>3, Written
  <2> QED
    BY <2>1, <2>3, <2>4
<1>2. ASSUME InitLoad
      PROVE  Fits(queue') /\ Fits(file')
  <2>1. ~early /\ Fits(file) /\ UNCHANGED file
    BY <1>2 DEF InitLoad
  <2>2. queue = <<>>
    BY <1>2, <2>1 DEF InitLoad, OnlyReadIsFlushed, FileIsBehind
  <2>3. Len(queue') = Len(file) /\ (IsInjective(file) => IsInjective(queue'))
    BY <1>2, <2>2, InitLoadChanges
  <2> QED
    BY <2>1, <2>3
<1>3. ASSUME InitBad
      PROVE  Fits(queue') /\ Fits(file')
  BY <1>0, <1>3 DEF InitBad
<1>4. ASSUME NEW f \in Flushers, FlushAccepted(f)
      PROVE  Fits(queue') /\ Fits(file')
  <2>1. Fits(queue) /\ Fits(file) /\ UNCHANGED file
    BY <1>4 DEF FlushAccepted
  <2>2. Len(queue') = Len(queue) - 1 /\ (IsInjective(queue) => IsInjective(queue'))
    BY <1>4, AcceptedChanges
  <2>3. Len(queue) \in Nat /\ MaxItems \in Nat
    BY OfflineQueueBounds DEF TypeOK
  <2>4. Len(queue') <= MaxItems
    BY <2>1, <2>2, <2>3
  <2> QED
    BY <2>1, <2>2, <2>4
<1>5. ASSUME NEW f \in Flushers, FlushClose(f)
      PROVE  Fits(queue') /\ Fits(file')
  <2>1. UNCHANGED <<queue, early>> /\ (file' = queue \/ UNCHANGED file)
    BY <1>5, CloseChanges
  <2> QED
    BY <2>1
<1>6. ASSUME Kill
      PROVE  Fits(queue') /\ Fits(file')
  <2>1. queue' = <<>> /\ UNCHANGED <<file, early>>
    BY <1>6 DEF Kill
  <2> QED
    BY <1>0, <2>1
<1>7. ASSUME Calm
      PROVE  Fits(queue') /\ Fits(file')
  BY <1>7 DEF Calm
<1> QED
  BY <1>1, <1>2, <1>3, <1>4, <1>5, <1>6, <1>7, StepChanges

\* Timestamps are new, and an event that is added no longer waits.
LEMMA NewStep == TypeOK /\ OnlyReadIsFlushed /\ CallsAreNew /\ [Next]_vars => CallsAreNew'
<1> SUFFICES ASSUME TypeOK, OnlyReadIsFlushed, CallsAreNew, [Next]_vars
             PROVE  CallsAreNew'
  OBVIOUS
<1>0. ToSet(<<>>) = {}
  BY DEF ToSet
<1>1. ASSUME NEW e \in calls, Enqueue(e)
      PROVE  CallsAreNew'
  <2>1. ToSet(queue') \subseteq ToSet(queue) \cup {e} /\ queue' \in Seq(Event) /\ Write(queue')
    BY <1>1, EnqueueChanges
  <2>2. file' = queue' \/ UNCHANGED file
    BY <2>1, Written
  <2>3. dropped' \subseteq dropped \cup ToSet(queue)
    <3>1. \A i \in Victims : i \in DOMAIN queue
      BY VictimsListed
    <3> QED
      BY <1>1, <3>1 DEF Enqueue, ToSet
  <2>4. calls' = calls \ {e} /\ clock' = clock /\ delivered' = delivered
    BY <1>1 DEF Enqueue
  <2>5. Known' \subseteq Known \cup {e}
    BY <2>1, <2>2, <2>3, <2>4 DEF Known
  <2> QED
    BY <2>4, <2>5 DEF CallsAreNew
<1>2. ASSUME NEW p \in {PrioResult, PrioState}, Call(p)
      PROVE  CallsAreNew'
  <2> DEFINE e == [time |-> clock + 1, prio |-> p]
  <2>1. calls' = calls \cup {e} /\ clock' = clock + 1 /\ Known' = Known
    BY <1>2 DEF Call, memory, outcome, Known
  <2>2. e.time = clock + 1
    OBVIOUS
  <2>3. calls \cup Known \subseteq Event /\ clock \in Nat
    BY DEF TypeOK, ToSet, Known
  <2> HIDE DEF e
  <2>4. \A d \in calls \cup Known : d.time <= clock
    BY DEF CallsAreNew
  <2>5. \A d \in calls \cup Known : d.time \in Nat
    BY <2>3, OfflineQueueBounds DEF Event
  <2>6. e \notin Known
    BY <2>2, <2>3, <2>4, <2>5
  <2>7. \A d \in calls' \cup Known' : d.time <= clock'
    BY <2>1, <2>2, <2>3, <2>4, <2>5
  <2> QED
    BY <2>1, <2>6, <2>7 DEF CallsAreNew
<1>3. ASSUME calls' \subseteq calls, clock' = clock,
             Known' \subseteq Known
      PROVE  CallsAreNew'
  BY <1>3 DEF CallsAreNew
<1>4. ASSUME InitLoad
      PROVE  CallsAreNew'
  <2>1. ToSet(queue') = ToSet(queue) \cup ToSet(file)
        /\ UNCHANGED <<calls, file, clock, delivered, dropped>>
    BY <1>4, InitLoadChanges DEF InitLoad, outcome
  <2> QED
    BY <1>3, <2>1 DEF Known
<1>5. ASSUME InitBad
      PROVE  CallsAreNew'
  <2>1. queue' = <<>> /\ file' = <<>> /\ UNCHANGED <<calls, clock, delivered>>
        /\ dropped' = dropped \cup ToSet(file) \cup ToSet(queue)
    BY <1>5 DEF InitBad
  <2> QED
    BY <1>0, <1>3, <2>1 DEF Known
<1>6. ASSUME NEW f \in Flushers, FlushAccepted(f)
      PROVE  CallsAreNew'
  <2>1. ToSet(queue') \subseteq ToSet(queue) /\ UNCHANGED <<calls, file, clock, dropped>>
        /\ delivered' = delivered \cup {Head(queue)}
    BY <1>6, AcceptedChanges DEF FlushAccepted
  <2>2. Head(queue) \in ToSet(queue)
    BY <1>6, Behead DEF FlushAccepted, Sending, TypeOK
  <2> QED
    BY <1>3, <2>1, <2>2 DEF Known
<1>7. ASSUME NEW f \in Flushers, FlushClose(f)
      PROVE  CallsAreNew'
  <2>1. UNCHANGED <<calls, queue, clock, delivered, dropped>> /\ (file' = queue \/ UNCHANGED file)
    BY <1>7, CloseChanges
  <2> QED
    BY <1>3, <2>1 DEF Known
<1>8. ASSUME Kill
      PROVE  CallsAreNew'
  <2>1. calls' = {} /\ queue' = <<>> /\ UNCHANGED <<file, clock, delivered, dropped>>
    BY <1>8 DEF Kill, outcome
  <2> QED
    BY <1>0, <1>3, <2>1 DEF Known
<1>9. ASSUME UNCHANGED <<queue, file, clock, delivered, dropped>>, calls' \subseteq calls
      PROVE  CallsAreNew'
  BY <1>3, <1>9 DEF Known
<1>10. ASSUME NEW e \in calls, Abandon(e)
       PROVE  CallsAreNew'
  BY <1>9, <1>10 DEF Abandon, memory, outcome
<1>11. StartService => CallsAreNew'
  BY <1>9 DEF StartService, outcome
<1>12. ASSUME NEW f \in Flushers, FlushCheck(f) \/ FlushFlag(f) \/ FlushLock(f)
       PROVE  CallsAreNew'
  BY <1>9, <1>12 DEF FlushCheck, FlushFlag, FlushLock, memory, outcome
<1>13. ASSUME NEW f \in Flushers,
              FlushPause(f) \/ FlushDone(f) \/ FlushCancel(f)
       PROVE  CallsAreNew'
  BY <1>9, <1>13 DEF FlushPause, FlushDone, FlushCancel, memory, outcome
<1>16. ASSUME NEW f \in Flushers, FlushError(f)
       PROVE  CallsAreNew'
  <2>1. /\ UNCHANGED <<calls, queue, file, clock, dropped>>
        /\ delivered' \in {delivered, delivered \cup ({Head(queue)} \ refused)}
    BY <1>16 DEF FlushError, memory
  <2>2. Head(queue) \in ToSet(queue)
    BY <1>16, Behead DEF FlushError, Sending, TypeOK
  <2> QED
    BY <1>3, <2>1, <2>2 DEF Known
<1>14. ASSUME NEW e \in ToSet(queue), Refuse(e)
       PROVE  CallsAreNew'
  BY <1>9, <1>14 DEF Refuse, memory, outcome
<1>15. UNCHANGED vars => CallsAreNew'
  BY <1>9 DEF vars, memory, outcome
<1> QED
  BY <1>1, <1>2, <1>4, <1>5, <1>6, <1>7, <1>8, <1>10, <1>11, <1>12, <1>13, <1>14, <1>15,
     <1>16
     DEF Next, Proceed

LEMMA InvariantStep == IInv /\ [Next]_vars => IInv'
BY TypeStep, OneSenderStep, OrderStep, ReadStep, StoredStep, BoundedStep, NewStep DEF IInv

-----------------------------------------------------------------------------
\* The inductive invariant holds for every number of events, flushers, deaths
\* and failures: one sender at a time whatever the test of isFlushing let pass,
\* and no event twice in the list or above the cap (OfflineQueue.kt).
THEOREM OfflineQueueInvariant == Spec => []IInv
BY InitIInv, InvariantStep, PTL DEF Spec

\* Whatever order events are added, merged and removed in, results go before
\* state reports and older events before newer ones (sortQueue).
THEOREM ListStaysOrdered == Spec => []OldestResultFirst
<1>1. IInv => OldestResultFirst
  BY DEF IInv
<1> QED
  BY OfflineQueueInvariant, <1>1, PTL

\* An event once in the file is in it until the backend has it or it is given
\* up, unless an event was added before the file was read (flushToDisk, init).
THEOREM StoredIsNotLost == Spec => []StoredSurvives
<1>1. IInv => StoredSurvives
  BY DEF IInv
<1> QED
  BY OfflineQueueInvariant, <1>1, PTL

\* No step but a death takes an event off the list that the backend has not
\* accepted and that was not given up for room or with a broken file
\* (enqueue, init, flushNetwork).
THEOREM SettledLeaves == Spec => OnlySettledLeaves
<1> DEFINE Settled == ToSet(queue) \ ToSet(queue') \subseteq delivered' \cup dropped'
                      \/ kills' # kills
<1>1. TypeOK /\ [Next]_vars => [Settled]_vars
  <2> SUFFICES ASSUME TypeOK, [Next]_vars
               PROVE  Settled
    OBVIOUS
  <2>1. ASSUME NEW e \in calls, Enqueue(e)
        PROVE  Settled
    BY <2>1, EnqueueChanges
  <2>2. InitLoad => Settled
    BY InitLoadChanges
  <2>3. InitBad => Settled
    BY DEF InitBad
  <2>4. ASSUME NEW f \in Flushers, FlushAccepted(f)
        PROVE  Settled
    BY <2>4, AcceptedChanges
  <2>5. ASSUME NEW f \in Flushers, FlushClose(f)
        PROVE  Settled
    BY <2>5 DEF FlushClose, memory
  <2>6. Kill => Settled
    BY DEF Kill, TypeOK
  <2>7. Calm => Settled
    BY DEF Calm
  <2> QED
    BY <2>1, <2>2, <2>3, <2>4, <2>5, <2>6, <2>7, StepChanges
<1>2. IInv => TypeOK
  BY DEF IInv
<1> QED
  BY OfflineQueueInvariant, <1>1, <1>2, PTL DEF Spec, OnlySettledLeaves

-----------------------------------------------------------------------------
\* A list without repetition is as long as the set of its events.
LEMMA OnceEach ==
    ASSUME NEW s \in Seq(Event), IsInjective(s)
    PROVE  Cardinality(ToSet(s)) = Len(s)
<1>1. /\ Len(s) \in Nat /\ DOMAIN s = 1 .. Len(s)
      /\ s \in [1 .. Len(s) -> Event]
  OBVIOUS
<1>2. s \in Surjection(1 .. Len(s), ToSet(s)) /\ s \in Injection(1 .. Len(s), ToSet(s))
  BY <1>1 DEF ToSet, Surjection, Injection, IsInjective
<1>3. IsFiniteSet(1 .. Len(s)) /\ Cardinality(1 .. Len(s)) = Len(s)
  BY <1>1, FS_Interval
<1> QED
  BY <1>2, <1>3, FS_Surjection

\* In a sorted list the head is the only most urgent event and the last one the
\* only least urgent.
LEMMA SortedEnds ==
    ASSUME NEW s \in Seq(Event), Ordered(s), s # <<>>
    PROVE  /\ Head(s) \in Store!MostUrgent(ToSet(s))
           /\ Store!LeastUrgent(ToSet(s)) = {s[Len(s)]}
<1>1. /\ Len(s) \in Nat \ {0} /\ DOMAIN s = 1 .. Len(s)
      /\ Head(s) = s[1] /\ \A i \in DOMAIN s : s[i] \in Event
  OBVIOUS
<1>2. 1 \in DOMAIN s /\ Len(s) \in DOMAIN s
  BY <1>1
<1>3. \A e \in Event : e.prio \in Nat /\ e.time \in Nat
  BY OfflineQueueBounds DEF Event, PrioResult, PrioState
<1>4. \A e \in Event : Before(e, e)
  BY <1>3 DEF Before
<1>5. \A i \in DOMAIN s : Before(s[1], s[i]) /\ Before(s[i], s[Len(s)])
  <2> TAKE i \in DOMAIN s
  <2>1. i = 1 \/ 1 < i
    BY <1>1
  <2>2. i = Len(s) \/ i < Len(s)
    BY <1>1
  <2> QED
    BY <1>1, <1>2, <1>4, <2>1, <2>2 DEF Ordered
<1>6. \A d, e \in Event : Before(d, e) /\ Before(e, d) => d = e
  <2> TAKE d, e \in Event
  <2> HAVE Before(d, e) /\ Before(e, d)
  <2>1. d.prio = e.prio /\ d.time = e.time
    BY <1>3 DEF Before
  <2> QED
    BY <2>1 DEF Event
<1>7. \A d, e : Store!NoLater(d, e) <=> Before(d, e)
  BY DEF Store!NoLater, Before
<1>8. \A e : e \in ToSet(s) <=> \E i \in DOMAIN s : e = s[i]
  BY DEF ToSet
<1>9. Head(s) \in Store!MostUrgent(ToSet(s))
  BY <1>1, <1>2, <1>5, <1>7, <1>8 DEF Store!MostUrgent
<1>10. s[Len(s)] \in Store!LeastUrgent(ToSet(s))
  BY <1>1, <1>2, <1>5, <1>7, <1>8 DEF Store!LeastUrgent
<1>11. ASSUME NEW e \in Store!LeastUrgent(ToSet(s))
       PROVE  e = s[Len(s)]
  <2>1. e \in ToSet(s) /\ Before(s[Len(s)], e)
    BY <1>2, <1>7, <1>8, <1>11 DEF Store!LeastUrgent
  <2>2. e \in Event /\ Before(e, s[Len(s)])
    BY <1>1, <1>5, <1>8, <2>1
  <2> QED
    BY <1>1, <1>2, <1>6, <2>1, <2>2
<1> QED
  BY <1>9, <1>10, <1>11

\* Room is made at the end of the list: a state report, if there is one, is last.
LEMMA VictimIsLast ==
    ASSUME TypeOK, OldestResultFirst
    PROVE  Victims = IF Len(queue) < MaxItems THEN {} ELSE {Len(queue)}
<1> DEFINE states == {i \in DOMAIN queue : queue[i].prio = PrioState}
           n == Len(queue)
<1>1. /\ n \in Nat /\ DOMAIN queue = 1 .. n /\ MaxItems \in Nat \ {0}
      /\ \A i \in DOMAIN queue : queue[i] \in Event
  BY OfflineQueueBounds DEF TypeOK
<1>2. \A i \in DOMAIN queue : queue[i].prio \in {2, 3}
  BY <1>1 DEF Event, PrioResult, PrioState
<1>3. states # {} => n \in states
  <2> SUFFICES ASSUME NEW i \in DOMAIN queue, queue[i].prio = PrioState
               PROVE  n \in DOMAIN queue /\ queue[n].prio = PrioState
    OBVIOUS
  <2>1. n \in DOMAIN queue /\ (i = n \/ i < n)
    BY <1>1
  <2>2. CASE i < n
    <3>1. Before(queue[i], queue[n])
      BY <2>1, <2>2 DEF OldestResultFirst
    <3> QED
      BY <1>2, <2>1, <3>1 DEF Before, PrioState
  <2> QED
    BY <2>1, <2>2
<1>4. \A i \in states : i \in Nat /\ i <= n
  BY <1>1
<1>5. Victims = IF n < MaxItems THEN {}
                ELSE IF states = {} THEN {n}
                ELSE {i \in states : \A j \in states : j <= i}
  BY DEF Victims
<1> HIDE DEF states
<1>6. states # {} => {i \in states : \A j \in states : j <= i} = {n}
  BY <1>1, <1>3, <1>4
<1> QED
  BY <1>5, <1>6

Kept == IF Victims = {} THEN queue ELSE RemoveAt(queue, CHOOSE i \in Victims : TRUE)
Room == {queue[i] : i \in Victims}

\* What enqueue takes from the list: its last event, at the cap only.
LEMMA LeastUrgentGoes ==
    ASSUME IInv
    PROVE  /\ Kept \in Seq(Event)
           /\ Room \in {{}, Store!LeastUrgent(ToSet(queue))}
           /\ \E left \in SUBSET Store!LeastUrgent(ToSet(queue)) :
                /\ ToSet(Kept) = (ToSet(queue) \ Room) \cup (left \cap Room)
                /\ early \/ left = {}
           /\ early \/ (Room = {} <=> Cardinality(ToSet(queue)) < MaxItems)
<1> DEFINE n == Len(queue)
<1>1. /\ TypeOK /\ OldestResultFirst /\ Ordered(queue)
      /\ queue \in Seq(Event) /\ n \in Nat /\ DOMAIN queue = 1 .. n
      /\ MaxItems \in Nat \ {0}
  BY OfflineQueueBounds DEF IInv, TypeOK, OldestResultFirst, Ordered
<1>2. early \/ (IsInjective(queue) /\ Cardinality(ToSet(queue)) = n)
  BY <1>1, OnceEach DEF IInv, ListBounded
<1>3. Victims = IF n < MaxItems THEN {} ELSE {n}
  BY <1>1, VictimIsLast
<1>4. CASE n < MaxItems
  <2>1. Victims = {} /\ Kept = queue /\ Room = {}
    BY <1>3, <1>4 DEF Kept, Room
  <2>2. {} \in SUBSET Store!LeastUrgent(ToSet(queue))
    OBVIOUS
  <2>3. early \/ (Room = {} <=> Cardinality(ToSet(queue)) < MaxItems)
    BY <1>2, <1>4, <2>1
  <2> QED
    BY <1>1, <2>1, <2>2, <2>3
<1>5. CASE ~ (n < MaxItems)
  <2>1. Victims = {n} /\ n \in DOMAIN queue /\ queue # <<>>
    BY <1>1, <1>3, <1>5
  <2>2. Room = {queue[n]} /\ Kept = RemoveAt(queue, n)
    BY <2>1 DEF Kept, Room
  <2>3. /\ Kept \in Seq(Event) /\ ToSet(Kept) \subseteq ToSet(queue)
        /\ ToSet(queue) \subseteq ToSet(Kept) \cup {queue[n]}
        /\ IsInjective(queue) => queue[n] \notin ToSet(Kept)
    BY <1>1, <2>1, <2>2, Removed
  <2>4. Store!LeastUrgent(ToSet(queue)) = Room
    BY <1>1, <2>1, <2>2, SortedEnds
  <2>5. /\ ToSet(Kept) \cap Room \in SUBSET Room
        /\ ToSet(Kept) = (ToSet(queue) \ Room) \cup ((ToSet(Kept) \cap Room) \cap Room)
        /\ early \/ ToSet(Kept) \cap Room = {}
    BY <1>2, <2>2, <2>3
  <2>6. early \/ (Room = {} <=> Cardinality(ToSet(queue)) < MaxItems)
    BY <1>2, <1>5, <2>2
  <2> QED
    BY <2>3, <2>4, <2>5, <2>6
<1> QED
  BY <1>4, <1>5

\* Enqueue takes a report; an event that waited is new to the store.
LEMMA EnqueueTakes ==
    ASSUME IInv, NEW e \in calls, Enqueue(e)
    PROVE  e \in Event /\ Store!Take(e)
<1> DEFINE least == Store!LeastUrgent(ToSet(queue))
<1>1. TypeOK /\ CallsAreNew /\ e \in Event
  BY DEF IInv, TypeOK
<1>2. /\ queue' = Insert(Kept, e) /\ Write(Insert(Kept, e)) /\ dropped' = dropped \cup Room
      /\ early' = (early \/ ~ready) /\ UNCHANGED <<ready, delivered>>
  BY DEF Enqueue, Kept, Room
<1> HIDE DEF least
<1>3. /\ Kept \in Seq(Event) /\ Room \in {{}, least}
      /\ \E left \in SUBSET least :
           /\ ToSet(Kept) = (ToSet(queue) \ Room) \cup (left \cap Room)
           /\ early \/ left = {}
      /\ early \/ (Room = {} <=> Cardinality(ToSet(queue)) < MaxItems)
  BY LeastUrgentGoes DEF least
<1>4. /\ Append(Kept, e) \in Seq(Event)
      /\ ToSet(Append(Kept, e)) = ToSet(Kept) \cup {e}
  BY <1>1, <1>3, Appended
<1>5. Insert(Kept, e) \in Seq(Event) /\ ToSet(Insert(Kept, e)) = ToSet(Kept) \cup {e}
  BY <1>4, SortedList DEF Insert
<1>6. ToSet(file') \in {ToSet(file), ToSet(queue')}
  BY <1>1, <1>2, <1>5, Written
<1>7. e \notin ToSet(queue) \cup ToSet(file) \cup delivered \cup dropped
  BY <1>1 DEF CallsAreNew, Known
<1>8. PICK left \in SUBSET least :
        /\ ToSet(Kept) = (ToSet(queue) \ Room) \cup (left \cap Room)
        /\ early \/ left = {}
  BY <1>3
<1>9. ToSet(queue') = (ToSet(queue) \ Room) \cup (left \cap Room) \cup {e}
  BY <1>2, <1>5, <1>8
<1>10. \E r \in {{}, least}, l \in SUBSET least :
         /\ early \/ l = {}
         /\ early \/ (r = {} <=> Cardinality(ToSet(queue)) < MaxItems)
         /\ ToSet(queue') = (ToSet(queue) \ r) \cup (l \cap r) \cup {e}
         /\ dropped' = dropped \cup r
  BY <1>3, <1>2, <1>8, <1>9
<1>11. \A S : Store!Cardinality(S) = Cardinality(S)
  BY DEF Store!Cardinality, Cardinality
<1> QED
  BY <1>1, <1>2, <1>6, <1>7, <1>10, <1>11 DEF Store!Take, least

\* Every step of the queue is a step of the store, or none of it.
LEMMA StoreStep == IInv /\ [Next]_vars => [Store!StoreNext]_(Store!storeVars)
<1> SUFFICES ASSUME IInv, [Next]_vars
             PROVE  Store!StoreNext \/ UNCHANGED Store!storeVars
  OBVIOUS
<1>0. /\ TypeOK /\ OnlyReadIsFlushed /\ FileIsBehind /\ Ordered(queue)
      /\ queue \in Seq(Event)
  BY DEF IInv, TypeOK, OldestResultFirst, Ordered
<1>a. ToSet(<<>>) = {}
  BY DEF ToSet
<1>b. ASSUME UNCHANGED <<queue, file, ready, delivered, dropped, early>>
      PROVE  UNCHANGED Store!storeVars
  BY <1>b DEF Store!storeVars
<1>c. queue # <<>> => /\ Head(queue) \in Store!MostUrgent(ToSet(queue))
                      /\ Head(queue) \in Event
  BY <1>0, SortedEnds, Behead
<1>1. ASSUME NEW e \in calls, Enqueue(e)
      PROVE  Store!StoreNext
  BY <1>1, EnqueueTakes DEF Store!StoreNext
<1>2. ASSUME InitLoad
      PROVE  Store!StoreNext
  <2>1. ToSet(queue') = ToSet(queue) \cup ToSet(file)
    BY <1>0, <1>2, InitLoadChanges
  <2>2. ~ready /\ ready' = TRUE /\ UNCHANGED <<file, delivered, dropped, early>>
    BY <1>0, <1>2 DEF InitLoad, OnlyReadIsFlushed, outcome
  <2>3. early \/ ToSet(queue) = {}
    BY <1>0, <1>a, <2>2 DEF FileIsBehind
  <2>4. Store!Restore
    BY <2>1, <2>2, <2>3 DEF Store!Restore
  <2> QED
    BY <2>4 DEF Store!StoreNext
<1>3. ASSUME InitBad
      PROVE  Store!StoreNext
  <2>1. /\ ~ready /\ ready' = TRUE /\ UNCHANGED <<delivered, early>>
        /\ queue' = <<>> /\ file' = <<>>
        /\ dropped' = dropped \cup ToSet(file) \cup ToSet(queue)
    BY <1>0, <1>3 DEF InitBad, OnlyReadIsFlushed
  <2>2. Store!Spoil
    BY <1>a, <2>1 DEF Store!Spoil
  <2> QED
    BY <2>2 DEF Store!StoreNext
<1>4. ASSUME NEW f \in Flushers, FlushAccepted(f)
      PROVE  Store!StoreNext
  <2>1. /\ ready /\ queue # <<>> /\ queue' = Tail(queue)
        /\ delivered' = delivered \cup {Head(queue)}
        /\ UNCHANGED <<ready, file, dropped, early>>
    BY <1>0, <1>4 DEF FlushAccepted, Sending, OnlyReadIsFlushed
  <2>2. /\ ToSet(queue') \subseteq ToSet(queue)
        /\ ToSet(queue) \subseteq ToSet(queue') \cup {Head(queue)}
        /\ Head(queue) \in ToSet(queue)
    BY <1>0, <2>1, Behead
  <2>3. ToSet(queue') \in {ToSet(queue), ToSet(queue) \ {Head(queue)}}
    BY <2>2
  <2>4. Store!Send(Head(queue))
    BY <1>c, <2>1, <2>3 DEF Store!Send
  <2> QED
    BY <1>c, <2>1, <2>4 DEF Store!StoreNext
<1>5. ASSUME NEW f \in Flushers, FlushError(f)
      PROVE  Store!StoreNext \/ UNCHANGED Store!storeVars
  <2>1. /\ ready /\ queue # <<>> /\ UNCHANGED <<queue, ready, file, dropped, early>>
        /\ delivered' = delivered \/ delivered' = delivered \cup {Head(queue)}
    BY <1>0, <1>5 DEF FlushError, Sending, OnlyReadIsFlushed, memory
  <2>2. CASE delivered' = delivered
    BY <1>b, <2>1, <2>2
  <2>3. CASE delivered' = delivered \cup {Head(queue)}
    <3>1. Store!Send(Head(queue))
      BY <1>c, <2>1, <2>3 DEF Store!Send
    <3> QED
      BY <1>c, <2>1, <3>1 DEF Store!StoreNext
  <2> QED
    BY <2>1, <2>2, <2>3
<1>6. ASSUME NEW f \in Flushers, FlushClose(f)
      PROVE  Store!StoreNext \/ UNCHANGED Store!storeVars
  <2>1. /\ ready /\ UNCHANGED <<queue, ready, delivered, dropped, early>>
        /\ file' = queue \/ file' = file
    BY <1>0, <1>6, CloseChanges
  <2>2. CASE file' = queue
    BY <2>1, <2>2 DEF Store!Save, Store!StoreNext
  <2>3. CASE file' = file
    BY <1>b, <2>1, <2>3
  <2> QED
    BY <2>1, <2>2, <2>3
<1>7. Kill => Store!StoreNext
  BY <1>a DEF Kill, outcome, Store!Die, Store!StoreNext
<1>8. ASSUME NEW p \in {PrioResult, PrioState}, Call(p)
      PROVE  UNCHANGED Store!storeVars
  BY <1>b, <1>8 DEF Call, memory, outcome
<1>9. ASSUME NEW e \in calls, Abandon(e)
      PROVE  UNCHANGED Store!storeVars
  BY <1>b, <1>9 DEF Abandon, memory, outcome
<1>10. StartService => UNCHANGED Store!storeVars
  BY <1>b DEF StartService, outcome
<1>11. ASSUME NEW f \in Flushers, FlushCheck(f) \/ FlushFlag(f) \/ FlushLock(f)
       PROVE  UNCHANGED Store!storeVars
  BY <1>b, <1>11 DEF FlushCheck, FlushFlag, FlushLock, memory, outcome
<1>12. ASSUME NEW f \in Flushers, FlushPause(f) \/ FlushDone(f) \/ FlushCancel(f)
       PROVE  UNCHANGED Store!storeVars
  BY <1>b, <1>12 DEF FlushPause, FlushDone, FlushCancel, memory, outcome
<1>13. ASSUME NEW e \in ToSet(queue), Refuse(e)
       PROVE  UNCHANGED Store!storeVars
  BY <1>b, <1>13 DEF Refuse, memory
<1>14. UNCHANGED vars => UNCHANGED Store!storeVars
  BY <1>b DEF vars, memory, outcome
<1> QED
  BY <1>1, <1>2, <1>3, <1>4, <1>5, <1>6, <1>7, <1>8, <1>9, <1>10, <1>11, <1>12, <1>13,
     <1>14
     DEF Next, Proceed

\* The queue implements ReportStore for every cap, number of events, flushers,
\* deaths and failures: what it sends is always the most urgent, what it gives up
\* for room is the least urgent and only at the cap, and what it writes over the
\* file is never less than what it read from it (enqueue, init, flushNetwork).
THEOREM QueueKeepsStore == Spec => StoreKept
<1>1. Init => Store!StoreInit
  <2>1. ToSet(<<>>) = {}
    BY DEF ToSet
  <2> QED
    BY <2>1 DEF Init, Store!StoreInit
<1> QED
  BY <1>1, OfflineQueueInvariant, StoreStep, PTL DEF Spec, StoreKept, Store!StoreSpec
=============================================================================
