---------------------------- MODULE KbmLinkProofs -----------------------------
(***************************************************************************)
(* What the host types is what the user typed: EdgesAsMeant of KbmLink, for *)
(* any codes, ring depths and sequence modulus, and any number of edges,    *)
(* losses, repetitions and overtakings.                                     *)
(*                                                                         *)
(* The invariant gives every party's record a meaning in the history of the *)
(* user's edges.  The client's ring and shadow are what that history says   *)
(* (SenderInv); a datagram in flight is the client as it was when the       *)
(* history had d.n edges, and one that was sent later says more (NetInv);   *)
(* the host has accounted for a prefix of the history, each edge as it was  *)
(* made or as lost, holds what the snapshot it last heard says, and its     *)
(* window is ahead of all that is older than this prefix (HostInv,          *)
(* WindowInv); every press was meant under the modifiers that the history   *)
(* holds down at it (MeantInv).                                             *)
(*                                                                         *)
(* Sequences wrap, so this is true of what is Timely only: a datagram that  *)
(* half a turn of its header's sequence has overtaken looks newer than its  *)
(* successors, and of half a turn of events the gap cannot be told from its *)
(* complement.  Half a turn is 32768 datagrams or events.                   *)
(***************************************************************************)
EXTENDS KbmLink, FiniteSetTheorems, SequenceTheorems, WellFoundedInduction, TLAPS

-----------------------------------------------------------------------------
(* Finite sets of numbers.                                                   *)

LEMMA SmallestOf ==
  ASSUME NEW S \in SUBSET Nat, S # {}
  PROVE  \E x \in S : \A y \in S : x <= y
<1>1. \E x \in S : \A y \in S : ~(<<y, x>> \in OpToRel(<, Nat))
  BY WFMin, NatLessThanWellFounded
<1>2. PICK x \in S : \A y \in S : ~(<<y, x>> \in OpToRel(<, Nat))
  BY <1>1
<1>3. \A y \in S : ~(y < x)
  BY <1>2 DEF OpToRel
<1> QED
  BY <1>3

LEMMA LastOf ==
  ASSUME NEW n \in Nat, NEW S \in SUBSET (1 .. n), S # {}
  PROVE  Max(S) \in S /\ \A y \in S : y <= Max(S)
<1> DEFINE T == {n - k : k \in S}
<1>1. T \in SUBSET Nat /\ T # {}
  <2>1. \A k \in S : n - k \in Nat
    OBVIOUS
  <2> QED
    BY <2>1
<1>2. PICK t \in T : \A u \in T : t <= u
  BY <1>1, SmallestOf
<1>3. PICK x \in S : t = n - x
  BY <1>2
<1>4. ASSUME NEW y \in S PROVE y <= x
  <2>1. n - y \in T
    OBVIOUS
  <2>2. t <= n - y
    BY <1>2, <2>1
  <2>3. x \in Int /\ y \in Int /\ n - x <= n - y
    BY <1>3, <2>2
  <2> HIDE DEF T
  <2> QED
    BY <2>3
<1>5. \E x_1 \in S : \A y \in S : x_1 >= y
  BY <1>4
<1> QED
  BY <1>5 DEF Max

\* Each member of a finite set of numbers has a place in its order.
LEMMA AscendingHasAll ==
  ASSUME NEW S \in SUBSET Nat, IsFiniteSet(S)
  PROVE  /\ Cardinality(S) \in Nat
         /\ DOMAIN Ascending(S) = 1 .. Cardinality(S)
         /\ \A n \in 1 .. Cardinality(S) : Ascending(S)[n] \in S
         /\ \A x \in S : \E n \in 1 .. Cardinality(S) : Ascending(S)[n] = x
         /\ \A n \in 1 .. Cardinality(S) :
              Cardinality({y \in S : y <= Ascending(S)[n]}) = n
<1> DEFINE upto(x) == {y \in S : y <= x}
           rank == [x \in S |-> Cardinality(upto(x))]
           places == 1 .. Cardinality(S)
<1>1. Cardinality(S) \in Nat
  BY FS_CardinalityType
<1>2. \A x \in S : IsFiniteSet(upto(x)) /\ Cardinality(upto(x)) \in Nat
                   /\ Cardinality(upto(x)) <= Cardinality(S)
  <2> TAKE x \in S
  <2>1. upto(x) \in SUBSET S
    OBVIOUS
  <2> HIDE DEF upto
  <2> QED
    BY <2>1, FS_Subset, FS_CardinalityType
<1>3. \A x \in S : Cardinality(upto(x)) # 0
  <2> TAKE x \in S
  <2>1. upto(x) # {}
    <3>1. x \in upto(x)
      OBVIOUS
    <3> QED
      BY <3>1
  <2> HIDE DEF upto
  <2> QED
    BY <1>2, <2>1, FS_EmptySet
<1>4. \A x \in S : rank[x] \in places
  <2> HIDE DEF upto
  <2> QED
    BY <1>1, <1>2, <1>3
<1>5. ASSUME NEW x \in S, NEW z \in S, x < z PROVE rank[x] # rank[z]
  <2>1. upto(x) \in SUBSET upto(z) /\ z \in upto(z) /\ z \notin upto(x)
    <3>1. \A y \in S : y \in Nat
      OBVIOUS
    <3>2. \A y \in S : y <= x => y <= z
      BY <1>5, <3>1
    <3>3. z <= z /\ ~(z <= x)
      BY <1>5, <3>1
    <3> QED
      BY <3>2, <3>3
  <2>2. IsFiniteSet(upto(z))
    BY <1>2
  <2> HIDE DEF upto
  <2>3. Cardinality(upto(z)) # Cardinality(upto(x))
    BY <2>1, <2>2, FS_Subset
  <2> QED
    BY <2>3
<1>6. \A x, z \in S : rank[x] = rank[z] => x = z
  <2> HIDE DEF rank
  <2> QED
    BY <1>5
<1>7. rank \in Injection(S, places)
  <2>1. rank \in [S -> places]
    BY <1>4
  <2> HIDE DEF rank, places
  <2> QED
    BY <1>6, <2>1 DEF Injection, IsInjective
<1>8. IsFiniteSet(places) /\ Cardinality(places) = Cardinality(S)
  <2>1. IsFiniteSet(places) /\ Cardinality(places) = IF 1 > Cardinality(S) THEN 0 ELSE Cardinality(S) - 1 + 1
    BY <1>1, FS_Interval
  <2> QED
    BY <1>1, <2>1
<1>9. rank \in Surjection(S, places)
  <2> HIDE DEF rank, places
  <2> QED
    BY <1>7, <1>8, FS_Injection
<1>10. \A n \in places : \E x \in S : Cardinality(upto(x)) = n
  <2>1. \A n \in places : \E x \in S : rank[x] = n
    <3> HIDE DEF rank, places
    <3> QED
      BY <1>9 DEF Surjection
  <2> QED
    BY <2>1
<1>11. Ascending(S) = [n \in places |-> CHOOSE x \in S : Cardinality(upto(x)) = n]
  BY DEF Ascending
<1>12. \A n \in places : Ascending(S)[n] \in S /\ Cardinality(upto(Ascending(S)[n])) = n
  <2> HIDE DEF upto, places
  <2> QED
    BY <1>10, <1>11
<1>13. \A x \in S : \E n \in places : Ascending(S)[n] = x
  <2> TAKE x \in S
  <2>1. rank[x] \in places
    BY <1>4
  <2>2. rank[Ascending(S)[rank[x]]] = rank[x] /\ Ascending(S)[rank[x]] \in S
    <3> HIDE DEF upto, places
    <3> QED
      BY <1>12, <2>1
  <2>3. Ascending(S)[rank[x]] = x
    <3> HIDE DEF rank
    <3> QED
      BY <1>6, <2>2
  <2> QED
    BY <2>1, <2>3
<1> QED
  BY <1>1, <1>11, <1>12, <1>13

LEMMA AscendingInterval ==
  ASSUME NEW a \in Nat, NEW b \in Nat, a <= b
  PROVE  /\ DOMAIN Ascending((a + 1) .. b) = 1 .. (b - a)
         /\ \A n \in 1 .. (b - a) : Ascending((a + 1) .. b)[n] = a + n
<1> DEFINE S == (a + 1) .. b
<1>1. S \in SUBSET Nat /\ IsFiniteSet(S) /\ Cardinality(S) = b - a
  <2>1. IsFiniteSet(S) /\ Cardinality(S) = IF a + 1 > b THEN 0 ELSE b - (a + 1) + 1
    BY FS_Interval
  <2> QED
    BY <2>1
<1>2. ASSUME NEW x \in S PROVE Cardinality({y \in S : y <= x}) = x - a
  <2>1. {y \in S : y <= x} = (a + 1) .. x
    OBVIOUS
  <2>2. Cardinality((a + 1) .. x) = IF a + 1 > x THEN 0 ELSE x - (a + 1) + 1
    BY FS_Interval
  <2>3. ~(a + 1 > x) /\ x - (a + 1) + 1 = x - a
    OBVIOUS
  <2> HIDE DEF S
  <2> QED
    BY <2>1, <2>2, <2>3
<1>3. DOMAIN Ascending(S) = 1 .. (b - a) /\ \A n \in 1 .. (b - a) :
         Ascending(S)[n] \in S /\ Cardinality({y \in S : y <= Ascending(S)[n]}) = n
  <2> HIDE DEF S
  <2> QED
    BY <1>1, AscendingHasAll
<1>4. \A n \in 1 .. (b - a) : Ascending(S)[n] = a + n
  <2> TAKE n \in 1 .. (b - a)
  <2>1. Ascending(S)[n] \in S /\ Ascending(S)[n] - a = n
    BY <1>2, <1>3
  <2> QED
    BY <2>1
<1> QED
  BY <1>3, <1>4

LEMMA AscendingNone == DOMAIN Ascending({}) = {}
<1>1. DOMAIN Ascending({}) = 1 .. Cardinality({})
  BY DEF Ascending
<1> QED
  BY <1>1, FS_EmptySet

-----------------------------------------------------------------------------
(* What a batch of events leaves held.  Only codes and directions count.     *)

Batch(e) == \E n \in Nat : DOMAIN e = 1 .. n

Touches(e, c) == \E k \in DOMAIN e : e[k].code = c

LEMMA LastSays ==
  ASSUME NEW h, NEW e, NEW k \in DOMAIN e,
         Batch(e), \A j \in DOMAIN e : j > k => e[j].code # e[k].code
  PROVE  e[k].code \in AfterEvents(h, e) <=> e[k].down
<1> DEFINE c == e[k].code
           at == {j \in DOMAIN e : e[j].code = c}
<1>1. PICK n \in Nat : DOMAIN e = 1 .. n
  BY DEF Batch
<1>2. k \in at /\ at \in SUBSET (1 .. n)
  BY <1>1
<1>3. \A j \in at : j <= k
  BY <1>1
<1>4. Max(at) = k
  <2>1. Max(at) \in at /\ k <= Max(at)
    <3> HIDE DEF at
    <3> QED
      BY <1>2, LastOf
  <2> QED
    BY <1>1, <1>3, <2>1
<1>5. c \in {e[j].code : j \in DOMAIN e}
  OBVIOUS
<1> QED
  BY <1>4, <1>5 DEF AfterEvents

LEMMA UntouchedStays ==
  ASSUME NEW h, NEW e, NEW c, ~Touches(e, c)
  PROVE  c \in AfterEvents(h, e) <=> c \in h
BY DEF AfterEvents, Touches

LEMMA SomeLast ==
  ASSUME NEW e, Batch(e), NEW c, Touches(e, c)
  PROVE  \E k \in DOMAIN e : e[k].code = c /\ \A j \in DOMAIN e : j > k => e[j].code # c
<1> DEFINE at == {j \in DOMAIN e : e[j].code = c}
<1>1. PICK n \in Nat : DOMAIN e = 1 .. n
  BY DEF Batch
<1>2. at \in SUBSET (1 .. n) /\ at # {}
  BY <1>1 DEF Touches
<1>3. Max(at) \in at /\ \A j \in at : j <= Max(at)
  <2> HIDE DEF at
  <2> QED
    BY <1>2, LastOf
<1>4. \A j \in DOMAIN e : j > Max(at) => e[j].code # c
  BY <1>1, <1>3
<1> QED
  BY <1>3, <1>4

\* Equal batches leave the same held, whatever else their events carry.
LEMMA SameBatch ==
  ASSUME NEW h, NEW e, NEW f, Batch(e), DOMAIN e = DOMAIN f,
         \A k \in DOMAIN e : e[k].code = f[k].code /\ e[k].down = f[k].down
  PROVE  AfterEvents(h, e) = AfterEvents(h, f)
<1>1. ASSUME NEW c PROVE c \in AfterEvents(h, e) <=> c \in AfterEvents(h, f)
  <2>1. Touches(e, c) <=> Touches(f, c)
    BY DEF Touches
  <2>2. CASE ~Touches(e, c)
    BY <2>1, <2>2, UntouchedStays
  <2>3. CASE Touches(e, c)
    <3>1. PICK k \in DOMAIN e : e[k].code = c /\ \A j \in DOMAIN e : j > k => e[j].code # c
      BY <2>3, SomeLast
    <3>2. c \in AfterEvents(h, e) <=> e[k].down
      BY <3>1, LastSays
    <3>3. Batch(f) /\ k \in DOMAIN f /\ f[k].code = c /\ \A j \in DOMAIN f : j > k => f[j].code # f[k].code
      BY <3>1 DEF Batch
    <3>4. c \in AfterEvents(h, f) <=> f[k].down
      BY <3>3, LastSays
    <3> QED
      BY <3>2, <3>4
  <2> QED
    BY <2>2, <2>3
<1> QED
  BY <1>1

LEMMA NoEventsNoChange ==
  ASSUME NEW h PROVE AfterEvents(h, <<>>) = h
BY DEF AfterEvents

\* One batch after another.
Joined(e, f, g) ==
  \E m, n \in Nat :
    /\ DOMAIN e = 1 .. m /\ DOMAIN f = 1 .. n /\ DOMAIN g = 1 .. (m + n)
    /\ \A k \in 1 .. m : g[k].code = e[k].code /\ g[k].down = e[k].down
    /\ \A k \in 1 .. n : g[m + k].code = f[k].code /\ g[m + k].down = f[k].down

LEMMA OneAfterAnother ==
  ASSUME NEW h, NEW e, NEW f, NEW g, Joined(e, f, g)
  PROVE  AfterEvents(h, g) = AfterEvents(AfterEvents(h, e), f)
<1>1. PICK m \in Nat, n \in Nat :
        /\ DOMAIN e = 1 .. m /\ DOMAIN f = 1 .. n /\ DOMAIN g = 1 .. (m + n)
        /\ \A k \in 1 .. m : g[k].code = e[k].code /\ g[k].down = e[k].down
        /\ \A k \in 1 .. n : g[m + k].code = f[k].code /\ g[m + k].down = f[k].down
  BY DEF Joined
<1>2. Batch(e) /\ Batch(f) /\ Batch(g)
  <2>1. m + n \in Nat
    OBVIOUS
  <2> QED
    BY <1>1, <2>1 DEF Batch
<1>3. ASSUME NEW c PROVE c \in AfterEvents(h, g) <=> c \in AfterEvents(AfterEvents(h, e), f)
  <2>1. CASE Touches(f, c)
    <3>1. PICK k \in DOMAIN f : f[k].code = c /\ \A j \in DOMAIN f : j > k => f[j].code # c
      BY <1>2, <2>1, SomeLast
    <3>2. c \in AfterEvents(AfterEvents(h, e), f) <=> f[k].down
      BY <1>2, <3>1, LastSays
    <3>3. m + k \in DOMAIN g /\ g[m + k].code = c /\ (g[m + k].down <=> f[k].down)
      BY <1>1, <3>1
    <3>4. ASSUME NEW j \in DOMAIN g, j > m + k PROVE g[j].code # c
      <4>1. j - m \in 1 .. n /\ j - m > k /\ j = m + (j - m)
        BY <1>1, <3>4
      <4>2. f[j - m].code # c /\ g[m + (j - m)].code = f[j - m].code
        BY <1>1, <3>1, <4>1
      <4> QED
        BY <4>1, <4>2
    <3>5. c \in AfterEvents(h, g) <=> g[m + k].down
      BY <1>2, <3>3, <3>4, LastSays
    <3> QED
      BY <3>2, <3>3, <3>5
  <2>2. CASE ~Touches(f, c) /\ Touches(e, c)
    <3>1. PICK k \in DOMAIN e : e[k].code = c /\ \A j \in DOMAIN e : j > k => e[j].code # c
      BY <1>2, <2>2, SomeLast
    <3>2. c \in AfterEvents(h, e) <=> e[k].down
      BY <1>2, <3>1, LastSays
    <3>3. c \in AfterEvents(AfterEvents(h, e), f) <=> e[k].down
      BY <2>2, <3>2, UntouchedStays
    <3>4. k \in DOMAIN g /\ g[k].code = c /\ (g[k].down <=> e[k].down)
      BY <1>1, <3>1
    <3>5. ASSUME NEW j \in DOMAIN g, j > k PROVE g[j].code # c
      <4>1. CASE j <= m
        BY <1>1, <3>1, <3>5, <4>1
      <4>2. CASE j > m
        <5>1. j - m \in 1 .. n /\ j = m + (j - m)
          BY <1>1, <4>2
        <5>2. g[m + (j - m)].code = f[j - m].code /\ f[j - m].code # c
          BY <1>1, <2>2, <5>1 DEF Touches
        <5> QED
          BY <5>1, <5>2
      <4> QED
        BY <1>1, <4>1, <4>2
    <3>6. c \in AfterEvents(h, g) <=> g[k].down
      BY <1>2, <3>4, <3>5, LastSays
    <3> QED
      BY <3>3, <3>4, <3>6
  <2>3. CASE ~Touches(f, c) /\ ~Touches(e, c)
    <3>1. ASSUME NEW j \in DOMAIN g PROVE g[j].code # c
      <4>1. CASE j <= m
        BY <1>1, <2>3, <4>1 DEF Touches
      <4>2. CASE j > m
        <5>1. j - m \in 1 .. n /\ j = m + (j - m)
          BY <1>1, <4>2
        <5>2. g[m + (j - m)].code = f[j - m].code /\ f[j - m].code # c
          BY <1>1, <2>3, <5>1 DEF Touches
        <5> QED
          BY <5>1, <5>2
      <4> QED
        BY <1>1, <4>1, <4>2
    <3>2. ~Touches(g, c)
      BY <3>1 DEF Touches
    <3> QED
      BY <2>3, <3>2, UntouchedStays
  <2> QED
    BY <2>1, <2>2, <2>3
<1> QED
  BY <1>3

-----------------------------------------------------------------------------
(* The transitions that bring what is held to a snapshot.                    *)

LEMMA TransitionsSay ==
  ASSUME NEW S \in SUBSET Nat, IsFiniteSet(S), NEW target
  PROVE  LET t == Transitions(S, target)
         IN  /\ Cardinality(S) \in Nat /\ DOMAIN t = 1 .. Cardinality(S)
             /\ \A k \in DOMAIN t : t[k] = Event(t[k].code, t[k].code \in target) /\ t[k].code \in S
             /\ \A c \in S : Touches(t, c)
<1> DEFINE t == Transitions(S, target)
           a == Ascending(S)
<1>1. /\ Cardinality(S) \in Nat /\ DOMAIN a = 1 .. Cardinality(S)
      /\ \A n \in DOMAIN a : a[n] \in S
      /\ \A x \in S : \E n \in DOMAIN a : a[n] = x
  BY AscendingHasAll
<1>2. t = [k \in DOMAIN a |-> Event(a[k], a[k] \in target)]
  BY DEF Transitions
<1> HIDE DEF a, t
<1>3. \A k \in DOMAIN a : t[k].code = a[k] /\ t[k].down = (a[k] \in target)
  BY <1>2 DEF Event
<1>4. \A c \in S : Touches(t, c)
  BY <1>1, <1>2, <1>3 DEF Touches
<1>5. \A k \in DOMAIN t : t[k] = Event(t[k].code, t[k].code \in target) /\ t[k].code \in S
  BY <1>1, <1>2, <1>3
<1> QED
  BY <1>1, <1>2, <1>4, <1>5 DEF t

LEMMA TransitionsBring ==
  ASSUME NEW S \in SUBSET Nat, IsFiniteSet(S), NEW target, NEW h
  PROVE  \A c : c \in AfterEvents(h, Transitions(S, target))
                  <=> IF c \in S THEN c \in target ELSE c \in h
<1> DEFINE t == Transitions(S, target)
<1>1. /\ Batch(t)
      /\ \A k \in DOMAIN t : t[k] = Event(t[k].code, t[k].code \in target) /\ t[k].code \in S
      /\ \A c \in S : Touches(t, c)
  BY TransitionsSay DEF Batch
<1> HIDE DEF t
<1>2. ASSUME NEW c, c \in S PROVE c \in AfterEvents(h, t) <=> c \in target
  <2>1. PICK k \in DOMAIN t : t[k].code = c /\ \A j \in DOMAIN t : j > k => t[j].code # c
    BY <1>1, <1>2, SomeLast
  <2>2. c \in AfterEvents(h, t) <=> t[k].down
    BY <1>1, <2>1, LastSays
  <2>3. t[k].down = (c \in target)
    BY <1>1, <2>1 DEF Event
  <2> QED
    BY <2>2, <2>3
<1>3. ASSUME NEW c, c \notin S PROVE c \in AfterEvents(h, t) <=> c \in h
  <2>1. ~Touches(t, c)
    BY <1>1, <1>3 DEF Touches
  <2> QED
    BY <2>1, UntouchedStays
<1> QED
  BY <1>2, <1>3 DEF t

LEMMA ConcatLengths ==
  ASSUME NEW S, NEW e \in Seq(S), NEW f \in Seq(S)
  PROVE  e \o f \in Seq(S) /\ Len(e \o f) = Len(e) + Len(f)
<1>1. e \o f \in Seq(S)
  OBVIOUS
<1>2. Len(e \o f) = Len(e) + Len(f)
  OBVIOUS
<1> QED
  BY <1>1, <1>2

LEMMA ConcatJoins ==
  ASSUME NEW e, NEW f, NEW m, NEW n,
         \E S : e \in Seq(S) /\ f \in Seq(S),
         m \in Nat, n \in Nat, DOMAIN e = 1 .. m, DOMAIN f = 1 .. n
  PROVE  /\ Joined(e, f, e \o f)
         /\ DOMAIN (e \o f) = 1 .. (m + n)
         /\ \A k \in 1 .. m : (e \o f)[k] = e[k]
         /\ \A k \in 1 .. n : (e \o f)[m + k] = f[k]
<1>1. PICK S : e \in Seq(S) /\ f \in Seq(S)
  OBVIOUS
<1>2. Len(e) = m /\ Len(f) = n
  BY <1>1
<1>3. Len(e \o f) = m + n /\ DOMAIN (e \o f) = 1 .. (m + n)
  BY <1>1, <1>2
<1>4. \A k \in 1 .. m : (e \o f)[k] = e[k]
  BY <1>1, <1>2
<1>5. \A k \in 1 .. n : (e \o f)[m + k] = f[k]
  BY <1>1, <1>2
<1> QED
  BY <1>3, <1>4, <1>5 DEF Joined

Heard(codes) == [code : codes, down : BOOLEAN]

LEMMA TransitionsAreEvents ==
  ASSUME NEW S \in SUBSET Nat, IsFiniteSet(S), NEW target, NEW codes, S \subseteq codes
  PROVE  Transitions(S, target) \in Seq(Heard(codes)) /\ Len(Transitions(S, target)) = Cardinality(S)
<1> DEFINE t == Transitions(S, target)
<1>1. /\ Cardinality(S) \in Nat /\ DOMAIN t = 1 .. Cardinality(S)
      /\ \A k \in DOMAIN t : t[k] = Event(t[k].code, t[k].code \in target) /\ t[k].code \in S
  BY TransitionsSay
<1>2. t = [k \in 1 .. Cardinality(S) |-> t[k]]
  BY <1>1 DEF Transitions
<1> HIDE DEF t
<1>3. \A k \in 1 .. Cardinality(S) : t[k] \in Heard(codes)
  <2>1. \A c \in codes : Event(c, c \in target) \in Heard(codes)
    BY DEF Event, Heard
  <2> QED
    BY <1>1, <2>1
<1>4. t \in [1 .. Cardinality(S) -> Heard(codes)]
  BY <1>2, <1>3
<1>5. t \in Seq(Heard(codes)) /\ Len(t) = Cardinality(S)
  BY <1>1, <1>4
<1> QED
  BY <1>5 DEF t

\* A queue of events, then the modifiers and then the other codes that the queue
\* leaves different from the snapshot: the snapshot is what is held at the end,
\* and its modifiers are held before any other code of it is pressed.
Chord(h, q, target, mods) ==
  LET held == AfterEvents(h, q)
      changed == (held \ target) \cup (target \ held)
  IN  q \o Transitions(changed \cap mods, target) \o Transitions(changed \ mods, target)

\* The batch begins with the queue, leaves the snapshot held, and from the
\* queue's end on no other code comes before the snapshot's modifiers hold.
ChordMeets(codes, q, h, target, mods, all) ==
  /\ all \in Seq(Heard(codes))
  /\ \A k \in 1 .. Len(q) : all[k] = q[k]
  /\ Len(q) <= Len(all)
  /\ AfterEvents(h, all) = target
  /\ \A k \in DOMAIN all : k > Len(q) /\ all[k].code \notin mods =>
       AfterEvents(h, SubSeq(all, 1, k)) \cap mods = target \cap mods

LEMMA ModifiersFirst ==
  ASSUME NEW codes \in SUBSET Nat, IsFiniteSet(codes), NEW q \in Seq(Heard(codes)),
         NEW h \in SUBSET codes, NEW target \in SUBSET codes, NEW mods,
         NEW all, all = Chord(h, q, target, mods)
  PROVE  ChordMeets(codes, q, h, target, mods, all)
<1> DEFINE held == AfterEvents(h, q)
           changed == (held \ target) \cup (target \ held)
           A == changed \cap mods
           B == changed \ mods
           t == Transitions(A, target)
           u == Transitions(B, target)
           l == Len(q)
           m == Len(t)
           n == Len(u)
<1>13. all = q \o t \o u
  BY DEF Chord
<1>1. held \subseteq codes
  <2>1. ASSUME NEW k \in DOMAIN q PROVE q[k].code \in codes
    <3>1. q[k] \in Heard(codes)
      OBVIOUS
    <3> QED
      BY <3>1 DEF Heard
  <2> QED
    BY <2>1 DEF AfterEvents
<1>2. A \in SUBSET Nat /\ A \subseteq codes /\ IsFiniteSet(A) /\ B \in SUBSET Nat /\ B \subseteq codes /\ IsFiniteSet(B)
  <2>1. A \in SUBSET codes /\ B \in SUBSET codes
    BY <1>1
  <2> HIDE DEF A, B
  <2> QED
    BY <2>1, FS_Subset
<1>3. t \in Seq(Heard(codes)) /\ u \in Seq(Heard(codes))
  <2> HIDE DEF A, B
  <2> QED
    BY <1>2, TransitionsAreEvents
<1>4. /\ \A k \in DOMAIN t : t[k].code \in A
      /\ \A k \in DOMAIN u : u[k].code \in B
  <2> HIDE DEF A, B
  <2> QED
    BY <1>2, TransitionsSay
<1>5. /\ \A c : c \in AfterEvents(held, t) <=> IF c \in A THEN c \in target ELSE c \in held
      /\ \A g, c : c \in AfterEvents(g, u) <=> IF c \in B THEN c \in target ELSE c \in g
  <2> HIDE DEF A, B
  <2> QED
    BY <1>2, TransitionsBring
<1>6. l \in Nat /\ m \in Nat /\ n \in Nat /\ DOMAIN q = 1 .. l /\ DOMAIN t = 1 .. m /\ DOMAIN u = 1 .. n
  <2> HIDE DEF t, u
  <2> QED
    BY <1>3
<1> HIDE DEF t, u, l, m, n
<1>7. q \o t \in Seq(Heard(codes)) /\ all \in Seq(Heard(codes))
  BY <1>3, <1>13
<1>8. /\ Joined(q, t, q \o t) /\ DOMAIN (q \o t) = 1 .. (l + m)
      /\ \A k \in 1 .. l : (q \o t)[k] = q[k]
      /\ \A k \in 1 .. m : (q \o t)[l + k] = t[k]
  <2>1. \E S : q \in Seq(S) /\ t \in Seq(S)
    BY <1>3
  <2> QED
    <3>1. Joined(q, t, q \o t)
      BY <1>6, <2>1, ConcatJoins
    <3>2. DOMAIN (q \o t) = 1 .. (l + m)
      BY <1>6, <2>1, ConcatJoins
    <3>3. \A k \in 1 .. l : (q \o t)[k] = q[k]
      BY <1>6, <2>1, ConcatJoins
    <3>4. \A k \in 1 .. m : (q \o t)[l + k] = t[k]
      BY <1>6, <2>1, ConcatJoins
    <3> QED
      BY <3>1, <3>2, <3>3, <3>4
<1>9. /\ Joined(q \o t, u, all) /\ DOMAIN all = 1 .. (l + m + n)
      /\ \A k \in 1 .. (l + m) : all[k] = (q \o t)[k]
      /\ \A k \in 1 .. n : all[l + m + k] = u[k]
  <2> DEFINE w == q \o t
             lm == l + m
  <2>1. w \in Seq(Heard(codes)) /\ lm \in Nat /\ DOMAIN w = 1 .. lm
    BY <1>6, <1>7, <1>8
  <2> HIDE DEF w, lm
  <2>3. \E S : w \in Seq(S) /\ u \in Seq(S)
    BY <1>3, <2>1
  <2>2. /\ Joined(w, u, w \o u) /\ DOMAIN (w \o u) = 1 .. (lm + n)
        /\ \A k \in 1 .. lm : (w \o u)[k] = w[k]
        /\ \A k \in 1 .. n : (w \o u)[lm + k] = u[k]
    <3>1. Joined(w, u, w \o u)
      BY <1>6, <2>1, <2>3, ConcatJoins
    <3>2. DOMAIN (w \o u) = 1 .. (lm + n)
      BY <1>6, <2>1, <2>3, ConcatJoins
    <3>3. \A k \in 1 .. lm : (w \o u)[k] = w[k]
      BY <1>6, <2>1, <2>3, ConcatJoins
    <3>4. \A k \in 1 .. n : (w \o u)[lm + k] = u[k]
      BY <1>6, <2>1, <2>3, ConcatJoins
    <3> QED
      BY <3>1, <3>2, <3>3, <3>4
  <2> QED
    BY <1>13, <2>2 DEF w, lm
<1> HIDE DEF A, B
<1>10. AfterEvents(h, all) = target
  <2>1. AfterEvents(h, all) = AfterEvents(AfterEvents(held, t), u)
    BY <1>8, <1>9, OneAfterAnother
  <2>2. ASSUME NEW c PROVE c \in AfterEvents(h, all) <=> c \in target
    BY <1>5, <2>1 DEF A, B
  <2> QED
    BY <2>2
<1>11. ASSUME NEW k \in DOMAIN all, k > l, all[k].code \notin mods
       PROVE  AfterEvents(h, SubSeq(all, 1, k)) \cap mods = target \cap mods
  <2> DEFINE p == SubSeq(all, 1, k)
             v == SubSeq(u, 1, k - (l + m))
  <2>1. k > l + m
    <3>1. SUFFICES ASSUME k <= l + m PROVE FALSE
      BY <1>6, <1>9
    <3>2. k - l \in 1 .. m /\ k = l + (k - l) /\ k \in 1 .. (l + m)
      BY <1>6, <1>9, <1>11, <3>1
    <3>3. all[k] = t[k - l]
      BY <1>8, <1>9, <3>2
    <3> QED
      BY <1>4, <1>6, <1>11, <3>2, <3>3 DEF A
  <2>2. k - (l + m) \in 1 .. n
    BY <1>6, <1>9, <2>1
  <2>3. DOMAIN p = 1 .. k /\ \A j \in 1 .. k : p[j] = all[j]
    BY <1>6, <1>7, <1>9
  <2>4. DOMAIN v = 1 .. (k - (l + m)) /\ \A j \in 1 .. (k - (l + m)) : v[j] = u[j]
    BY <1>3, <1>6, <2>2
  <2> HIDE DEF p, v
  <2>5. Joined(q \o t, v, p)
    <3>1. l + m \in Nat /\ k - (l + m) \in Nat /\ (l + m) + (k - (l + m)) = k
      <4>1. k \in 1 .. (l + m + n)
        BY <1>9
      <4> QED
        BY <1>6, <2>2, <4>1
    <3>2. \A j \in 1 .. (l + m) : p[j] = (q \o t)[j]
      BY <1>6, <1>9, <2>1, <2>3
    <3>3. ASSUME NEW j \in 1 .. (k - (l + m)) PROVE p[(l + m) + j] = v[j]
      <4>1. j \in 1 .. n /\ (l + m) + j \in 1 .. k
        BY <1>6, <2>2, <3>1
      <4>2. p[(l + m) + j] = all[(l + m) + j]
        BY <2>3, <4>1
      <4>3. all[(l + m) + j] = u[j]
        BY <1>9, <4>1
      <4> QED
        BY <2>4, <4>2, <4>3
    <3> QED
      BY <1>8, <2>3, <2>4, <3>1, <3>2, <3>3 DEF Joined
  <2>6. AfterEvents(h, p) = AfterEvents(AfterEvents(held, t), v)
    BY <1>8, <2>5, OneAfterAnother
  <2>7. ASSUME NEW c, c \in mods PROVE c \in AfterEvents(h, p) <=> c \in target
    <3>1. ~Touches(v, c)
      BY <1>4, <1>6, <2>2, <2>4, <2>7 DEF Touches, B
    <3>2. c \in AfterEvents(h, p) <=> c \in AfterEvents(held, t)
      BY <2>6, <3>1, UntouchedStays
    <3> QED
      BY <1>5, <2>7, <3>2 DEF A
  <2> QED
    BY <2>7 DEF p
<1>12. Len(q) <= Len(all) /\ \A k \in 1 .. Len(q) : all[k] = q[k]
  <2>1. Len(all) = l + m + n
    BY <1>6, <1>7, <1>9
  <2>2. \A k \in 1 .. l : all[k] = q[k]
    BY <1>6, <1>8, <1>9
  <2> QED
    BY <1>6, <2>1, <2>2 DEF l
<1> QED
  BY <1>7, <1>10, <1>11, <1>12 DEF l, ChordMeets

-----------------------------------------------------------------------------
(* Numbers that wrap.                                                        *)

LEMMA OnlyZero == ASSUME NEW M \in Nat \ {0}, NEW k \in Int, NEW x \in Int, x = M * k, -M < x, x < M PROVE k = 0 /\ x = 0
<1>1. ~(k >= 1)
  <2>1. k >= 1 => M * k >= M
    OBVIOUS
  <2> QED BY <2>1
<1>2. ~(k <= -1)
  <2>1. k <= -1 => M * k <= -M
    OBVIOUS
  <2> QED BY <2>1
<1> QED BY <1>1, <1>2

LEMMA ModFacts == ASSUME NEW M \in Nat \ {0}, NEW a \in Nat
  PROVE a % M \in 0 .. (M - 1) /\ \E q \in Nat : a = M * q + (a % M)
<1>1. a % M \in 0 .. (M - 1)
  OBVIOUS
<1>2. a = M * (a \div M) + (a % M) /\ a \div M \in Nat
  OBVIOUS
<1> QED BY <1>1, <1>2

LEMMA ModGap ==
  ASSUME NEW M \in Nat \ {0}, NEW a \in Nat, NEW b \in Nat, b <= a, a - b < M
  PROVE  a - b = IF (a % M) >= (b % M) THEN (a % M) - (b % M) ELSE (a % M) - (b % M) + M
<1>1. PICK q \in Nat : a = M * q + (a % M)
  BY ModFacts
<1>2. PICK p \in Nat : b = M * p + (b % M)
  BY ModFacts
<1>3. a % M \in 0 .. (M - 1) /\ b % M \in 0 .. (M - 1)
  BY ModFacts
<1> DEFINE r == a % M
           s == b % M
<1>4. r \in 0 .. (M - 1) /\ s \in 0 .. (M - 1) /\ a = M * q + r /\ b = M * p + s
  BY <1>1, <1>2, <1>3
<1> HIDE DEF r, s
<1>5. M * q - M * p = M * (q - p) /\ M * (q - p) \in Int /\ M * q \in Int /\ M * p \in Int
  OBVIOUS
<1>6. a - b = M * (q - p) + (r - s)
  BY <1>4, <1>5
<1>7. ASSUME r >= s PROVE a - b = r - s
  <2>1. M * (q - p) < M /\ M * (q - p) > -M
    BY <1>4, <1>5, <1>6, <1>7
  <2>2. M * (q - p) = 0
    BY <2>1, <1>5, OnlyZero
  <2>3. a - b = r - s
    BY <1>4, <1>6, <2>2
  <2> QED BY <1>7, <2>3
<1>8. ASSUME r < s PROVE a - b = r - s + M /\ ~(r >= s)
  <2>1. M * (q - p) - M = M * (q - p - 1)
    OBVIOUS
  <2>2. M * (q - p - 1) < M /\ M * (q - p - 1) > -M
    BY <1>4, <1>5, <1>6, <1>8, <2>1
  <2>3. M * (q - p - 1) = 0
    BY <2>2, OnlyZero
  <2> DEFINE w == M * (q - p)
  <2>4. w \in Int /\ w - M = 0
    BY <2>1, <2>3, <1>5
  <2>5. a - b = w + (r - s)
    BY <1>6
  <2> HIDE DEF w
  <2>6. a - b = r - s + M /\ ~(r >= s)
    BY <1>4, <1>8, <2>4, <2>5
  <2> QED BY <2>6
<1>9. a - b = IF r >= s THEN r - s ELSE r - s + M
  BY <1>4, <1>7, <1>8
<1> QED BY <1>9 DEF r, s

LEMMA ModStep ==
  ASSUME NEW M \in Nat \ {0}, NEW a \in Nat, NEW n \in Nat
  PROVE ((a % M) + n) % M = (a + n) % M
<1> DEFINE b == (a % M) + n
           c == a + n
<1>1. PICK q \in Nat : a = M * q + (a % M)
  BY ModFacts
<1>2. a % M \in Nat /\ b \in Nat /\ c \in Nat /\ c = M * q + b
  BY <1>1, ModFacts
<1> HIDE DEF b, c
<1>3. PICK p \in Nat : b = M * p + (b % M)
  BY <1>2, ModFacts
<1>4. PICK s \in Nat : c = M * s + (c % M)
  BY <1>2, ModFacts
<1>5. b % M \in 0 .. (M - 1) /\ c % M \in 0 .. (M - 1)
  BY <1>2, ModFacts
<1>6. M * (q + p - s) = M * q + M * p - M * s /\ M * q \in Int /\ M * p \in Int /\ M * s \in Int
  OBVIOUS
<1>7. (c % M) - (b % M) = M * (q + p - s)
  <2> DEFINE x == M * q
             y == M * p
             z == M * s
             cr == c % M
             br == b % M
  <2>1. x \in Int /\ y \in Int /\ z \in Int /\ cr \in Int /\ br \in Int
    BY <1>5, <1>6
  <2>2. c = x + b /\ b = y + br /\ c = z + cr /\ M * (q + p - s) = x + y - z
    BY <1>2, <1>3, <1>4, <1>6
  <2> HIDE DEF x, y, z, cr, br
  <2>3. cr - br = M * (q + p - s)
    BY <1>2, <2>1, <2>2
  <2> QED BY <2>3 DEF cr, br
<1>8. (c % M) - (b % M) = 0
  <2> DEFINE x == (c % M) - (b % M)
  <2>1. x \in Int /\ -M < x /\ x < M
    BY <1>5
  <2>2. q + p - s \in Int /\ x = M * (q + p - s)
    BY <1>7
  <2> HIDE DEF x
  <2>3. x = 0
    BY <2>1, <2>2, OnlyZero
  <2> QED BY <2>3 DEF x
<1> QED BY <1>5, <1>8 DEF b, c

-----------------------------------------------------------------------------
(* The invariant.                                                            *)

Edge == [code : Codes[fac], down : BOOLEAN, mods : SUBSET Modifiers]

\* What is held after the first n edges, and the ring the n-th leaves behind.
HeldAt(edges, n) == AfterEvents({}, SubSeq(edges, 1, n))
RingAt(edges, n, depth) ==
  [k \in 1 .. depth |->
     IF n - depth + k >= 1 THEN Event(edges[n - depth + k].code, edges[n - depth + k].down)
                           ELSE NoEvent]

InFlight == {net[k] : k \in DOMAIN net}

\* How many datagrams ago one was sent.
Ago(seq) == SeqDistance(tx_seq, seq)

\* What the theorem supposes: no datagram is overtaken by half a turn of the
\* header's sequence, and of the events that are still to come to the host
\* there are fewer than half a turn of theirs.
Timely ==
  /\ \A d \in InFlight : Ago(d.seq) < SeqHalf
  /\ serving /\ st.baseline => Len(made) - Len(done) < SeqHalf

SenderInv ==
  /\ snd.seq = Len(made) % SeqModulus
  /\ snd.ring = RingAt(made, Len(made), RingDepth[fac])
  /\ snd.held = HeldAt(made, Len(made))
  /\ ~snd.serial => snd.held = {}

\* A datagram is the state of the client at the edge it was sent after.
Written(d) ==
  /\ d.n <= Len(made)
  /\ d.msg.event_seq = d.n % SeqModulus
  /\ d.msg.ring = RingAt(made, d.n, RingDepth[fac])
  /\ d.msg.held = HeldAt(made, d.n)

NetInv ==
  /\ \A d \in InFlight : Written(d) /\ Ago(d.seq) >= 1
  /\ \A d, e \in InFlight : d.n < e.n => Ago(d.seq) > Ago(e.seq)

\* A datagram that is behind what the host has heard is behind its window too.
Behind(d) == rx_kbm # NoSeq /\ Ago(rx_kbm) < Ago(d.seq)
WindowInv == \A d \in InFlight : d.n < Len(done) => Behind(d)

HostInv ==
  /\ ~st.baseline => done = <<>>
  /\ down = st.shadow
  /\ ~st.created => st.shadow = {}
  /\ EdgesAsMeant

MeantInv ==
  fac = "KEYBOARD" =>
    \A k \in DOMAIN made :
      made[k].down /\ made[k].code \notin Modifiers =>
        made[k].mods = Modifiers \cap HeldAt(made, k)

Codes0 == Codes[fac] \cup {0}
Depth == RingDepth[fac]

Message == [event_seq : Seqs, held : SUBSET Codes[fac],
            ring : [1 .. Depth -> Heard(Codes0)], accum : Int]

Packet == [type : {"KBM", "BYE"}, seq : Seqs, msg : Message, n : Nat]

Sender ==
  [serial : BOOLEAN, rate : MouseRates \cup {0}, held : SUBSET Codes[fac],
   seq : Seqs, ring : [1 .. Depth -> Heard(Codes0)], since : Int,
   trail : Int, dirty : BOOLEAN, engaged : BOOLEAN, accum : Int]

Receiver ==
  [created : BOOLEAN, baseline : BOOLEAN, shadow : SUBSET Codes[fac],
   applied : Seqs, age : Int, accum : Int]

\* n datagrams of the sender's state s are on their way more than before.
Sends(s, sent, n) ==
  /\ InFlight' = InFlight \cup sent
  /\ \A x \in Seqs : Ago(x) < SeqHalf => SeqDistance(tx_seq', x) = Ago(x) + n
  /\ \A d \in sent : /\ d.n = Len(made') /\ SeqDistance(tx_seq', d.seq) \in 1 .. n
                     /\ d.msg.event_seq = s.seq /\ d.msg.ring = s.ring
                     /\ d.msg.held = s.held

KeysType ==
  /\ fac \in Facilities
  /\ snd \in Sender
  /\ tx_seq \in Seqs /\ rx_kbm \in Seqs \cup {NoSeq}
  /\ net \in Seq(Packet)
  /\ st \in Receiver
  /\ made \in Seq(Edge)
  /\ done \in Seq(Heard(Codes0) \cup {Lost})
  /\ mistyped \in BOOLEAN

KeysInv == SenderInv /\ NetInv /\ WindowInv /\ HostInv /\ MeantInv

-----------------------------------------------------------------------------
(* The histories grow at their end.                                          *)

LEMMA SizesFit ==
  ASSUME fac \in Facilities
  PROVE  /\ Depth \in Nat \ {0} /\ Codes[fac] \in SUBSET Nat /\ 0 \notin Codes[fac]
         /\ IsFiniteSet(Codes[fac]) /\ Codes0 \subseteq Nat
         /\ SeqModulus \in Nat \ {0} /\ SeqModulus >= 4 /\ SeqModulus = 2 * SeqHalf /\ SeqHalf \in Nat
<1>1. Depth \in Nat \ {0}
  BY KbmAssumption DEF Depth
<1>2. Codes[fac] \subseteq Nat \ {0} /\ IsFiniteSet(Codes[fac])
  BY KbmAssumption, KbmLinkAssumption
<1>3. PICK h \in 2 .. SeqModulus : SeqModulus = 2 * h
  BY SeqModAssumption
<1>4. h \in Nat /\ h >= 2
  BY <1>3, SeqModAssumption
<1>5. SeqModulus \in Nat \ {0} /\ SeqModulus >= 4 /\ SeqHalf = h
  BY <1>3, <1>4 DEF SeqHalf
<1> QED
  BY <1>1, <1>2, <1>3, <1>4, <1>5 DEF Codes0

\* What the edges say of one state of the sender stays so when more are made.
LEMMA PastStays ==
  ASSUME NEW E, NEW edges \in Seq(E), NEW more \in Seq(E), NEW n \in Nat, n <= Len(edges),
         NEW depth \in Nat
  PROVE  /\ HeldAt(edges \o more, n) = HeldAt(edges, n)
         /\ RingAt(edges \o more, n, depth) = RingAt(edges, n, depth)
<1>1. \A k \in 1 .. n : (edges \o more)[k] = edges[k]
  OBVIOUS
<1>2. SubSeq(edges \o more, 1, n) = SubSeq(edges, 1, n)
  <2> DEFINE all == edges \o more
  <2>1. all \in Seq(E) /\ Len(all) = Len(edges) + Len(more)
    OBVIOUS
  <2> HIDE DEF all
  <2>2. SubSeq(all, 1, n) = [k \in 1 .. n |-> all[k]] /\ SubSeq(edges, 1, n) = [k \in 1 .. n |-> edges[k]]
    BY <2>1
  <2> QED
    BY <1>1, <2>2 DEF all
<1>3. \A k \in 1 .. depth : n - depth + k >= 1 => (edges \o more)[n - depth + k] = edges[n - depth + k]
  <2>1. \A k \in 1 .. depth : n - depth + k >= 1 => n - depth + k \in 1 .. n
    OBVIOUS
  <2> QED
    BY <1>1, <2>1
<1> QED
  BY <1>2, <1>3 DEF HeldAt, RingAt

\* A batch that is pushed: what is held follows it, and the ring shifts by it.
LEMMA PushedFollow ==
  ASSUME fac \in Facilities, NEW edges \in Seq(Edge), NEW more \in Seq(Edge),
         NEW batch \in Seq(Heard(Codes[fac])), Len(more) = Len(batch),
         \A k \in 1 .. Len(batch) : more[k].code = batch[k].code /\ more[k].down = batch[k].down,
         NEW j \in 0 .. Len(batch)
  PROVE  HeldAt(edges \o more, Len(edges) + j) = AfterEvents(HeldAt(edges, Len(edges)), SubSeq(batch, 1, j))
<1> DEFINE all == edges \o more
           l == Len(edges)
           e == SubSeq(edges, 1, l)
           f == SubSeq(batch, 1, j)
           g == SubSeq(all, 1, l + j)
<1>1. all \in Seq(Edge) /\ Len(all) = l + Len(batch) /\ l \in Nat /\ j \in Nat
  <2>1. all \in Seq(Edge)
    BY ONLY edges \in Seq(Edge), more \in Seq(Edge)
  <2>2. Len(all) = l + Len(more)
    BY ONLY edges \in Seq(Edge), more \in Seq(Edge)
  <2>3. l \in Nat /\ Len(batch) \in Nat
    OBVIOUS
  <2> HIDE DEF all
  <2> QED
    BY <2>1, <2>2, <2>3
<1>2. /\ \A k \in 1 .. l : all[k] = edges[k]
      /\ \A k \in 1 .. Len(batch) : all[l + k] = more[k]
  <2>1. \A k \in 1 .. l : all[k] = edges[k]
    BY ONLY edges \in Seq(Edge), more \in Seq(Edge)
  <2>2. \A k \in 1 .. Len(more) : all[l + k] = more[k]
    BY ONLY edges \in Seq(Edge), more \in Seq(Edge)
  <2> QED
    BY <2>1, <2>2
<1>3. DOMAIN e = 1 .. l /\ \A k \in 1 .. l : e[k] = edges[k]
  OBVIOUS
<1>4. DOMAIN f = 1 .. j /\ \A k \in 1 .. j : f[k] = batch[k]
  OBVIOUS
<1> HIDE DEF all
<1>5. DOMAIN g = 1 .. (l + j) /\ \A k \in 1 .. (l + j) : g[k] = all[k]
  BY <1>1
<1> HIDE DEF e, f, g, l
<1>6. \A k \in 1 .. l : k \in 1 .. (l + j)
  BY <1>1
<1>7. \A k \in 1 .. j : l + k \in 1 .. (l + j) /\ k \in 1 .. Len(batch)
  BY <1>1
<1>8. \A k \in 1 .. l : g[k].code = e[k].code /\ g[k].down = e[k].down
  BY <1>2, <1>3, <1>5, <1>6
<1>9. \A k \in 1 .. j : g[l + k].code = f[k].code /\ g[l + k].down = f[k].down
  BY <1>2, <1>4, <1>5, <1>7
<1>10. Joined(e, f, g)
  BY <1>1, <1>3, <1>4, <1>5, <1>8, <1>9 DEF Joined
<1>11. AfterEvents({}, g) = AfterEvents(AfterEvents({}, e), f)
  BY <1>10, OneAfterAnother
<1> QED
  BY <1>11 DEF HeldAt, e, f, g, l, all

LEMMA RingShifts ==
  ASSUME fac \in Facilities, NEW edges \in Seq(Edge), NEW more \in Seq(Edge),
         NEW batch \in Seq(Heard(Codes[fac])), Len(more) = Len(batch),
         \A k \in 1 .. Len(batch) : more[k].code = batch[k].code /\ more[k].down = batch[k].down,
         NEW ring, ring = RingAt(edges, Len(edges), Depth)
  PROVE  /\ SubSeq(ring \o batch, Len(batch) + 1, Len(ring \o batch))
              = RingAt(edges \o more, Len(edges \o more), Depth)
         /\ RingAt(edges \o more, Len(edges \o more), Depth) \in [1 .. Depth -> Heard(Codes0)]
<1> DEFINE all == edges \o more
           l == Len(edges)
           p == Len(batch)
           slots == ring \o batch
           now == RingAt(all, l + p, Depth)
<1>1. Depth \in Nat \ {0} /\ l \in Nat /\ p \in Nat /\ all \in Seq(Edge) /\ Len(all) = l + p
  <2>1. all \in Seq(Edge)
    OBVIOUS
  <2>2. Len(all) = l + Len(more)
    BY ConcatLengths
  <2> HIDE DEF all
  <2>3. l \in Nat /\ p \in Nat
    OBVIOUS
  <2> QED
    BY <2>1, <2>2, <2>3, SizesFit
<1>2. /\ \A k \in 1 .. l : all[k] = edges[k]
      /\ \A k \in 1 .. p : all[l + k] = more[k]
  OBVIOUS
<1>3. \A c \in Codes[fac], d \in BOOLEAN : Event(c, d) \in Heard(Codes0)
  BY DEF Event, Heard, Codes0
<1>4. NoEvent \in Heard(Codes0)
  BY DEF NoEvent, Event, Heard, Codes0
<1>5. \A x \in Seq(Edge) : \A k \in 1 .. Len(x) : x[k].code \in Codes[fac] /\ x[k].down \in BOOLEAN
  <2> TAKE x \in Seq(Edge)
  <2> TAKE k \in 1 .. Len(x)
  <2>1. x[k] \in Edge
    OBVIOUS
  <2> QED
    BY <2>1 DEF Edge
<1>6. ASSUME NEW x \in Seq(Edge) PROVE RingAt(x, Len(x), Depth) \in [1 .. Depth -> Heard(Codes0)]
  <2>1. \A k \in 1 .. Depth : Len(x) - Depth + k >= 1 => Len(x) - Depth + k \in 1 .. Len(x)
    BY <1>1
  <2>2. \A k \in 1 .. Depth : Len(x) - Depth + k >= 1 =>
          Event(x[Len(x) - Depth + k].code, x[Len(x) - Depth + k].down) \in Heard(Codes0)
    BY <1>3, <1>5, <2>1
  <2> QED
    BY <1>4, <2>2 DEF RingAt
<1>7. ring \in [1 .. Depth -> Heard(Codes0)] /\ now \in [1 .. Depth -> Heard(Codes0)]
  BY <1>1, <1>6
<1>8. ring \in Seq(Heard(Codes0)) /\ Len(ring) = Depth /\ batch \in Seq(Heard(Codes0))
  <2>1. Heard(Codes[fac]) \subseteq Heard(Codes0)
    BY DEF Heard, Codes0
  <2>2. batch \in Seq(Heard(Codes0))
    <3>1. \A k \in 1 .. Len(batch) : batch[k] \in Heard(Codes0)
      BY <2>1
    <3>2. batch \in [1 .. Len(batch) -> Heard(Codes0)]
      BY <3>1
    <3> QED
      BY <1>1, <3>2
  <2> QED
    BY <1>1, <1>7, <2>2
<1>9. slots \in Seq(Heard(Codes0)) /\ Len(slots) = Depth + p
      /\ (\A k \in 1 .. Depth : slots[k] = ring[k]) /\ (\A k \in 1 .. p : slots[Depth + k] = batch[k])
  <2>0. slots \in Seq(Heard(Codes0))
    BY <1>8
  <2>1. Len(slots) = Depth + p
    BY <1>8, ConcatLengths
  <2>2. \A k \in 1 .. Depth : slots[k] = ring[k]
    BY <1>8
  <2>3. \A k \in 1 .. p : slots[Depth + k] = batch[k]
    BY <1>8
  <2> QED
    BY <2>0, <2>1, <2>2, <2>3
<1>10. ring = [k \in 1 .. Depth |-> IF l - Depth + k >= 1
                  THEN Event(edges[l - Depth + k].code, edges[l - Depth + k].down) ELSE NoEvent]
  BY DEF RingAt
<1>11. now = [k \in 1 .. Depth |-> IF (l + p) - Depth + k >= 1
                  THEN Event(all[(l + p) - Depth + k].code, all[(l + p) - Depth + k].down) ELSE NoEvent]
  BY DEF RingAt
<1>12. \A k \in 1 .. p : batch[k] = Event(more[k].code, more[k].down)
  <2> TAKE k \in 1 .. p
  <2>1. batch[k] \in Heard(Codes[fac])
    OBVIOUS
  <2>2. batch[k] = Event(batch[k].code, batch[k].down)
    BY <2>1 DEF Heard, Event
  <2> QED
    BY <2>2
<1> HIDE DEF all, slots, now, l, p
<1>13. SubSeq(slots, p + 1, Depth + p) = [k \in 1 .. Depth |-> slots[p + k]]
  BY <1>1, <1>9
<1>14. ASSUME NEW k \in 1 .. Depth PROVE slots[p + k] = now[k]
  <2>1. CASE p + k <= Depth
    <3>1. p + k \in 1 .. Depth /\ l - Depth + (p + k) = (l + p) - Depth + k
      BY <1>1, <2>1
    <3>2. (l + p) - Depth + k >= 1 => (l + p) - Depth + k \in 1 .. l
      BY <1>1, <2>1
    <3> QED
      BY <1>2, <1>9, <1>10, <1>11, <3>1, <3>2
  <2>2. CASE p + k > Depth
    <3>1. p + k - Depth \in 1 .. p /\ p + k = Depth + (p + k - Depth)
      BY <1>1, <2>2
    <3>2. (l + p) - Depth + k = l + (p + k - Depth) /\ (l + p) - Depth + k >= 1
      BY <1>1, <2>2
    <3>3. slots[p + k] = batch[p + k - Depth]
      BY <1>9, <3>1
    <3>4. all[(l + p) - Depth + k] = more[p + k - Depth]
      BY <1>2, <3>1, <3>2
    <3> QED
      BY <1>11, <1>12, <3>1, <3>2, <3>3, <3>4
  <2> QED
    BY <1>1, <2>1, <2>2
<1>15. SubSeq(slots, p + 1, Depth + p) = now
  <2>1. now = [k \in 1 .. Depth |-> now[k]]
    BY <1>7
  <2> QED
    BY <1>13, <1>14, <2>1
<1> QED
  BY <1>1, <1>7, <1>9, <1>15 DEF now, slots, all, l, p

\* A queue of events, then one for every code that the queue leaves different
\* from the snapshot: the snapshot is what is held at the end.
LEMMA SnapshotLast ==
  ASSUME NEW codes \in SUBSET Nat, IsFiniteSet(codes), NEW q \in Seq(Heard(codes)),
         NEW h \in SUBSET codes, NEW target \in SUBSET codes
  PROVE  LET held == AfterEvents(h, q)
             changed == (held \ target) \cup (target \ held)
             all == q \o Transitions(changed, target)
         IN  /\ all \in Seq(Heard(codes))
             /\ AfterEvents(h, all) = target
<1> DEFINE held == AfterEvents(h, q)
           changed == (held \ target) \cup (target \ held)
           t == Transitions(changed, target)
           l == Len(q)
           m == Len(t)
           all == q \o t
<1>1. held \subseteq codes
  <2>1. ASSUME NEW k \in DOMAIN q PROVE q[k].code \in codes
    <3>1. q[k] \in Heard(codes)
      OBVIOUS
    <3> QED
      BY <3>1 DEF Heard
  <2> QED
    BY <2>1 DEF AfterEvents
<1>2. changed \in SUBSET Nat /\ changed \subseteq codes /\ IsFiniteSet(changed)
  <2>1. changed \in SUBSET codes
    BY <1>1
  <2> HIDE DEF changed
  <2> QED
    BY <2>1, FS_Subset
<1>3. t \in Seq(Heard(codes))
  <2> HIDE DEF changed
  <2> QED
    BY <1>2, TransitionsAreEvents
<1>4. \A c : c \in AfterEvents(held, t) <=> IF c \in changed THEN c \in target ELSE c \in held
  <2> HIDE DEF changed
  <2> QED
    BY <1>2, TransitionsBring
<1>5. l \in Nat /\ m \in Nat /\ DOMAIN q = 1 .. l /\ DOMAIN t = 1 .. m
  <2> HIDE DEF t
  <2> QED
    BY <1>3
<1>6. \E S : q \in Seq(S) /\ t \in Seq(S)
  BY <1>3
<1> HIDE DEF t, l, m
<1>7. Joined(q, t, all)
  BY <1>5, <1>6, ConcatJoins
<1>8. AfterEvents(h, all) = AfterEvents(held, t)
  BY <1>7, OneAfterAnother
<1>9. ASSUME NEW c PROVE c \in AfterEvents(h, all) <=> c \in target
  BY <1>4, <1>8
<1>10. all \in Seq(Heard(codes))
  BY <1>3, ConcatLengths
<1> QED
  BY <1>9, <1>10 DEF t

\* What the client makes of a submission, and what the user meant by it.
LEMMA SubmissionMeans ==
  ASSUME KeysType, NEW in \in Submissions(fac)
  PROVE  LET batch == Edges(fac, snd, in)
             more == Meaning(snd, in)
         IN  /\ batch \in Seq(Heard(Codes[fac]))
             /\ AfterEvents(snd.held, batch) = in.held
             /\ more \in Seq(Edge) /\ Len(more) = Len(batch)
             /\ \A k \in 1 .. Len(batch) : more[k].code = batch[k].code /\ more[k].down = batch[k].down
             /\ fac = "KEYBOARD" => \A k \in 1 .. Len(batch) :
                  more[k].code \notin Modifiers =>
                    more[k].mods = Modifiers \cap AfterEvents(snd.held, SubSeq(batch, 1, k))
<1> DEFINE batch == Edges(fac, snd, in)
           more == Meaning(snd, in)
           q == in.queue
           codes == Codes[fac]
<1>1. fac \in {"KEYBOARD", "MOUSE", "MEDIA"} /\ codes \in SUBSET Nat /\ IsFiniteSet(codes)
  BY SizesFit DEF KeysType, Facilities
<1>2. q \in Seq(Heard(codes)) /\ in.held \in SUBSET codes /\ snd.held \in SUBSET codes
  <2>1. q \in Queues[fac] /\ in.held \in SUBSET codes
    BY DEF Submissions
  <2>2. Queues[fac] \subseteq Seq([code : Codes[fac], down : BOOLEAN])
    BY KbmLinkAssumption DEF KeysType
  <2>3. snd.held \in SUBSET codes
    BY DEF KeysType, Sender
  <2> QED
    BY <2>1, <2>2, <2>3 DEF Heard
<1> HIDE DEF q, codes
<1>11. ChordMeets(codes, q, snd.held, in.held, Modifiers, KeyboardEdges(snd, in))
  <2> DEFINE h == snd.held
             target == in.held
             all == KeyboardEdges(snd, in)
  <2>1. all = Chord(h, q, target, Modifiers)
    BY DEF KeyboardEdges, Differing, Chord, q
  <2>2. h \in SUBSET codes /\ target \in SUBSET codes
    BY <1>2
  <2> HIDE DEF h, target, all
  <2>3. ChordMeets(codes, q, h, target, Modifiers, all)
    BY <1>1, <1>2, <2>1, <2>2, ModifiersFirst
  <2> QED
    BY <2>3 DEF h, target, all
<1>3. /\ batch \in Seq(Heard(codes))
      /\ AfterEvents(snd.held, batch) = in.held
  <2>1. CASE fac = "KEYBOARD"
    <3>1. batch = KeyboardEdges(snd, in)
      BY <2>1 DEF Edges
    <3> QED
      BY <1>11, <3>1 DEF ChordMeets
  <2>2. CASE fac = "MOUSE"
    <3>1. batch = MouseEdges(snd, in)
      BY <2>2 DEF Edges
    <3>2. /\ MouseEdges(snd, in) \in Seq(Heard(codes))
          /\ AfterEvents(snd.held, MouseEdges(snd, in)) = in.held
      BY <1>1, <1>2, SnapshotLast DEF MouseEdges, Differing, q
    <3> QED
      BY <3>1, <3>2
  <2>3. CASE fac = "MEDIA"
    <3>1. batch = MediaEdges(snd, in)
      BY <2>3 DEF Edges
    <3>2. /\ MediaEdges(snd, in) \in Seq(Heard(codes))
          /\ AfterEvents(snd.held, MediaEdges(snd, in)) = in.held
      BY <1>1, <1>2, SnapshotLast DEF MediaEdges, Differing, q
    <3> QED
      BY <3>1, <3>2
  <2> QED
    BY <1>1, <2>1, <2>2, <2>3
<1>4. more = [k \in 1 .. Len(batch) |->
        [code |-> batch[k].code, down |-> batch[k].down,
         mods |-> Modifiers \cap IF k <= Len(q) THEN AfterEvents(snd.held, SubSeq(q, 1, k))
                                               ELSE in.held]]
  <2>1. DOMAIN batch = 1 .. Len(batch)
    <3> HIDE DEF batch
    <3> QED
      BY <1>3
  <2> QED
    BY <2>1 DEF Meaning, q
<1> HIDE DEF batch, more
<1>5. ASSUME NEW k \in 1 .. Len(batch)
      PROVE  batch[k].code \in codes /\ batch[k].down \in BOOLEAN
  <2>1. batch[k] \in Heard(codes)
    BY <1>3
  <2> QED
    BY <2>1 DEF Heard
<1>6. more \in [1 .. Len(batch) -> Edge]
  <2>1. \A k \in 1 .. Len(batch) : \A T : [code |-> batch[k].code, down |-> batch[k].down,
                                           mods |-> Modifiers \cap T] \in Edge
    BY <1>5 DEF Edge, codes
  <2> QED
    BY <1>4, <2>1
<1>7. Len(batch) \in Nat
  BY <1>3
<1>8. more \in Seq(Edge) /\ Len(more) = Len(batch)
  BY <1>6, <1>7
<1>9. \A k \in 1 .. Len(batch) : more[k].code = batch[k].code /\ more[k].down = batch[k].down
  BY <1>4
<1>10. ASSUME fac = "KEYBOARD", NEW k \in 1 .. Len(batch), batch[k].code \notin Modifiers
       PROVE  more[k].mods = Modifiers \cap AfterEvents(snd.held, SubSeq(batch, 1, k))
  <2>1. batch = KeyboardEdges(snd, in)
    BY <1>10 DEF batch, Edges
  <2>2. /\ \A j \in 1 .. Len(q) : batch[j] = q[j]
        /\ Len(q) <= Len(batch)
        /\ \A j \in DOMAIN batch : j > Len(q) /\ batch[j].code \notin Modifiers =>
             AfterEvents(snd.held, SubSeq(batch, 1, j)) \cap Modifiers = in.held \cap Modifiers
    BY <1>11, <2>1 DEF ChordMeets
  <2>3. DOMAIN batch = 1 .. Len(batch) /\ Len(q) \in Nat
    BY <1>2, <1>3
  <2>4. CASE k <= Len(q)
    <3>1. more[k].mods = Modifiers \cap AfterEvents(snd.held, SubSeq(q, 1, k))
      BY <1>4, <2>4
    <3>2. SubSeq(q, 1, k) = [j \in 1 .. k |-> q[j]] /\ SubSeq(batch, 1, k) = [j \in 1 .. k |-> batch[j]]
      BY <1>2, <1>3, <1>7, <2>3, <2>4
    <3>3. \A j \in 1 .. k : q[j] = batch[j]
      BY <2>2, <2>3, <2>4
    <3> QED
      BY <3>1, <3>2, <3>3
  <2>5. CASE k > Len(q)
    <3>1. more[k].mods = Modifiers \cap in.held
      BY <1>4, <1>7, <2>3, <2>5
    <3>2. AfterEvents(snd.held, SubSeq(batch, 1, k)) \cap Modifiers = in.held \cap Modifiers
      BY <1>10, <2>2, <2>3, <2>5
    <3> QED
      BY <3>1, <3>2
  <2> QED
    BY <1>7, <2>3, <2>4, <2>5
<1> QED
  BY <1>3, <1>8, <1>9, <1>10 DEF batch, more, codes

\* The state a batch leaves the sender in is the one its edges describe.
LEMMA PushedIsMade ==
  ASSUME KeysType, SenderInv, NEW more \in Seq(Edge), NEW batch \in Seq(Heard(Codes[fac])),
         Len(more) = Len(batch),
         \A k \in 1 .. Len(batch) : more[k].code = batch[k].code /\ more[k].down = batch[k].down
  PROVE  LET now == made \o more
             ring == SubSeq(snd.ring \o batch, Len(batch) + 1, Len(snd.ring \o batch))
         IN  /\ now \in Seq(Edge) /\ Len(now) = Len(made) + Len(batch)
             /\ (snd.seq + Len(batch)) % SeqModulus = Len(now) % SeqModulus
             /\ (snd.seq + Len(batch)) % SeqModulus \in Seqs
             /\ ring = RingAt(now, Len(now), Depth)
             /\ ring \in [1 .. Depth -> Heard(Codes0)]
             /\ AfterEvents(snd.held, batch) = HeldAt(now, Len(now))
             /\ \A k \in 0 .. Len(batch) :
                  HeldAt(now, Len(made) + k) = AfterEvents(snd.held, SubSeq(batch, 1, k))
<1> DEFINE now == made \o more
           ring == SubSeq(snd.ring \o batch, Len(batch) + 1, Len(snd.ring \o batch))
<1>1. fac \in Facilities /\ made \in Seq(Edge)
  BY DEF KeysType
<1>2. now \in Seq(Edge)
  BY <1>1, ConcatLengths
<1>3. Len(now) = Len(made) + Len(batch)
  <2>1. Len(now) = Len(made) + Len(more)
    BY <1>1, ConcatLengths
  <2> HIDE DEF now
  <2> QED
    BY <2>1
<1>4. Len(made) \in Nat /\ Len(batch) \in Nat
  BY <1>1
<1>5. /\ snd.seq = Len(made) % SeqModulus
      /\ snd.ring = RingAt(made, Len(made), Depth)
      /\ snd.held = HeldAt(made, Len(made))
  BY DEF SenderInv, Depth
<1>6. /\ ring = RingAt(now, Len(now), Depth)
      /\ RingAt(now, Len(now), Depth) \in [1 .. Depth -> Heard(Codes0)]
  BY <1>1, <1>5, RingShifts
<1>7. ASSUME NEW k \in 0 .. Len(batch)
      PROVE  HeldAt(now, Len(made) + k) = AfterEvents(snd.held, SubSeq(batch, 1, k))
  BY <1>1, <1>5, PushedFollow
<1>8. SubSeq(batch, 1, Len(batch)) = batch
  OBVIOUS
<1>9. AfterEvents(snd.held, batch) = HeldAt(now, Len(now))
  <2>1. Len(batch) \in 0 .. Len(batch)
    BY <1>4
  <2> HIDE DEF now
  <2> QED
    BY <1>3, <1>7, <1>8, <2>1
<1>10. (snd.seq + Len(batch)) % SeqModulus = Len(now) % SeqModulus
  <2>1. SeqModulus \in Nat \ {0}
    BY <1>1, SizesFit
  <2>2. ((Len(made) % SeqModulus) + Len(batch)) % SeqModulus = (Len(made) + Len(batch)) % SeqModulus
    BY <1>4, <2>1, ModStep
  <2> HIDE DEF now
  <2> QED
    BY <1>3, <1>5, <2>2
<1>11. Len(now) % SeqModulus \in Seqs
  <2>1. Len(now) \in Nat
    BY <1>2
  <2> HIDE DEF now
  <2> QED
    BY <1>1, <2>1, SizesFit, ModFacts DEF Seqs
<1> QED
  BY <1>2, <1>3, <1>6, <1>7, <1>9, <1>10, <1>11

-----------------------------------------------------------------------------
(* The client's steps.                                                       *)

LEMMA Further ==
  ASSUME NEW t \in Seqs, NEW x \in Seqs, SeqDistance(t, x) < SeqHalf
  PROVE  /\ SeqNext(t) \in Seqs /\ SeqNext(SeqNext(t)) \in Seqs
         /\ SeqDistance(SeqNext(t), x) = SeqDistance(t, x) + 1
         /\ SeqDistance(SeqNext(SeqNext(t)), x) = SeqDistance(t, x) + 2
<1>1. PICK h \in 2 .. SeqModulus : SeqModulus = 2 * h /\ SeqHalf = h
  BY SeqModAssumption DEF SeqHalf
<1>2. SeqNext(t) \in Seqs /\ SeqDistance(SeqNext(t), x) = SeqDistance(t, x) + 1
  BY <1>1, SeqModAssumption DEF Seqs, SeqNext, SeqDistance
<1>3. SeqNext(SeqNext(t)) \in Seqs /\ SeqDistance(SeqNext(SeqNext(t)), x) = SeqDistance(t, x) + 2
  BY <1>1, SeqModAssumption DEF Seqs, SeqNext, SeqDistance
<1> QED
  BY <1>2, <1>3

LEMMA JustSent ==
  ASSUME NEW t \in Seqs
  PROVE  /\ SeqNext(t) \in Seqs /\ SeqNext(SeqNext(t)) \in Seqs
         /\ SeqDistance(SeqNext(t), t) = 1
         /\ SeqDistance(SeqNext(SeqNext(t)), t) = 2
         /\ SeqDistance(SeqNext(SeqNext(t)), SeqNext(t)) = 1
<1>1. PICK h \in 2 .. SeqModulus : SeqModulus = 2 * h
  BY SeqModAssumption
<1> QED
  BY <1>1, SeqModAssumption DEF Seqs, SeqNext, SeqDistance

LEMMA Appended ==
  ASSUME NEW S, NEW q \in Seq(S), NEW e \in S, NEW r, r = Append(q, e)
  PROVE  /\ r \in Seq(S)
         /\ {r[k] : k \in DOMAIN r} = {q[k] : k \in DOMAIN q} \cup {e}
<1>1. r \in Seq(S) /\ Len(r) = Len(q) + 1
  OBVIOUS
<1>2. Len(q) \in Nat /\ DOMAIN q = 1 .. Len(q) /\ DOMAIN r = 1 .. (Len(q) + 1)
  OBVIOUS
<1>3. (\A k \in 1 .. Len(q) : r[k] = q[k]) /\ r[Len(q) + 1] = e
  OBVIOUS
<1>4. \A k \in 1 .. (Len(q) + 1) : k \in 1 .. Len(q) \/ k = Len(q) + 1
  BY <1>2
<1>5. ASSUME NEW x PROVE x \in {r[k] : k \in DOMAIN r} <=> x \in {q[k] : k \in DOMAIN q} \cup {e}
  <2>1. ASSUME NEW k \in DOMAIN r, x = r[k] PROVE x \in {q[j] : j \in DOMAIN q} \cup {e}
    BY <1>2, <1>3, <1>4, <2>1
  <2>2. ASSUME NEW k \in DOMAIN q, x = q[k] PROVE x \in {r[j] : j \in DOMAIN r}
    <3>1. k \in DOMAIN r /\ r[k] = q[k]
      BY <1>2, <1>3
    <3> QED
      BY <2>2, <3>1
  <2>3. x = e => x \in {r[j] : j \in DOMAIN r}
    <3>1. Len(q) + 1 \in DOMAIN r
      BY <1>2
    <3> QED
      BY <1>3, <3>1
  <2> QED
    BY <2>1, <2>2, <2>3
<1> QED
  BY <1>1, <1>5

\* Sending datagrams of the present state keeps what is known of the network.
LEMMA Sending ==
  ASSUME KeysType, NetInv, WindowInv, Timely, Len(done) <= Len(made),
         rx_kbm' = rx_kbm, done' = done, NEW sent, NEW n \in 0 .. 2,
         InFlight' = InFlight \cup sent,
         Len(made') \in Nat, Len(made) <= Len(made'),
         \A x \in Seqs : Ago(x) < SeqHalf => SeqDistance(tx_seq', x) = Ago(x) + n,
         \A d \in sent : Written(d)' /\ d.n = Len(made') /\ SeqDistance(tx_seq', d.seq) \in 1 .. n,
         \A d \in InFlight : Written(d)'
  PROVE  NetInv' /\ WindowInv'
<1>1. ASSUME NEW d \in InFlight PROVE d.n \in Nat /\ d.seq \in Seqs /\ d.n <= Len(made)
  <2>1. d \in Packet
    BY DEF InFlight, KeysType
  <2>2. Written(d)
    BY DEF NetInv
  <2> QED
    BY <2>1, <2>2 DEF Packet, Written
<1>2. \A x \in Seqs : Ago(x) \in Nat
  <2>1. tx_seq \in Seqs
    BY DEF KeysType
  <2> QED
    BY <2>1, SeqModAssumption DEF Ago, SeqDistance, Seqs
<1>3. ASSUME NEW d \in InFlight
      PROVE  Ago(d.seq)' = Ago(d.seq) + n /\ Ago(d.seq) \in Nat /\ Ago(d.seq) >= 1
  <2>1. Ago(d.seq) < SeqHalf
    BY DEF Timely
  <2>2. Ago(d.seq) >= 1
    BY DEF NetInv
  <2> QED
    BY <1>1, <1>2, <2>1, <2>2 DEF Ago
<1>4. ASSUME NEW d \in sent PROVE Ago(d.seq)' \in 1 .. n /\ d.n = Len(made')
  BY DEF Ago
<1>5. \A d \in InFlight' : Written(d)' /\ Ago(d.seq)' >= 1
  BY <1>3, <1>4
<1>6. ASSUME NEW d \in InFlight', NEW e \in InFlight', d.n < e.n PROVE Ago(d.seq)' > Ago(e.seq)'
  <2>1. CASE d \in InFlight /\ e \in InFlight
    <3>1. Ago(d.seq) > Ago(e.seq)
      BY <1>6, <2>1 DEF NetInv
    <3> QED
      BY <1>3, <2>1, <3>1
  <2>2. CASE d \in InFlight /\ e \in sent
    BY <1>3, <1>4, <2>2
  <2>3. CASE d \in sent
    BY <1>1, <1>4, <1>6, <2>3
  <2> QED
    BY <2>1, <2>2, <2>3
<1>7. NetInv'
  BY <1>5, <1>6 DEF NetInv
<1>8. ASSUME NEW d \in InFlight', d.n < Len(done') PROVE Behind(d)'
  <2>1. d \in InFlight
    <3>1. Len(done) \in Nat /\ Len(made) \in Nat
      BY DEF KeysType
    <3> QED
      BY <1>4, <1>8, <3>1
  <2>2. rx_kbm # NoSeq /\ Ago(rx_kbm) < Ago(d.seq)
    BY <1>8, <2>1 DEF WindowInv, Behind
  <2>3. Ago(d.seq) < SeqHalf /\ rx_kbm \in Seqs
    BY <2>1, <2>2 DEF Timely, KeysType
  <2>4. SeqHalf \in Nat
    BY SizesFit DEF KeysType
  <2>5. Ago(rx_kbm) < SeqHalf
    BY <1>2, <1>3, <2>1, <2>2, <2>3, <2>4
  <2>6. SeqDistance(tx_seq', rx_kbm) = Ago(rx_kbm) + n
    BY <2>3, <2>5
  <2>7. SeqDistance(tx_seq', rx_kbm) < Ago(d.seq)'
    BY <1>2, <1>3, <2>1, <2>2, <2>3, <2>6
  <2> QED
    BY <2>2, <2>7 DEF Behind, Ago
<1>9. WindowInv'
  BY <1>8 DEF WindowInv
<1> QED
  BY <1>7, <1>9

\* Edges are made, and at most two datagrams are sent that carry the new state.
LEMMA ClientMoves ==
  ASSUME KeysType, KeysInv, Timely, NEW more \in Seq(Edge), made' = made \o more,
         SenderInv', MeantInv', NEW sent, NEW n \in 0 .. 2,
         Sends(snd', sent, n),
         UNCHANGED <<fac, st, down, rx_kbm, done, mistyped>>
  PROVE  KeysInv' /\ made' \in Seq(Edge)
<1>1. made \in Seq(Edge) /\ fac \in Facilities /\ Depth \in Nat
  BY SizesFit DEF KeysType
<1>2. Len(made') = Len(made) + Len(more)
  BY <1>1, ConcatLengths
<1>3. made' \in Seq(Edge)
  BY <1>1, ConcatLengths
<1>4. Len(made) \in Nat /\ Len(more) \in Nat
  BY <1>1
<1>5. Len(made') \in Nat /\ Len(made) <= Len(made')
  BY <1>2, <1>4
<1>6. ASSUME NEW d \in InFlight PROVE Written(d)'
  <2>1. d \in Packet /\ Written(d)
    BY DEF InFlight, KeysType, KeysInv, NetInv
  <2>2. d.n \in Nat /\ d.n <= Len(made)
    BY <2>1 DEF Packet, Written
  <2>3. HeldAt(made', d.n) = HeldAt(made, d.n) /\ RingAt(made', d.n, Depth) = RingAt(made, d.n, Depth)
    BY <1>1, <2>2, PastStays
  <2>4. d.n <= Len(made')
    BY <1>4, <1>5, <2>2
  <2> QED
    BY <2>1, <2>3, <2>4 DEF Written, Depth
<1>7. ASSUME NEW d \in sent PROVE Written(d)'
  BY <1>5 DEF SenderInv, Written, Sends
<1>8. NetInv' /\ WindowInv'
  <2>1. Len(done) <= Len(made) /\ NetInv /\ WindowInv
    BY DEF KeysInv, HostInv, EdgesAsMeant, EdgesExactlyOnce
  <2> QED
    BY <1>5, <1>6, <1>7, <2>1, Sending DEF Sends
<1>9. HostInv'
  <2>1. /\ Len(done) <= Len(made) /\ HostInv
        /\ st.baseline => st.applied = Len(done) % SeqModulus
        /\ \A k \in DOMAIN done : done[k] # Lost => done[k].code = made[k].code /\ done[k].down = made[k].down
    BY DEF KeysInv, HostInv, EdgesAsMeant, EdgesExactlyOnce
  <2>2. DOMAIN done = 1 .. Len(done) /\ Len(done) \in Nat
    BY DEF KeysType
  <2>3. \A k \in DOMAIN done : made'[k] = made[k]
    <3>1. \A k \in 1 .. Len(made) : (made \o more)[k] = made[k]
      BY <1>1
    <3>2. \A k \in 1 .. Len(done) : k \in 1 .. Len(made)
      BY <1>4, <2>1, <2>2
    <3> QED
      BY <2>2, <3>1, <3>2
  <2>4. Len(done) <= Len(made')
    BY <1>4, <1>5, <2>1, <2>2
  <2>5. EdgesExactlyOnce'
    BY <2>1, <2>3, <2>4 DEF EdgesExactlyOnce
  <2>6. TypedAsMeant'
    BY <2>1 DEF HostInv, EdgesAsMeant, TypedAsMeant
  <2> QED
    BY <2>1, <2>5, <2>6 DEF HostInv, EdgesAsMeant
<1> QED
  BY <1>3, <1>8, <1>9 DEF KeysInv

LEMMA TypeKept ==
  ASSUME KeysType, snd' \in Sender, tx_seq' \in Seqs, net' \in Seq(Packet), made' \in Seq(Edge),
         UNCHANGED <<fac, st, rx_kbm, done, mistyped>>
  PROVE  KeysType'
<1>1. Sender' = Sender /\ Receiver' = Receiver /\ Packet' = Packet /\ Edge' = Edge /\ Codes0' = Codes0
  BY DEF Sender, Receiver, Packet, Edge, Message, Depth, Codes0
<1> QED
  BY <1>1 DEF KeysType

\* One datagram of the state s, or none.
LEMMA SendIfSends ==
  ASSUME KeysType, NEW cond \in BOOLEAN, NEW s \in Sender, SendIf(cond, s), Len(made') \in Nat
  PROVE  /\ tx_seq' \in Seqs /\ net' \in Seq(Packet)
         /\ \E sent : \E n \in 0 .. 2 : Sends(s, sent, n)
<1>1. tx_seq \in Seqs /\ net \in Seq(Packet)
  BY DEF KeysType
<1>2. CASE ~cond
  <2>1. tx_seq' = tx_seq /\ net' = net
    BY <1>2 DEF SendIf
  <2>2. InFlight' = InFlight
    BY <2>1 DEF InFlight
  <2>3. \A x \in Seqs : Ago(x) \in Int
    BY <1>1, SeqModAssumption DEF Ago, SeqDistance, Seqs
  <2>4. Sends(s, {}, 0)
    BY <2>1, <2>2, <2>3 DEF Sends, Ago
  <2> QED
    BY <1>1, <2>1, <2>4
<1>3. CASE cond
  <2> DEFINE d == Carries(s, "KBM")
  <2>1. tx_seq' = SeqNext(tx_seq) /\ net' = Append(net, d)
    BY <1>3 DEF SendIf
  <2>2. d = [type |-> "KBM", seq |-> tx_seq, n |-> Len(made'),
             msg |-> [event_seq |-> s.seq, held |-> s.held, ring |-> s.ring, accum |-> s.accum]]
    BY DEF Carries, Datagram
  <2> HIDE DEF d
  <2>3. d \in Packet
    BY <1>1, <2>2 DEF Packet, Message, Sender
  <2>4. net' \in Seq(Packet) /\ InFlight' = InFlight \cup {d}
    BY <1>1, <2>1, <2>3, Appended DEF InFlight
  <2>5. tx_seq' \in Seqs /\ SeqDistance(tx_seq', tx_seq) = 1
    BY <1>1, <2>1, JustSent
  <2>6. \A x \in Seqs : Ago(x) < SeqHalf => SeqDistance(tx_seq', x) = Ago(x) + 1
    BY <1>1, <2>1, Further DEF Ago
  <2>7. Sends(s, {d}, 1)
    BY <2>2, <2>4, <2>5, <2>6 DEF Sends
  <2> QED
    BY <2>4, <2>5, <2>7
<1> QED
  BY <1>2, <1>3

LEMMA SentKeeps ==
  ASSUME NEW s \in Sender
  PROVE  /\ Sent(s) \in Sender
         /\ Sent(s).seq = s.seq /\ Sent(s).ring = s.ring
         /\ Sent(s).held = s.held /\ Sent(s).serial = s.serial
<1>1. Sent(s) \in Sender
  <2>1. [s EXCEPT !.since = 0] \in Sender
    BY DEF Sender
  <2>2. \A r \in Sender : [r EXCEPT !.dirty = FALSE] \in Sender
    BY DEF Sender
  <2>3. Sent(s) = [[s EXCEPT !.since = 0] EXCEPT !.dirty = FALSE]
    BY DEF Sent
  <2> QED
    BY <2>1, <2>2, <2>3
<1>2. Sent(s).seq = s.seq /\ Sent(s).ring = s.ring
  BY DEF Sent, Sender
<1>3. Sent(s).held = s.held /\ Sent(s).serial = s.serial
  BY DEF Sent, Sender
<1> QED
  BY <1>1, <1>2, <1>3

LEMMA SettledKeeps ==
  ASSUME NEW s \in Sender
  PROVE  LET r == [s EXCEPT !.trail = 0, !.engaged = FALSE]
         IN  /\ r \in Sender
             /\ r.seq = s.seq /\ r.ring = s.ring /\ r.held = s.held /\ r.serial = s.serial
<1> DEFINE q == [s EXCEPT !.trail = 0]
           r == [q EXCEPT !.engaged = FALSE]
<1>1. q \in Sender
  BY DEF Sender
<1>2. q.seq = s.seq /\ q.ring = s.ring /\ q.held = s.held /\ q.serial = s.serial
  BY DEF Sender
<1> HIDE DEF q
<1>3. r \in Sender
  BY <1>1 DEF Sender
<1>4. r.seq = q.seq /\ r.ring = q.ring /\ r.held = q.held /\ r.serial = q.serial
  BY <1>1 DEF Sender
<1>5. [s EXCEPT !.trail = 0, !.engaged = FALSE] = r
  BY DEF q
<1> HIDE DEF r
<1> QED
  BY <1>2, <1>3, <1>4, <1>5

LEMMA PumpKeeps ==
  ASSUME NEW s \in Sender
  PROVE  /\ PumpKbm(fac, s) \in Sender
         /\ PumpKbm(fac, s).seq = s.seq /\ PumpKbm(fac, s).ring = s.ring
         /\ PumpKbm(fac, s).held = s.held /\ PumpKbm(fac, s).serial = s.serial
<1> DEFINE r == Rearmed(s)
<1>1. r \in Sender /\ r.seq = s.seq /\ r.ring = s.ring /\ r.held = s.held /\ r.serial = s.serial
  <2>1. s.dirty \in BOOLEAN /\ s.trail \in Int
    BY DEF Sender
  <2>2. TrailCopies \in Int
    BY KbmSenderAssumption
  <2>3. CASE s.dirty
    <3>1. r = [s EXCEPT !.trail = IF s.held = {} THEN TrailCopies ELSE 0]
      BY <2>3 DEF Rearmed
    <3> HIDE DEF r
    <3> QED
      BY <2>2, <3>1 DEF Sender
  <2>4. CASE ~s.dirty /\ s.held # {}
    <3>1. r = s
      BY <2>4 DEF Rearmed
    <3> QED
      BY <3>1
  <2>5. CASE ~s.dirty /\ s.held = {}
    <3>1. r = [s EXCEPT !.trail = s.trail - 1]
      BY <2>5 DEF Rearmed
    <3> HIDE DEF r
    <3> QED
      BY <2>1, <3>1 DEF Sender
  <2> QED
    BY <2>3, <2>4, <2>5
<1> HIDE DEF r
<1>2. /\ Sent(r) \in Sender
      /\ Sent(r).seq = s.seq /\ Sent(r).ring = s.ring /\ Sent(r).held = s.held /\ Sent(r).serial = s.serial
  BY <1>1, SentKeeps
<1> QED
  BY <1>2 DEF PumpKbm, r

LEMMA EngageKeeps ==
  ASSUME NEW s \in Sender
  PROVE  /\ Engage(s) \in Sender
         /\ Engage(s).seq = s.seq /\ Engage(s).ring = s.ring
         /\ Engage(s).held = s.held /\ Engage(s).serial = s.serial
BY DEF Engage, Sender

\* Ingesting a submission pushes its edges and adopts its snapshot.
LEMMA IngestPushes ==
  ASSUME KeysType, NEW in \in Submissions(fac),
         NEW batch, batch = Edges(fac, snd, in), batch \in Seq(Heard(Codes[fac])),
         SubSeq(snd.ring \o batch, Len(batch) + 1, Len(snd.ring \o batch)) \in [1 .. Depth -> Heard(Codes0)],
         (snd.seq + Len(batch)) % SeqModulus \in Seqs
  PROVE  /\ Ingest(fac, snd, in) \in Sender
         /\ Ingest(fac, snd, in).seq = (snd.seq + Len(batch)) % SeqModulus
         /\ Ingest(fac, snd, in).ring = SubSeq(snd.ring \o batch, Len(batch) + 1, Len(snd.ring \o batch))
         /\ Ingest(fac, snd, in).held = in.held
         /\ Ingest(fac, snd, in).serial = snd.serial
<1> DEFINE ring == SubSeq(snd.ring \o batch, Len(batch) + 1, Len(snd.ring \o batch))
           seq == (snd.seq + Len(batch)) % SeqModulus
           up == PushEvents(snd, batch)
           fed == Ingest(fac, snd, in)
<1>1. fac \in {"KEYBOARD", "MOUSE", "MEDIA"} /\ snd \in Sender
  BY DEF KeysType, Facilities
<1>2. in.held \in SUBSET Codes[fac] /\ in.accum \in Int
  <2>1. in.held \in SUBSET Codes[fac]
    BY DEF Submissions
  <2>2. in.accum \in (IF fac = "MOUSE" THEN snd.accum .. Earliest(snd.accum + 1, MaxMotion) ELSE {0})
    BY DEF Submissions
  <2>3. snd.accum \in Int /\ Earliest(snd.accum + 1, MaxMotion) \in Int
    BY <1>1, KbmLinkAssumption DEF Sender, Earliest
  <2> QED
    BY <2>1, <2>2, <2>3
<1>3. up = [snd EXCEPT !.ring = ring, !.seq = seq, !.dirty = snd.dirty \/ Len(batch) > 0]
  BY DEF PushEvents
<1> HIDE DEF ring, seq, up, fed
<1>4. ring \in [1 .. Depth -> Heard(Codes0)] /\ seq \in Seqs
  BY DEF ring, seq
<1>5. (snd.dirty \/ Len(batch) > 0) \in BOOLEAN
  OBVIOUS
<1>6. up \in Sender /\ up.ring = ring /\ up.seq = seq /\ up.serial = snd.serial
  BY <1>1, <1>3, <1>4, <1>5 DEF Sender
<1> DEFINE plain == [up EXCEPT !.held = in.held]
           moved == [up EXCEPT !.held = in.held, !.accum = in.accum, !.dirty = up.dirty \/ in.accum # snd.accum]
<1>7. plain \in Sender /\ plain.ring = ring /\ plain.seq = seq /\ plain.serial = snd.serial /\ plain.held = in.held
  BY <1>2, <1>6 DEF Sender
<1>8. moved \in Sender /\ moved.ring = ring /\ moved.seq = seq /\ moved.serial = snd.serial /\ moved.held = in.held
  BY <1>2, <1>6 DEF Sender
<1> HIDE DEF plain, moved
<1>9. fed = Engage(plain) \/ fed = Engage(moved)
  <2>1. CASE fac = "KEYBOARD"
    <3>1. batch = KeyboardEdges(snd, in) /\ fed = IngestKeyboard(snd, in)
      BY <2>1 DEF Edges, Ingest, fed
    <3> QED
      BY <3>1 DEF IngestKeyboard, plain, up
  <2>2. CASE fac = "MOUSE"
    <3>1. batch = MouseEdges(snd, in) /\ fed = IngestMouse(snd, in)
      BY <2>2 DEF Edges, Ingest, fed
    <3> QED
      BY <3>1 DEF IngestMouse, moved, up
  <2>3. CASE fac = "MEDIA"
    <3>1. batch = MediaEdges(snd, in) /\ fed = IngestMedia(snd, in)
      BY <2>3 DEF Edges, Ingest, fed
    <3> QED
      BY <3>1 DEF IngestMedia, plain, up
  <2> QED
    BY <1>1, <2>1, <2>2, <2>3
<1> QED
  BY <1>7, <1>8, <1>9, EngageKeeps DEF ring, seq, fed

\* Edges are made as they were meant.
LEMMA MeantGrows ==
  ASSUME KeysType, SenderInv, MeantInv, fac' = fac, NEW more \in Seq(Edge), made' = made \o more,
         fac = "KEYBOARD" => \A k \in 1 .. Len(more) :
           more[k].down /\ more[k].code \notin Modifiers =>
             more[k].mods = Modifiers \cap HeldAt(made', Len(made) + k)
  PROVE  MeantInv'
<1>1. made \in Seq(Edge) /\ Len(made) \in Nat /\ Len(more) \in Nat
  BY DEF KeysType
<1>2. made' \in Seq(Edge) /\ Len(made') = Len(made) + Len(more)
  BY <1>1, ConcatLengths
<1>3. SUFFICES ASSUME fac = "KEYBOARD", NEW k \in DOMAIN made', made'[k].down, made'[k].code \notin Modifiers
               PROVE  made'[k].mods = Modifiers \cap HeldAt(made', k)
  BY DEF MeantInv
<1>4. k \in 1 .. (Len(made) + Len(more))
  BY <1>2
<1>5. CASE k <= Len(made)
  <2>1. k \in 1 .. Len(made) /\ k \in DOMAIN made /\ k \in Nat
    BY <1>1, <1>4, <1>5
  <2>2. made'[k] = made[k]
    BY <1>1, <2>1
  <2>3. HeldAt(made', k) = HeldAt(made, k)
    BY <1>1, <2>1, PastStays
  <2> QED
    BY <1>3, <2>1, <2>2, <2>3 DEF MeantInv
<1>6. CASE k > Len(made)
  <2> DEFINE j == k - Len(made)
  <2>1. j \in 1 .. Len(more) /\ k = Len(made) + j
    BY <1>1, <1>4, <1>6
  <2> HIDE DEF j
  <2>2. (made \o more)[Len(made) + j] = more[j]
    BY <1>1, <2>1
  <2>3. made'[k] = more[j]
    BY <2>1, <2>2
  <2> QED
    BY <1>3, <2>1, <2>3
<1> QED
  BY <1>1, <1>4, <1>5, <1>6

LEMMA SubmitStep ==
  ASSUME KeysType, KeysInv, Timely, Submit
  PROVE  KeysType' /\ KeysInv'
<1>1. PICK in \in Submissions(fac) :
        /\ made' = made \o Meaning(snd, in)
        /\ snd' = PumpKbm(fac, Ingest(fac, snd, in))
        /\ SendIf(SendDue(fac, Ingest(fac, snd, in)), Ingest(fac, snd, in))
  BY DEF Submit
<1>2. snd.serial /\ UNCHANGED <<fac, st, down, rx_kbm, phase, serving, done, mistyped, faults>>
  BY DEF Submit
<1> DEFINE batch == Edges(fac, snd, in)
           more == Meaning(snd, in)
           fed == Ingest(fac, snd, in)
           ring == SubSeq(snd.ring \o batch, Len(batch) + 1, Len(snd.ring \o batch))
<1>3. SenderInv /\ MeantInv /\ fac \in Facilities
  BY DEF KeysInv, KeysType
<1>4. /\ batch \in Seq(Heard(Codes[fac]))
      /\ AfterEvents(snd.held, batch) = in.held
      /\ more \in Seq(Edge) /\ Len(more) = Len(batch)
      /\ \A k \in 1 .. Len(batch) : more[k].code = batch[k].code /\ more[k].down = batch[k].down
      /\ fac = "KEYBOARD" => \A k \in 1 .. Len(batch) :
           more[k].code \notin Modifiers =>
             more[k].mods = Modifiers \cap AfterEvents(snd.held, SubSeq(batch, 1, k))
  BY SubmissionMeans
<1> HIDE DEF batch, more, fed
<1>5. /\ made' \in Seq(Edge)
      /\ (snd.seq + Len(batch)) % SeqModulus = Len(made') % SeqModulus
      /\ (snd.seq + Len(batch)) % SeqModulus \in Seqs
      /\ ring = RingAt(made', Len(made'), Depth)
      /\ ring \in [1 .. Depth -> Heard(Codes0)]
      /\ AfterEvents(snd.held, batch) = HeldAt(made', Len(made'))
      /\ \A k \in 0 .. Len(batch) :
           HeldAt(made', Len(made) + k) = AfterEvents(snd.held, SubSeq(batch, 1, k))
  <2>1. made' = made \o more
    BY <1>1 DEF more
  <2> QED
    BY <1>3, <1>4, <2>1, PushedIsMade
<1> HIDE DEF ring
<1>6. /\ fed \in Sender
      /\ fed.seq = (snd.seq + Len(batch)) % SeqModulus
      /\ fed.ring = ring
      /\ fed.held = in.held
      /\ fed.serial = snd.serial
  BY <1>4, <1>5, IngestPushes DEF batch, fed, ring
<1>7. /\ snd' = PumpKbm(fac, fed) /\ snd' \in Sender
      /\ snd'.seq = fed.seq /\ snd'.ring = fed.ring /\ snd'.held = fed.held /\ snd'.serial = fed.serial
  BY <1>1, <1>6, PumpKeeps DEF fed
<1>8. SenderInv'
  BY <1>2, <1>4, <1>5, <1>6, <1>7 DEF SenderInv, Depth
<1>9. MeantInv'
  <2>1. made' = made \o more
    BY <1>1 DEF more
  <2>2. ASSUME fac = "KEYBOARD", NEW k \in 1 .. Len(more), more[k].code \notin Modifiers
        PROVE  more[k].mods = Modifiers \cap HeldAt(made', Len(made) + k)
    <3>1. k \in 1 .. Len(batch) /\ k \in 0 .. Len(batch)
      BY <1>4
    <3> QED
      BY <1>4, <1>5, <2>2, <3>1
  <2> QED
    BY <1>2, <1>3, <1>4, <2>1, <2>2, MeantGrows
<1>10. tx_seq' \in Seqs /\ net' \in Seq(Packet) /\ \E sent : \E n \in 0 .. 2 : Sends(fed, sent, n)
  <2>1. SendDue(fac, fed) \in BOOLEAN
    BY <1>6 DEF SendDue, MayPump, ChangeDue, RepeatDue, TrailDue, Sender
  <2>2. SendIf(SendDue(fac, fed), fed)
    BY <1>1 DEF fed
  <2>3. Len(made') \in Nat
    BY <1>5
  <2> QED
    BY <1>6, <2>1, <2>2, <2>3, SendIfSends
<1>15. PICK sent : \E n \in 0 .. 2 : Sends(fed, sent, n)
  BY <1>10
<1>11. PICK n \in 0 .. 2 : Sends(fed, sent, n)
  BY <1>15
<1>12. Sends(snd', sent, n)
  BY <1>7, <1>11 DEF Sends
<1>13. KeysInv'
  <2>1. made' = made \o more
    BY <1>1 DEF more
  <2> QED
    BY <1>2, <1>4, <1>8, <1>9, <1>12, <2>1, ClientMoves
<1>14. KeysType'
  BY <1>2, <1>5, <1>7, <1>10, TypeKept
<1> QED
  BY <1>13, <1>14

LEMMA PumpOwedStep ==
  ASSUME KeysType, KeysInv, Timely, PumpOwed
  PROVE  KeysType' /\ KeysInv'
<1>1. /\ snd' = PumpKbm(fac, snd) /\ made' = made /\ SendIf(TRUE, snd)
      /\ UNCHANGED <<fac, st, down, rx_kbm, phase, serving, done, mistyped, faults>>
  BY DEF PumpOwed
<1>2. snd \in Sender /\ made \in Seq(Edge) /\ SenderInv /\ MeantInv
  BY DEF KeysType, KeysInv
<1>3. /\ snd' \in Sender
      /\ snd'.seq = snd.seq /\ snd'.ring = snd.ring /\ snd'.held = snd.held /\ snd'.serial = snd.serial
  BY <1>1, <1>2, PumpKeeps
<1>4. SenderInv'
  BY <1>1, <1>2, <1>3 DEF SenderInv
<1>5. MeantInv'
  BY <1>1, <1>2 DEF MeantInv
<1>6. tx_seq' \in Seqs /\ net' \in Seq(Packet) /\ \E sent : \E n \in 0 .. 2 : Sends(snd, sent, n)
  <2>1. Len(made') \in Nat
    BY <1>1, <1>2
  <2> QED
    BY <1>1, <1>2, <2>1, SendIfSends
<1>12. PICK sent : \E n \in 0 .. 2 : Sends(snd, sent, n)
  BY <1>6
<1>7. PICK n \in 0 .. 2 : Sends(snd, sent, n)
  BY <1>12
<1>8. Sends(snd', sent, n)
  BY <1>3, <1>7 DEF Sends
<1>9. made' = made \o <<>> /\ <<>> \in Seq(Edge)
  BY <1>1, <1>2
<1>10. KeysInv'
  BY <1>1, <1>4, <1>5, <1>8, <1>9, ClientMoves
<1>11. KeysType'
  BY <1>1, <1>2, <1>3, <1>6, TypeKept
<1> QED
  BY <1>10, <1>11

LEMMA HearInputcapsStep ==
  ASSUME KeysType, KeysInv, Timely, HearInputcaps
  PROVE  KeysType' /\ KeysInv'
<1>1. PICK rate \in MouseRates : snd' = StoreCaps(snd, rate)
  BY DEF HearInputcaps
<1>2. UNCHANGED <<fac, tx_seq, net, st, down, rx_kbm, phase, serving, made, done, mistyped, faults>>
  BY DEF HearInputcaps
<1>3. snd \in Sender /\ made \in Seq(Edge)
  BY DEF KeysType
<1>4. /\ snd' \in Sender
      /\ snd'.seq = snd.seq /\ snd'.ring = snd.ring /\ snd'.held = snd.held /\ snd'.serial = TRUE
  BY <1>1, <1>3 DEF StoreCaps, Sender
<1>5. SenderInv'
  BY <1>2, <1>4 DEF KeysInv, SenderInv
<1>6. NetInv' /\ WindowInv' /\ HostInv' /\ MeantInv'
  BY <1>2 DEF KeysInv, NetInv, InFlight, Written, Ago, WindowInv, Behind, HostInv, MeantInv,
              EdgesAsMeant, EdgesExactlyOnce, TypedAsMeant
<1>7. tx_seq' \in Seqs /\ net' \in Seq(Packet) /\ made' \in Seq(Edge)
  BY <1>2 DEF KeysType
<1> QED
  BY <1>2, <1>4, <1>5, <1>6, <1>7, TypeKept DEF KeysInv

LEMMA ConcatOne ==
  ASSUME NEW S, NEW q \in Seq(S), NEW e \in S
  PROVE  q \o <<e>> = Append(q, e)
<1>1. <<e>> \in Seq(S) /\ Len(<<e>>) = 1 /\ <<e>>[1] = e
  OBVIOUS
<1>2. q \o <<e>> = [k \in 1 .. (Len(q) + 1) |-> IF k <= Len(q) THEN q[k] ELSE e]
  OBVIOUS
<1> DEFINE r == Append(q, e)
<1>3. r \in Seq(S) /\ Len(r) = Len(q) + 1 /\ Len(q) \in Nat
  OBVIOUS
<1>4. (\A k \in 1 .. Len(q) : r[k] = q[k]) /\ r[Len(q) + 1] = e
  OBVIOUS
<1> HIDE DEF r
<1>5. r = [k \in 1 .. (Len(q) + 1) |-> r[k]]
  BY <1>3
<1>6. \A k \in 1 .. (Len(q) + 1) : r[k] = IF k <= Len(q) THEN q[k] ELSE e
  <2> TAKE k \in 1 .. (Len(q) + 1)
  <2>1. k \in 1 .. Len(q) \/ (k = Len(q) + 1 /\ ~(k <= Len(q)))
    BY <1>3
  <2> QED
    BY <1>3, <1>4, <2>1
<1> QED
  BY <1>2, <1>5, <1>6 DEF r

LEMMA ConcatNone ==
  ASSUME NEW S, NEW q \in Seq(S), NEW e \in Seq(S), Len(e) = 0
  PROVE  q \o e = q
OBVIOUS

\* Letting go of what is held: one edge up for every code, then nothing is held.
LEMMA ReleaseSays ==
  ASSUME KeysType
  PROVE  LET batch == ReleaseEdges(snd)
             more == [k \in DOMAIN batch |-> [code |-> batch[k].code, down |-> FALSE, mods |-> {}]]
         IN  /\ batch \in Seq(Heard(Codes[fac]))
             /\ AfterEvents(snd.held, batch) = {}
             /\ more \in Seq(Edge) /\ Len(more) = Len(batch)
             /\ \A k \in 1 .. Len(batch) : more[k].code = batch[k].code /\ more[k].down = batch[k].down
             /\ \A k \in 1 .. Len(more) : ~more[k].down
             /\ snd.held = {} => Len(batch) = 0
<1> DEFINE batch == ReleaseEdges(snd)
           more == [k \in DOMAIN batch |-> [code |-> batch[k].code, down |-> FALSE, mods |-> {}]]
           H == snd.held
<1>1. /\ H \in SUBSET Nat /\ IsFiniteSet(H) /\ H \subseteq Codes[fac]
  <2>1. H \in SUBSET Codes[fac] /\ Codes[fac] \in SUBSET Nat /\ IsFiniteSet(Codes[fac])
    BY SizesFit DEF KeysType, Sender
  <2> HIDE DEF H
  <2> QED
    BY <2>1, FS_Subset
<1> HIDE DEF H
<1>2. batch = Transitions(H, {})
  BY DEF ReleaseEdges, H
<1> HIDE DEF batch
<1>3. /\ batch \in Seq(Heard(Codes[fac])) /\ Len(batch) = Cardinality(H)
  BY <1>1, <1>2, TransitionsAreEvents
<1>4. /\ \A k \in DOMAIN batch : batch[k] = Event(batch[k].code, batch[k].code \in {}) /\ batch[k].code \in H
  BY <1>1, <1>2, TransitionsSay
<1>5. ASSUME NEW c PROVE c \notin AfterEvents(H, batch)
  <2>1. c \in AfterEvents(H, batch) <=> IF c \in H THEN c \in {} ELSE c \in H
    BY <1>1, <1>2, TransitionsBring
  <2> QED
    BY <2>1
<1>6. DOMAIN batch = 1 .. Len(batch) /\ Len(batch) \in Nat
  BY <1>3
<1>7. ASSUME NEW k \in DOMAIN batch PROVE batch[k].code \in Codes[fac] /\ batch[k].down = FALSE
  <2>1. batch[k].code \in Codes[fac]
    BY <1>1, <1>4
  <2>2. batch[k].down = (batch[k].code \in {})
    <3>1. batch[k] = Event(batch[k].code, batch[k].code \in {})
      BY <1>4
    <3>2. \A c, b : Event(c, b).down = b
      BY DEF Event
    <3> QED
      BY <3>1, <3>2
  <2>3. (batch[k].code \in {}) = FALSE
    OBVIOUS
  <2> QED
    BY <2>1, <2>2, <2>3
<1>8. more \in [1 .. Len(batch) -> Edge]
  <2>1. \A k \in 1 .. Len(batch) : [code |-> batch[k].code, down |-> FALSE, mods |-> {}] \in Edge
    BY <1>6, <1>7 DEF Edge
  <2> QED
    BY <1>6, <2>1
<1>9. more \in Seq(Edge) /\ Len(more) = Len(batch)
  BY <1>6, <1>8
<1>10. \A k \in 1 .. Len(batch) : more[k].code = batch[k].code /\ more[k].down = batch[k].down /\ ~more[k].down
  BY <1>6, <1>7
<1>11. H = {} => Len(batch) = 0
  BY <1>3, FS_EmptySet
<1> HIDE DEF more
<1>12. AfterEvents(H, batch) = {}
  BY <1>5
<1> QED
  BY <1>3, <1>9, <1>10, <1>11, <1>12 DEF batch, more, H

LEMMA ReleasedSender ==
  ASSUME KeysType, snd.serial,
         NEW batch, batch = ReleaseEdges(snd),
         NEW ring, ring = SubSeq(snd.ring \o batch, Len(batch) + 1, Len(snd.ring \o batch)),
         ring \in [1 .. Depth -> Heard(Codes0)],
         NEW seq, seq = (snd.seq + Len(batch)) % SeqModulus, seq \in Seqs
  PROVE  LET let == SenderReleaseAll(snd)
         IN  /\ let \in Sender /\ let.seq = seq /\ let.ring = ring
             /\ let.held = {} /\ let.serial = snd.serial
<1> DEFINE pushed == PushEvents(snd, batch)
           up == [pushed EXCEPT !.held = {}]
           said == IF snd.held = {} THEN up ELSE Sent(up)
<1>1. snd \in Sender
  BY DEF KeysType
<1>2. pushed = [snd EXCEPT !.ring = ring, !.seq = seq, !.dirty = snd.dirty \/ Len(batch) > 0]
  BY DEF PushEvents
<1>3. pushed \in Sender /\ pushed.ring = ring /\ pushed.seq = seq /\ pushed.serial = snd.serial
  <2>1. (snd.dirty \/ Len(batch) > 0) \in BOOLEAN
    OBVIOUS
  <2> HIDE DEF pushed
  <2> QED
    BY <1>1, <1>2, <2>1 DEF Sender
<1> HIDE DEF pushed
<1>4. up \in Sender /\ up.ring = ring /\ up.seq = seq /\ up.serial = snd.serial /\ up.held = {}
  BY <1>3 DEF Sender
<1> HIDE DEF up
<1>5. said \in Sender /\ said.ring = ring /\ said.seq = seq /\ said.serial = snd.serial /\ said.held = {}
  BY <1>4, SentKeeps
<1> HIDE DEF said
<1>6. SenderReleaseAll(snd) = [said EXCEPT !.trail = 0, !.engaged = FALSE]
  BY DEF SenderReleaseAll, ReleaseHeld, said, up, pushed
<1>7. LET let == [said EXCEPT !.trail = 0, !.engaged = FALSE]
      IN  let \in Sender /\ let.seq = said.seq /\ let.ring = said.ring
          /\ let.held = said.held /\ let.serial = said.serial
  BY ONLY <1>5, SettledKeeps
<1> QED
  BY <1>5, <1>6, <1>7

\* The client's goodbye: the release, if there is something to let go, and BYE.
LEMMA GoodbyeSends ==
  ASSUME KeysType, NEW let \in Sender, Len(made') \in Nat, NEW both \in BOOLEAN, NEW bye,
         bye = [type |-> "BYE", seq |-> IF both THEN SeqNext(tx_seq) ELSE tx_seq,
                msg |-> Datagram(let), n |-> Len(made')],
         net' = net \o (IF both THEN <<Carries(let, "KBM")>> ELSE <<>>) \o <<bye>>,
         tx_seq' = IF both THEN SeqNext(SeqNext(tx_seq)) ELSE SeqNext(tx_seq)
  PROVE  /\ tx_seq' \in Seqs /\ net' \in Seq(Packet)
         /\ \E sent : \E n \in 0 .. 2 : Sends(let, sent, n)
<1> DEFINE d == Carries(let, "KBM")
<1>1. tx_seq \in Seqs /\ net \in Seq(Packet)
  BY DEF KeysType
<1>2. d = [type |-> "KBM", seq |-> tx_seq, msg |-> Datagram(let), n |-> Len(made')]
  BY DEF Carries
<1>3. Datagram(let) \in Message /\ Datagram(let).event_seq = let.seq /\ Datagram(let).ring = let.ring
      /\ Datagram(let).held = let.held
  BY DEF Datagram, Message, Sender
<1> HIDE DEF d
<1>4. SeqNext(tx_seq) \in Seqs
  BY <1>1, JustSent
<1>5. d \in Packet /\ bye \in Packet
  BY <1>1, <1>2, <1>3, <1>4 DEF Packet
<1>6. CASE both
  <2>1. net' = net \o <<d>> \o <<bye>> /\ tx_seq' = SeqNext(SeqNext(tx_seq))
    BY <1>6 DEF d
  <2>2. net \o <<d>> = Append(net, d) /\ Append(net, d) \in Seq(Packet)
    BY <1>1, <1>5, ConcatOne
  <2>3. net' = Append(Append(net, d), bye)
    BY <1>5, <2>1, <2>2, ConcatOne
  <2>4. net' \in Seq(Packet) /\ InFlight' = InFlight \cup {d, bye}
    <3> DEFINE one == Append(net, d)
    <3>4. one = Append(net, d)
      OBVIOUS
    <3>5. net \in Seq(Packet) /\ d \in Packet /\ bye \in Packet
      BY <1>1, <1>5
    <3>2. one \in Seq(Packet) /\ net' = Append(one, bye)
      BY <2>2, <2>3
    <3> HIDE DEF one
    <3>1. {one[k] : k \in DOMAIN one} = {net[k] : k \in DOMAIN net} \cup {d}
      BY ONLY <3>4, <3>5, Appended
    <3>6. bye \in Packet
      BY <1>5
    <3> DEFINE two == net'
    <3>7. one \in Seq(Packet) /\ two = Append(one, bye)
      BY <3>2
    <3> HIDE DEF two
    <3>8. two \in Seq(Packet)
      BY ONLY <3>6, <3>7, Appended
    <3>9. {two[k] : k \in DOMAIN two} = {one[k] : k \in DOMAIN one} \cup {bye}
      BY ONLY <3>6, <3>7, Appended
    <3>3. net' \in Seq(Packet) /\ {net'[k] : k \in DOMAIN net'} = {one[k] : k \in DOMAIN one} \cup {bye}
      BY <3>8, <3>9 DEF two
    <3> QED
      BY <3>1, <3>3 DEF InFlight
  <2>5. tx_seq' \in Seqs /\ SeqDistance(tx_seq', tx_seq) = 2 /\ SeqDistance(tx_seq', SeqNext(tx_seq)) = 1
    BY <1>1, <2>1, JustSent
  <2>6. \A x \in Seqs : Ago(x) < SeqHalf => SeqDistance(tx_seq', x) = Ago(x) + 2
    BY <1>1, <2>1, Further DEF Ago
  <2>7. d.seq = tx_seq /\ bye.seq = SeqNext(tx_seq) /\ d.n = Len(made') /\ bye.n = Len(made')
        /\ d.msg = Datagram(let) /\ bye.msg = Datagram(let)
    BY <1>2, <1>6
  <2>8. Sends(let, {d, bye}, 2)
    BY <1>3, <2>4, <2>5, <2>6, <2>7 DEF Sends
  <2> QED
    BY <2>4, <2>5, <2>8
<1>7. CASE ~both
  <2>1. net' = net \o <<>> \o <<bye>> /\ tx_seq' = SeqNext(tx_seq)
    BY <1>7
  <2>2. net' = Append(net, bye)
    <3>1. net \o <<>> = net
      BY <1>1
    <3> QED
      BY <1>1, <1>5, <2>1, <3>1, ConcatOne
  <2>3. net' \in Seq(Packet) /\ InFlight' = InFlight \cup {bye}
    <3>1. net \in Seq(Packet) /\ bye \in Packet
      BY <1>1, <1>5
    <3> QED
      BY ONLY <2>2, <3>1, Appended DEF InFlight
  <2>4. tx_seq' \in Seqs /\ SeqDistance(tx_seq', tx_seq) = 1
    BY <1>1, <2>1, JustSent
  <2>5. \A x \in Seqs : Ago(x) < SeqHalf => SeqDistance(tx_seq', x) = Ago(x) + 1
    BY <1>1, <2>1, Further DEF Ago
  <2>6. bye.seq = tx_seq /\ bye.n = Len(made') /\ bye.msg = Datagram(let)
    BY <1>7
  <2>7. Sends(let, {bye}, 1)
    BY <1>3, <2>3, <2>4, <2>5, <2>6 DEF Sends
  <2> QED
    BY <2>3, <2>4, <2>7
<1> QED
  BY <1>6, <1>7

LEMMA DisconnectStep ==
  ASSUME KeysType, KeysInv, Timely, Disconnect
  PROVE  KeysType' /\ KeysInv'
<1> DEFINE let == SenderReleaseAll(snd)
           batch == ReleaseEdges(snd)
           more == [k \in DOMAIN batch |-> [code |-> batch[k].code, down |-> FALSE, mods |-> {}]]
           both == ReleaseSends(snd)
           bye == [type |-> "BYE", seq |-> IF both THEN SeqNext(tx_seq) ELSE tx_seq,
                   msg |-> Datagram(let), n |-> Len(made')]
           ring == SubSeq(snd.ring \o batch, Len(batch) + 1, Len(snd.ring \o batch))
           seq == (snd.seq + Len(batch)) % SeqModulus
<1>1. /\ made' = made \o more /\ snd' = let
      /\ net' = net \o (IF both THEN <<Carries(let, "KBM")>> ELSE <<>>) \o <<bye>>
      /\ tx_seq' = IF both THEN SeqNext(SeqNext(tx_seq)) ELSE SeqNext(tx_seq)
      /\ UNCHANGED <<fac, st, down, rx_kbm, serving, done, mistyped, faults>>
  <2> DEFINE plain == [type |-> "BYE", seq |-> tx_seq, msg |-> Datagram(let), n |-> Len(made')]
  <2>1. [plain EXCEPT !.seq = IF both THEN SeqNext(@) ELSE @] = bye
    OBVIOUS
  <2>2. /\ made' = made \o more /\ snd' = let
        /\ tx_seq' = IF both THEN SeqNext(SeqNext(tx_seq)) ELSE SeqNext(tx_seq)
        /\ UNCHANGED <<fac, st, down, rx_kbm, serving, done, mistyped, faults>>
    BY DEF Disconnect
  <2>3. net' = net \o (IF both THEN <<Carries(let, "KBM")>> ELSE <<>>)
                   \o <<[plain EXCEPT !.seq = IF both THEN SeqNext(@) ELSE @]>>
    BY DEF Disconnect
  <2> HIDE DEF plain, bye, let, more, both
  <2> QED
    BY <2>1, <2>2, <2>3
<1>2. snd \in Sender /\ made \in Seq(Edge) /\ SenderInv /\ MeantInv /\ fac \in Facilities
  BY DEF KeysType, KeysInv
<1>3. /\ batch \in Seq(Heard(Codes[fac]))
      /\ AfterEvents(snd.held, batch) = {}
      /\ more \in Seq(Edge) /\ Len(more) = Len(batch)
      /\ \A k \in 1 .. Len(batch) : more[k].code = batch[k].code /\ more[k].down = batch[k].down
      /\ \A k \in 1 .. Len(more) : ~more[k].down
      /\ snd.held = {} => Len(batch) = 0
  BY ReleaseSays
<1> HIDE DEF let, batch, more, both, bye
<1>4. /\ made' \in Seq(Edge)
      /\ seq = Len(made') % SeqModulus /\ seq \in Seqs
      /\ ring = RingAt(made', Len(made'), Depth)
      /\ ring \in [1 .. Depth -> Heard(Codes0)]
      /\ AfterEvents(snd.held, batch) = HeldAt(made', Len(made'))
  BY <1>1, <1>2, <1>3, PushedIsMade
<1> HIDE DEF ring, seq
<1>5. let \in Sender /\ SenderInv'
  <2>1. CASE snd.serial
    <3>1. let \in Sender /\ let.seq = seq /\ let.ring = ring /\ let.held = {} /\ let.serial = snd.serial
      BY <1>4, <2>1, ReleasedSender DEF let, batch, ring, seq
    <3> QED
      BY <1>1, <1>3, <1>4, <3>1 DEF SenderInv, Depth
  <2>2. CASE ~snd.serial
    <3>1. let = snd
      BY <2>2 DEF let, SenderReleaseAll
    <3>2. snd.held = {}
      BY <1>2, <2>2 DEF SenderInv
    <3>3. made' = made
      BY <1>1, <1>2, <1>3, <3>2, ConcatNone
    <3> QED
      BY <1>1, <1>2, <3>1, <3>3 DEF SenderInv
  <2> QED
    BY <2>1, <2>2
<1>6. MeantInv'
  BY <1>1, <1>2, <1>3, MeantGrows
<1>7. tx_seq' \in Seqs /\ net' \in Seq(Packet) /\ \E sent : \E n \in 0 .. 2 : Sends(let, sent, n)
  <2>1. both \in BOOLEAN
    BY <1>2 DEF both, ReleaseSends, Sender
  <2>2. Len(made') \in Nat
    BY <1>4
  <2> QED
    BY <1>1, <1>5, <2>1, <2>2, GoodbyeSends DEF bye
<1>8. PICK sent : \E n \in 0 .. 2 : Sends(let, sent, n)
  BY <1>7
<1>9. PICK n \in 0 .. 2 : Sends(let, sent, n)
  BY <1>8
<1>10. KeysInv'
  BY <1>1, <1>3, <1>5, <1>6, <1>9, ClientMoves
<1>11. KeysType'
  BY <1>1, <1>4, <1>5, <1>7, TypeKept
<1> QED
  BY <1>10, <1>11

-----------------------------------------------------------------------------
(* What an accepted datagram does to the host.                               *)

LEMMA GapIsExact ==
  ASSUME KeysType, KeysInv, NEW d \in Packet, Written(d), st.baseline,
         Len(done) <= d.n, d.n - Len(done) < SeqHalf
  PROVE  /\ SeqDiff(d.msg.event_seq, st.applied) = d.n - Len(done)
         /\ LET fresh == IF d.n - Len(done) > Depth THEN Depth ELSE d.n - Len(done)
            IN  /\ EventRingNew(d.msg.event_seq, st.applied, Depth) = fresh
                /\ LostEvents(st, d.msg, Depth) = (d.n - Len(done)) - fresh
<1>1. d.n \in Nat /\ Len(done) \in Nat
  BY DEF Packet, KeysType
<1>2. SeqModulus \in Nat \ {0} /\ SeqModulus = 2 * SeqHalf /\ SeqHalf \in Nat /\ Depth \in Nat \ {0}
  BY SizesFit DEF KeysType
<1>3. d.msg.event_seq = d.n % SeqModulus /\ st.applied = Len(done) % SeqModulus
  BY DEF Written, KeysInv, HostInv, EdgesAsMeant, EdgesExactlyOnce
<1>4. d.n - Len(done) = SeqDistance(d.msg.event_seq, st.applied)
  <2>1. d.n - Len(done) < SeqModulus
    BY <1>1, <1>2
  <2>2. d.n - Len(done) = IF (d.n % SeqModulus) >= (Len(done) % SeqModulus)
          THEN (d.n % SeqModulus) - (Len(done) % SeqModulus)
          ELSE (d.n % SeqModulus) - (Len(done) % SeqModulus) + SeqModulus
    BY <1>1, <1>2, <2>1, ModGap
  <2> QED
    BY <1>3, <2>2 DEF SeqDistance
<1>5. SeqDiff(d.msg.event_seq, st.applied) = d.n - Len(done)
  BY <1>4 DEF SeqDiff
<1> QED
  BY <1>1, <1>2, <1>5 DEF EventRingNew, LostEvents, EventRingOverflow

\* A replay of `fresh` events is the end of the first n edges.
EndsWith(replay, fresh, n) ==
  /\ replay \in Seq(Heard(Codes[fac])) /\ Len(replay) = fresh
  /\ \A k \in 1 .. fresh : /\ replay[k].code = made[n - fresh + k].code
                           /\ replay[k].down = made[n - fresh + k].down

\* The replay of a datagram is the end of the edges it was sent after.
LEMMA ReplayIsMade ==
  ASSUME KeysType, KeysInv, NEW d \in Packet, Written(d), st.baseline,
         Len(done) <= d.n, d.n - Len(done) < SeqHalf,
         NEW fresh, fresh = IF d.n - Len(done) > Depth THEN Depth ELSE d.n - Len(done),
         NEW replay, replay = ReplayEvents(d.msg)
  PROVE  fresh \in 0 .. (d.n - Len(done)) /\ EndsWith(replay, fresh, d.n)
<1>1. d.n \in Nat /\ Len(done) \in Nat /\ Len(made) \in Nat /\ d.n <= Len(made)
  BY DEF Packet, KeysType, Written
<1>2. Depth \in Nat \ {0} /\ 0 \notin Codes[fac]
  BY SizesFit DEF KeysType
<1>3. fresh \in Nat /\ fresh <= d.n - Len(done) /\ fresh <= Depth /\ fresh <= d.n
  BY <1>1, <1>2
<1> DEFINE a == Depth - fresh
           news == {k \in Depth - fresh + 1 .. Depth : d.msg.ring[k].code # 0}
<1>4. ASSUME NEW k \in (a + 1) .. Depth
      PROVE  LET e == made[d.n - Depth + k]
             IN  e \in Edge /\ d.msg.ring[k] = Event(e.code, e.down)
  <2>1. k \in 1 .. Depth /\ d.n - Depth + k >= 1 /\ d.n - Depth + k \in 1 .. Len(made)
    <3> DEFINE t == d.n
               z == Depth
               l == Len(made)
    <3>1. t \in Nat /\ l \in Nat /\ z \in Nat /\ fresh \in Nat /\ t <= l /\ fresh <= t /\ fresh <= z
          /\ k \in (z - fresh + 1) .. z
      BY <1>1, <1>2, <1>3
    <3> HIDE DEF t, z, l
    <3>2. k \in 1 .. z /\ t - z + k >= 1 /\ t - z + k \in 1 .. l
      BY ONLY <3>1
    <3> QED
      BY <3>2 DEF t, z, l
  <2>2. d.msg.ring = [j \in 1 .. Depth |->
          IF d.n - Depth + j >= 1 THEN Event(made[d.n - Depth + j].code, made[d.n - Depth + j].down)
                                  ELSE NoEvent]
    BY DEF Written, RingAt, Depth
  <2>3. made[d.n - Depth + k] \in Edge
    BY <2>1 DEF KeysType
  <2> QED
    BY <2>1, <2>2, <2>3
<1>5. news = (a + 1) .. Depth
  <2>1. \A k \in (a + 1) .. Depth : d.msg.ring[k].code # 0
    <3> TAKE k \in (a + 1) .. Depth
    <3> DEFINE e == made[d.n - Depth + k]
    <3>1. e \in Edge /\ d.msg.ring[k] = Event(e.code, e.down)
      BY <1>4
    <3> HIDE DEF e
    <3>2. d.msg.ring[k].code = e.code /\ e.code \in Codes[fac]
      BY <3>1 DEF Event, Edge
    <3> QED
      BY <1>2, <3>2
  <2> QED
    BY <2>1
<1>6. a \in Nat /\ a <= Depth /\ Depth - a = fresh
  BY <1>2, <1>3
<1>7. EventRingNew(d.msg.event_seq, st.applied, Depth) = fresh
  BY GapIsExact
<1>8. replay = [n \in DOMAIN Ascending(news) |-> d.msg.ring[Ascending(news)[n]]]
  BY <1>7 DEF ReplayEvents, Replay, Depth
<1> HIDE DEF news, a
<1>9. /\ DOMAIN Ascending(news) = 1 .. fresh
      /\ \A n \in 1 .. fresh : Ascending(news)[n] = a + n
  BY <1>2, <1>5, <1>6, AscendingInterval
<1>10. replay = [n \in 1 .. fresh |-> d.msg.ring[a + n]]
  BY <1>8, <1>9
<1>11. ASSUME NEW n \in 1 .. fresh
       PROVE  /\ replay[n] \in Heard(Codes[fac])
              /\ replay[n].code = made[d.n - fresh + n].code
              /\ replay[n].down = made[d.n - fresh + n].down
  <2>1. a + n \in (a + 1) .. Depth /\ d.n - Depth + (a + n) = d.n - fresh + n
    <3> DEFINE t == d.n
               z == Depth
    <3>1. t \in Nat /\ z \in Nat /\ fresh \in Nat /\ a \in Nat /\ z - a = fresh
      BY <1>1, <1>2, <1>3, <1>6
    <3> HIDE DEF t, z
    <3>2. a + n \in (a + 1) .. z /\ t - z + (a + n) = t - fresh + n
      BY ONLY <3>1, n \in 1 .. fresh
    <3> QED
      BY <3>2 DEF t, z
  <2> DEFINE e == made[d.n - fresh + n]
  <2>2. e \in Edge /\ d.msg.ring[a + n] = Event(e.code, e.down)
    BY <1>4, <2>1
  <2> HIDE DEF e
  <2>3. replay[n] = Event(e.code, e.down)
    BY <1>10, <2>2
  <2>4. replay[n] \in Heard(Codes[fac]) /\ replay[n].code = e.code /\ replay[n].down = e.down
    BY <2>2, <2>3 DEF Event, Heard, Edge
  <2> QED
    BY <2>4 DEF e
<1>12. replay \in Seq(Heard(Codes[fac])) /\ Len(replay) = fresh
  <2>1. replay \in [1 .. fresh -> Heard(Codes[fac])]
    BY <1>10, <1>11
  <2> QED
    BY <1>3, <2>1
<1>13. EndsWith(replay, fresh, d.n)
  BY <1>11, <1>12 DEF EndsWith
<1>14. fresh \in 0 .. (d.n - Len(done))
  BY <1>1, <1>3
<1> QED
  BY <1>13, <1>14

\* The baseline replays nothing.
LEMMA BaselineReplaysNothing ==
  ASSUME fac \in Facilities, NEW m, ~st.baseline
  PROVE  ReplayEvents(m) = <<>> /\ Len(ReplayEvents(m)) = 0
<1> DEFINE slots == {k \in RingDepth[fac] - 0 + 1 .. RingDepth[fac] : m.ring[k].code # 0}
<1>1. ReplayEvents(m) = [n \in DOMAIN Ascending(slots) |-> m.ring[Ascending(slots)[n]]]
  BY DEF ReplayEvents, Replay
<1>2. slots = {}
  <2>1. RingDepth[fac] \in Nat
    BY KbmAssumption
  <2> QED
    BY <2>1
<1> HIDE DEF slots
<1>3. DOMAIN Ascending(slots) = {}
  BY <1>2, AscendingNone
<1> QED
  BY <1>1, <1>3

\* What passes the window is not behind what the host has heard.
LEMMA FreshIsAhead ==
  ASSUME KeysType, KeysInv, Timely, NEW d \in InFlight, serving, Fresh(d)
  PROVE  /\ d \in Packet /\ Written(d) /\ d.n \in Nat /\ d.n <= Len(made)
         /\ Len(done) <= d.n
         /\ st.baseline => d.n - Len(done) < SeqHalf
<1>1. d \in Packet /\ Written(d) /\ tx_seq \in Seqs
  BY DEF KeysType, InFlight, KeysInv, NetInv
<1>2. d.n \in Nat /\ d.n <= Len(made) /\ d.seq \in Seqs /\ Len(done) \in Nat /\ Len(made) \in Nat
  BY <1>1 DEF Packet, Written, KeysType
<1>3. SeqHalf \in Nat /\ SeqModulus = 2 * SeqHalf /\ SeqModulus \in Nat
  BY SizesFit DEF KeysType
<1>4. Len(done) <= d.n
  <2>1. SUFFICES ASSUME d.n < Len(done) PROVE FALSE
    BY <1>2
  <2>2. rx_kbm # NoSeq /\ Ago(rx_kbm) < Ago(d.seq)
    BY <2>1 DEF KeysInv, WindowInv, Behind
  <2>3. Ago(d.seq) < SeqHalf
    BY DEF Timely
  <2>4. rx_kbm \in Seqs
    BY <2>2 DEF KeysType
  <2>5. SeqDistance(d.seq, rx_kbm) # 0 /\ SeqDistance(d.seq, rx_kbm) < SeqHalf
    BY <2>2 DEF Fresh, SeqNewer
  <2> DEFINE x == d.seq
  <2>6. x \in Seqs /\ SeqDistance(tx_seq, rx_kbm) < SeqDistance(tx_seq, x) /\ SeqDistance(tx_seq, x) < SeqHalf
        /\ SeqDistance(x, rx_kbm) < SeqHalf
    BY <1>2, <2>2, <2>3, <2>5 DEF Ago
  <2> HIDE DEF x
  <2> QED
    BY <1>1, <1>3, <2>4, <2>6 DEF SeqDistance, Seqs
<1>5. st.baseline => d.n - Len(done) < SeqHalf
  BY <1>2, <1>3 DEF Timely
<1> QED
  BY <1>1, <1>2, <1>4, <1>5

\* Every edge up to the datagram's newest is accounted for, and as it was made.
LEMMA AccountSays ==
  ASSUME KeysType, KeysInv, Timely, NEW d \in InFlight, serving, Fresh(d)
  PROVE  LET new == Account(d)
         IN  /\ new \in Seq(Heard(Codes0) \cup {Lost})
             /\ Len(new) = d.n - Len(done)
             /\ \A k \in 1 .. Len(new) : new[k] # Lost =>
                  /\ new[k].code = made[Len(done) + k].code
                  /\ new[k].down = made[Len(done) + k].down
<1> DEFINE l == Len(done)
           t == d.n
           S == Heard(Codes0) \cup {Lost}
           new == Account(d)
<1>1. /\ d \in Packet /\ Written(d) /\ t \in Nat /\ l \in Nat /\ l <= t
      /\ st.baseline => t - l < SeqHalf
  BY FreshIsAhead DEF KeysType
<1>2. CASE ~st.baseline
  <2>1. new = [k \in 1 .. t |-> Lost]
    BY <1>2 DEF Account
  <2>2. l = 0
    BY <1>2 DEF KeysInv, HostInv
  <2> HIDE DEF new, S
  <2>3. Lost \in S
    BY DEF S
  <2>4. new \in [1 .. t -> S]
    BY <2>1, <2>3
  <2>5. new \in Seq(S) /\ Len(new) = t
    BY <1>1, <2>4
  <2>6. \A k \in 1 .. Len(new) : new[k] = Lost
    BY <1>1, <2>1, <2>5
  <2> HIDE DEF l, t
  <2> QED
    BY <1>1, <2>2, <2>5, <2>6 DEF new, S, l, t
<1>3. CASE st.baseline
  <2> DEFINE fresh == IF t - l > Depth THEN Depth ELSE t - l
             replay == ReplayEvents(d.msg)
             gone == [k \in 1 .. ((t - l) - fresh) |-> Lost]
  <2>0. fresh = (IF d.n - Len(done) > Depth THEN Depth ELSE d.n - Len(done))
        /\ replay = ReplayEvents(d.msg)
    OBVIOUS
  <2> HIDE DEF fresh, replay
  <2>1. /\ fresh \in 0 .. (t - l)
        /\ replay \in Seq(Heard(Codes[fac])) /\ Len(replay) = fresh
        /\ \A k \in 1 .. fresh : /\ replay[k].code = made[t - fresh + k].code
                                 /\ replay[k].down = made[t - fresh + k].down
    <3>1. fresh \in 0 .. (d.n - Len(done)) /\ EndsWith(replay, fresh, d.n)
      BY <1>1, <1>3, <2>0, ReplayIsMade
    <3> QED
      BY <3>1 DEF EndsWith
  <2>2. LostEvents(st, d.msg, Depth) = (t - l) - fresh
    BY <1>1, <1>3, <2>0, GapIsExact
  <2>3. new = gone \o replay
    BY <1>3, <2>0, <2>2 DEF Account, Depth
  <2> HIDE DEF new, S, l, t
  <2>4. Lost \in S /\ Heard(Codes[fac]) \subseteq S
    BY DEF S, Heard, Codes0
  <2>5. (t - l) - fresh \in Nat /\ fresh \in Nat
    BY <1>1, <2>1
  <2>6. gone \in Seq(S) /\ Len(gone) = (t - l) - fresh
    <3>1. gone \in [1 .. ((t - l) - fresh) -> S]
      BY <2>4
    <3> HIDE DEF gone
    <3> QED
      BY <2>5, <3>1
  <2>7. \A k \in 1 .. ((t - l) - fresh) : gone[k] = Lost
    OBVIOUS
  <2> HIDE DEF gone
  <2>8. replay \in Seq(S)
    <3>1. \A k \in 1 .. Len(replay) : replay[k] \in S
      BY <2>1, <2>4
    <3>2. Len(replay) \in Nat /\ replay \in [1 .. Len(replay) -> S]
      BY <2>1, <3>1
    <3> QED
      BY <3>2
  <2>9. new \in Seq(S) /\ Len(new) = t - l
    <3>1. new \in Seq(S) /\ Len(new) = Len(gone) + Len(replay)
      BY <2>3, <2>6, <2>8, ConcatLengths
    <3> QED
      BY <1>1, <2>1, <2>5, <2>6, <3>1
  <2>10. ASSUME NEW k \in 1 .. Len(new), new[k] # Lost
         PROVE  new[k].code = made[l + k].code /\ new[k].down = made[l + k].down
    <3>1. \A j \in 1 .. Len(gone) : new[j] = gone[j]
      BY <2>3, <2>6, <2>8
    <3>2. \A j \in 1 .. Len(replay) : new[Len(gone) + j] = replay[j]
      BY <2>3, <2>6, <2>8
    <3>3. ~(k <= Len(gone))
      <4>1. SUFFICES ASSUME k <= Len(gone) PROVE FALSE
        OBVIOUS
      <4>2. k \in 1 .. Len(gone)
        BY <2>5, <2>6, <4>1
      <4> QED
        BY <2>6, <2>7, <2>10, <3>1, <4>2
    <3> DEFINE j == k - Len(gone)
    <3>4. j \in 1 .. fresh /\ k = Len(gone) + j /\ t - fresh + j = l + k
      BY <1>1, <2>1, <2>5, <2>6, <2>9, <3>3
    <3> HIDE DEF j
    <3>5. new[k] = replay[j]
      BY <2>1, <3>2, <3>4
    <3> QED
      BY <2>1, <3>4, <3>5
  <2> QED
    BY <2>9, <2>10 DEF new, S, l, t
<1> QED
  BY <1>2, <1>3

\* Whatever the host held, the reconcile leaves the snapshot.
LEMMA HostHolds ==
  ASSUME NEW m, down = st.shadow
  PROVE  HostAfter(down, st, m, RingDepth[fac]) = m.held
<1> DEFINE held == AfterEvents(down, Replay(st, m, RingDepth[fac]))
<1>1. Changed(st, m, RingDepth[fac]) = (held \ m.held) \cup (m.held \ held)
  BY DEF Changed
<1>2. HostAfter(down, st, m, RingDepth[fac])
        = (held \ ((held \ m.held) \cup (m.held \ held))) \cup (((held \ m.held) \cup (m.held \ held)) \cap m.held)
  BY <1>1 DEF HostAfter
<1> HIDE DEF held
<1> QED
  BY <1>2

\* No letter is typed under other modifiers than it was meant with.
LEMMA TypedRight ==
  ASSUME KeysType, KeysInv, Timely, NEW d \in InFlight, serving, Fresh(d)
  PROVE  ~Mistypes(d)
<1> DEFINE replay == ReplayEvents(d.msg)
           rest == ReconcileEvents(d.msg)
           batch == replay \o rest
           codes == Codes[fac]
           held == d.msg.held
           first == d.n - Len(replay)
<1>1. /\ d \in Packet /\ Written(d) /\ d.n \in Nat /\ d.n <= Len(made)
      /\ Len(done) <= d.n /\ Len(done) \in Nat
      /\ st.baseline => d.n - Len(done) < SeqHalf
  BY FreshIsAhead DEF KeysType
<1>2. codes \in SUBSET Nat /\ IsFiniteSet(codes) /\ fac \in Facilities /\ Depth \in Nat
  BY SizesFit DEF KeysType
<1>3. down = st.shadow /\ down \in SUBSET codes /\ held \in SUBSET codes
  <2>1. down = st.shadow
    BY DEF KeysInv, HostInv
  <2>2. st.shadow \in SUBSET Codes[fac]
    BY DEF KeysType, Receiver
  <2>3. d.msg \in Message
    BY <1>1 DEF Packet
  <2>4. d.msg.held \in SUBSET Codes[fac]
    BY <2>3 DEF Message
  <2> QED
    BY <2>1, <2>2, <2>4
<1>4. /\ replay \in Seq(Heard(codes)) /\ Len(replay) \in 0 .. d.n
      /\ \A k \in 1 .. Len(replay) : /\ replay[k].code = made[first + k].code
                                     /\ replay[k].down = made[first + k].down
  <2>1. CASE ~st.baseline
    <3>1. replay = <<>> /\ Len(replay) = 0
      BY <1>2, <2>1, BaselineReplaysNothing
    <3>2. <<>> \in Seq(Heard(codes))
      OBVIOUS
    <3> HIDE DEF replay, codes
    <3> QED
      BY <1>1, <3>1, <3>2
  <2>2. CASE st.baseline
    <3> DEFINE fresh == IF d.n - Len(done) > Depth THEN Depth ELSE d.n - Len(done)
    <3>0. fresh = (IF d.n - Len(done) > Depth THEN Depth ELSE d.n - Len(done))
          /\ replay = ReplayEvents(d.msg)
      OBVIOUS
    <3> HIDE DEF replay, fresh
    <3>1. /\ fresh \in 0 .. (d.n - Len(done))
          /\ replay \in Seq(Heard(Codes[fac])) /\ Len(replay) = fresh
          /\ \A k \in 1 .. fresh : /\ replay[k].code = made[d.n - fresh + k].code
                                   /\ replay[k].down = made[d.n - fresh + k].down
      <4>1. fresh \in 0 .. (d.n - Len(done)) /\ EndsWith(replay, fresh, d.n)
        BY <1>1, <2>2, <3>0, ReplayIsMade
      <4> QED
        BY <4>1 DEF EndsWith
    <3>2. Len(replay) \in 0 .. d.n
      BY <1>1, <3>1
    <3> QED
      BY <3>1, <3>2
  <2> QED
    BY <2>1, <2>2
<1> HIDE DEF codes
<1>5. ChordMeets(codes, replay, down, held, Modifiers, batch)
  <2> DEFINE after == AfterEvents(down, replay)
             changed == (after \ held) \cup (held \ after)
             T == Transitions(changed \cap Modifiers, held)
             U == Transitions(changed \ Modifiers, held)
  <2>1. Changed(st, d.msg, RingDepth[fac]) = changed
    BY <1>3 DEF Changed, ReplayEvents
  <2>2. rest = T \o U
    BY <2>1 DEF ReconcileEvents
  <2>3. after \subseteq codes
    <3>1. ASSUME NEW k \in DOMAIN replay PROVE replay[k].code \in codes
      <4>1. replay[k] \in Heard(codes)
        BY <1>4
      <4> QED
        BY <4>1 DEF Heard
    <3> HIDE DEF replay
    <3> QED
      BY <1>3, <3>1 DEF AfterEvents
  <2>4. T \in Seq(Heard(codes)) /\ U \in Seq(Heard(codes))
    <3> DEFINE A == changed \cap Modifiers
               B == changed \ Modifiers
    <3>1. A \in SUBSET codes /\ B \in SUBSET codes
      BY <1>3, <2>3
    <3> HIDE DEF A, B
    <3>2. A \in SUBSET Nat /\ IsFiniteSet(A) /\ B \in SUBSET Nat /\ IsFiniteSet(B)
      BY <1>2, <3>1, FS_Subset DEF codes
    <3>3. Transitions(A, held) \in Seq(Heard(codes)) /\ Transitions(B, held) \in Seq(Heard(codes))
      BY <3>1, <3>2, TransitionsAreEvents
    <3> QED
      BY <3>3 DEF A, B
  <2>5. Chord(down, replay, held, Modifiers) = replay \o T \o U
    BY DEF Chord
  <2> HIDE DEF T, U, replay, rest
  <2>6. batch = Chord(down, replay, held, Modifiers)
    <3>1. replay \in Seq(Heard(codes))
      BY <1>4
    <3>2. (replay \o T) \o U = replay \o (T \o U)
      BY ONLY <2>4, <3>1, ConcatAssociative
    <3> QED
      BY <2>2, <2>5, <3>2
  <2>7. codes \in SUBSET Nat /\ IsFiniteSet(codes)
    BY <1>2 DEF codes
  <2> HIDE DEF batch, held
  <2> QED
    BY <1>3, <1>4, <2>6, <2>7, ModifiersFirst DEF held
<1> HIDE DEF replay, rest
<1>6. /\ batch \in Seq(Heard(codes)) /\ Len(replay) <= Len(batch)
      /\ \A k \in 1 .. Len(replay) : batch[k] = replay[k]
      /\ \A k \in DOMAIN batch : k > Len(replay) /\ batch[k].code \notin Modifiers =>
           AfterEvents(down, SubSeq(batch, 1, k)) \cap Modifiers = held \cap Modifiers
  BY <1>5 DEF ChordMeets
<1> DEFINE mods(k) == AfterEvents(down, SubSeq(batch, 1, k)) \cap Modifiers
<1>7. SUFFICES ASSUME Mistypes(d) PROVE FALSE
  OBVIOUS
<1>8. PICK k \in DOMAIN batch :
        /\ fac = "KEYBOARD" /\ batch[k].down /\ batch[k].code \notin Modifiers
        /\ \/ /\ k <= Len(replay)
              /\ down = AfterEvents({}, SubSeq(made, 1, first)) /\ first = Len(done)
              /\ mods(k) # made[first + k].mods
           \/ k > Len(replay) /\ mods(k) # held \cap Modifiers
  BY <1>7 DEF Mistypes, replay, rest
<1> HIDE DEF batch, first
<1>9. CASE k > Len(replay)
  BY <1>4, <1>6, <1>8, <1>9
<1>10. CASE k <= Len(replay)
  <2>1. k \in 1 .. Len(replay) /\ k \in Nat
    BY <1>4, <1>6, <1>8, <1>10
  <2>2. down = HeldAt(made, first) /\ mods(k) # made[first + k].mods
    BY <1>4, <1>8, <2>1 DEF HeldAt
  <2>3. first \in Nat /\ first + k \in 1 .. Len(made) /\ first + k <= Len(made)
    BY <1>1, <1>4, <2>1 DEF first
  <2>4. made \in Seq(Edge) /\ Len(made) \in Nat
    BY DEF KeysType
  <2> DEFINE e == SubSeq(made, 1, first)
             f == SubSeq(batch, 1, k)
             g == SubSeq(made, 1, first + k)
  <2>5. DOMAIN e = 1 .. first /\ \A j \in 1 .. first : e[j] = made[j]
    BY <2>1, <2>3, <2>4
  <2>6. DOMAIN g = 1 .. (first + k) /\ \A j \in 1 .. (first + k) : g[j] = made[j]
    BY <2>1, <2>3, <2>4
  <2>7. DOMAIN f = 1 .. k /\ \A j \in 1 .. k : f[j] = batch[j]
    BY <1>4, <1>6, <2>1
  <2> HIDE DEF e, f, g
  <2>8. Joined(e, f, g)
    <3>1. \A j \in 1 .. first : g[j].code = e[j].code /\ g[j].down = e[j].down
      BY <2>1, <2>3, <2>5, <2>6
    <3>2. ASSUME NEW j \in 1 .. k PROVE g[first + j].code = f[j].code /\ g[first + j].down = f[j].down
      <4>1. j \in 1 .. Len(replay) /\ first + j \in 1 .. (first + k)
        BY <1>4, <2>1, <2>3
      <4> QED
        BY <1>4, <1>6, <2>6, <2>7, <4>1 DEF first
    <3> QED
      BY <2>1, <2>3, <2>5, <2>6, <2>7, <3>1, <3>2 DEF Joined
  <2>9. HeldAt(made, first + k) = AfterEvents(down, f)
    BY <2>2, <2>8, OneAfterAnother DEF HeldAt, e, g
  <2>10. made[first + k].down /\ made[first + k].code \notin Modifiers
    BY <1>4, <1>6, <1>8, <2>1 DEF first
  <2>11. made[first + k].mods = Modifiers \cap HeldAt(made, first + k)
    BY <1>8, <2>3, <2>4, <2>10 DEF KeysInv, MeantInv
  <2> QED
    BY <2>2, <2>9, <2>11 DEF f
<1> QED
  BY <1>4, <1>6, <1>8, <1>9, <1>10

-----------------------------------------------------------------------------
(* The server's steps.                                                       *)

LEMMA FlyingIsPacket ==
  ASSUME KeysType, NEW d \in InFlight
  PROVE  d \in Packet /\ d.seq \in Seqs /\ d.n \in Nat
<1>1. d \in Packet
  BY DEF InFlight, KeysType
<1> QED
  BY <1>1 DEF Packet

Adopted(v, s, h, n) ==
  v \in Receiver /\ v.created = s.created /\ v.baseline /\ v.shadow = h /\ v.applied = n

LEMMA AdoptKeeps ==
  ASSUME NEW s \in Receiver, NEW h \in SUBSET Codes[fac], NEW n \in Seqs, NEW m \in Int,
         NEW v, \/ v = [s EXCEPT !.age = 0, !.baseline = TRUE, !.shadow = h, !.applied = n]
                \/ v = [s EXCEPT !.age = 0, !.baseline = TRUE, !.shadow = h, !.applied = n, !.accum = m]
  PROVE  Adopted(v, s, h, n)
<1> DEFINE a == [s EXCEPT !.age = 0]
           b == [a EXCEPT !.baseline = TRUE]
           c == [b EXCEPT !.shadow = h]
           r == [c EXCEPT !.applied = n]
           q == [r EXCEPT !.accum = m]
<1>6. /\ [s EXCEPT !.age = 0, !.baseline = TRUE, !.shadow = h, !.applied = n] = r
      /\ [s EXCEPT !.age = 0, !.baseline = TRUE, !.shadow = h, !.applied = n, !.accum = m] = q
  OBVIOUS
<1>1. a \in Receiver /\ a.created = s.created
  BY DEF Receiver
<1> HIDE DEF a
<1>2. b \in Receiver /\ b.created = s.created /\ b.baseline
  BY <1>1 DEF Receiver
<1> HIDE DEF b
<1>3. c \in Receiver /\ c.created = s.created /\ c.baseline /\ c.shadow = h
  BY <1>2 DEF Receiver
<1> HIDE DEF c
<1>4. r \in Receiver /\ r.created = s.created /\ r.baseline /\ r.shadow = h /\ r.applied = n
  BY <1>3 DEF Receiver
<1> HIDE DEF r
<1>5. q \in Receiver /\ q.created = s.created /\ q.baseline /\ q.shadow = h /\ q.applied = n
  BY <1>4 DEF Receiver
<1> HIDE DEF q
<1> QED
  BY <1>4, <1>5, <1>6 DEF Adopted

LEMMA HostTypeKept ==
  ASSUME KeysType, UNCHANGED <<fac, snd, tx_seq, made>>, net' \in Seq(Packet),
         st' \in Receiver, rx_kbm' \in Seqs \cup {NoSeq},
         done' \in Seq(Heard(Codes0) \cup {Lost}), mistyped' \in BOOLEAN
  PROVE  KeysType'
<1>1. Sender' = Sender /\ Receiver' = Receiver /\ Packet' = Packet /\ Edge' = Edge /\ Codes0' = Codes0
  BY DEF Sender, Receiver, Packet, Edge, Message, Depth, Codes0
<1> QED
  BY <1>1 DEF KeysType

\* What the server does leaves the client and what is known of the network.
LEMMA ServerMoves ==
  ASSUME KeysInv, UNCHANGED <<fac, snd, tx_seq, made>>, InFlight' \subseteq InFlight
  PROVE  SenderInv' /\ NetInv' /\ MeantInv'
<1>1. SenderInv'
  BY DEF KeysInv, SenderInv
<1>2. NetInv'
  <2>1. \A d \in InFlight : Written(d)' /\ Ago(d.seq)' = Ago(d.seq)
    BY DEF KeysInv, NetInv, Written, Ago
  <2>2. \A d \in InFlight : Ago(d.seq) >= 1
    BY DEF KeysInv, NetInv
  <2>3. \A d, e \in InFlight : d.n < e.n => Ago(d.seq) > Ago(e.seq)
    BY DEF KeysInv, NetInv
  <2>4. \A d \in InFlight' : d \in InFlight
    OBVIOUS
  <2>5. \A d \in InFlight' : Written(d)' /\ Ago(d.seq)' >= 1
    BY <2>1, <2>2, <2>4
  <2>6. \A d, e \in InFlight' : d.n < e.n => Ago(d.seq)' > Ago(e.seq)'
    BY <2>1, <2>3, <2>4
  <2> QED
    BY <2>5, <2>6 DEF NetInv
<1>3. MeantInv'
  BY DEF KeysInv, MeantInv
<1> QED
  BY <1>1, <1>2, <1>3

\* Nothing of the facility changes on the host.
LEMMA NothingHeard ==
  ASSUME KeysType, KeysInv, UNCHANGED <<fac, snd, tx_seq, made>>, InFlight' \subseteq InFlight,
         net' \in Seq(Packet), UNCHANGED <<rx_kbm, st, down, done, mistyped>>
  PROVE  KeysType' /\ KeysInv'
<1>1. SenderInv' /\ NetInv' /\ MeantInv'
  BY ServerMoves
<1>2. WindowInv'
  BY DEF KeysInv, WindowInv, Behind, Ago
<1>3. HostInv'
  BY DEF KeysInv, HostInv, EdgesAsMeant, EdgesExactlyOnce, TypedAsMeant
<1>4. KeysType'
  BY HostTypeKept DEF KeysType
<1> QED
  BY <1>1, <1>2, <1>3, <1>4 DEF KeysInv

\* The window moves up to a datagram that passed it.
LEMMA WindowFollows ==
  ASSUME KeysType, KeysInv, Timely, NEW d \in InFlight, serving, Fresh(d),
         rx_kbm' = d.seq, tx_seq' = tx_seq, InFlight' \subseteq InFlight,
         Len(done') \in {Len(done), d.n}
  PROVE  WindowInv'
<1>1. Len(done) <= d.n /\ d.n \in Nat /\ d \in Packet /\ Len(done) \in Nat
  BY FreshIsAhead DEF KeysType
<1>2. ASSUME NEW e \in InFlight', e.n < Len(done') PROVE Behind(e)'
  <2>1. e \in InFlight /\ e.n \in Nat
    <3>1. e \in InFlight
      OBVIOUS
    <3> QED
      BY ONLY <3>1, KeysType, FlyingIsPacket
  <2>2. e.n < d.n
    BY <1>1, <1>2, <2>1
  <2>3. Ago(e.seq) > Ago(d.seq)
    BY <2>1, <2>2 DEF KeysInv, NetInv
  <2>4. d.seq # NoSeq
    BY <1>1, SeqModAssumption DEF Packet, NoSeq, Seqs
  <2>5. Ago(d.seq) \in Int /\ Ago(e.seq) \in Int
    <3>1. d.seq \in Seqs /\ e.seq \in Seqs /\ tx_seq \in Seqs
      BY <2>1, FlyingIsPacket DEF KeysType
    <3> QED
      BY <3>1, SeqModAssumption DEF Ago, SeqDistance, Seqs
  <2> QED
    BY <2>3, <2>4, <2>5 DEF Behind, Ago
<1> QED
  BY <1>2 DEF WindowInv

\* A datagram is accepted: replay, reconcile, and everything accounted for.
LEMMA Accepted ==
  ASSUME KeysType, KeysInv, Timely, NEW d \in InFlight, serving, Fresh(d),
         UNCHANGED <<fac, snd, tx_seq, made>>, InFlight' \subseteq InFlight, net' \in Seq(Packet),
         rx_kbm' = d.seq,
         st' = Apply(fac, KbmNoteCreated(st), d.msg),
         down' = HostAfter(down, st, d.msg, RingDepth[fac]),
         done' = done \o Account(d),
         mistyped' = (mistyped \/ Mistypes(d))
  PROVE  KeysType' /\ KeysInv'
<1> DEFINE new == Account(d)
           S == Heard(Codes0) \cup {Lost}
           msg == d.msg
<1>1. d \in Packet /\ Written(d) /\ d.n \in Nat /\ d.n <= Len(made) /\ Len(done) <= d.n
  BY FreshIsAhead
<1>2. /\ new \in Seq(S)
      /\ Len(new) = d.n - Len(done)
      /\ \A k \in 1 .. Len(new) : new[k] # Lost =>
           /\ new[k].code = made[Len(done) + k].code
           /\ new[k].down = made[Len(done) + k].down
  BY AccountSays
<1> HIDE DEF new, S
<1>3. done \in Seq(S) /\ Len(done) \in Nat
  BY DEF KeysType, S
<1>4. done' \in Seq(S) /\ Len(done') = d.n
  <2>1. done' = done \o new
    BY DEF new
  <2>2. done' \in Seq(S) /\ Len(done') = Len(done) + Len(new)
    BY ONLY <1>2, <1>3, <2>1, ConcatLengths
  <2> QED
    BY <1>1, <1>2, <1>3, <2>2
<1>5. msg \in Message /\ msg.event_seq \in Seqs /\ msg.held \in SUBSET Codes[fac] /\ msg.accum \in Int
  <2>1. msg \in Message
    BY <1>1 DEF Packet
  <2> HIDE DEF msg
  <2> QED
    BY <2>1 DEF Message
<1>6. /\ st' \in Receiver /\ st'.created /\ st'.baseline /\ st'.shadow = msg.held /\ st'.applied = msg.event_seq
  <2> DEFINE s == KbmNoteCreated(st)
             r == [s EXCEPT !.age = 0, !.baseline = TRUE, !.shadow = msg.held, !.applied = msg.event_seq]
             q == [s EXCEPT !.age = 0, !.baseline = TRUE, !.shadow = msg.held, !.applied = msg.event_seq,
                            !.accum = msg.accum]
  <2>1. s \in Receiver /\ s.created
    BY DEF KeysType, Receiver, KbmNoteCreated
  <2> HIDE DEF s
  <2>4. st' = r \/ st' = q
    <3>1. fac \in {"KEYBOARD", "MOUSE", "MEDIA"}
      BY DEF KeysType, Facilities
    <3>2. CASE fac = "KEYBOARD"
      BY <3>2 DEF Apply, ApplyKeyboard, s
    <3>3. CASE fac = "MOUSE"
      BY <3>3 DEF Apply, ApplyMouse, s
    <3>4. CASE fac = "MEDIA"
      BY <3>4 DEF Apply, ApplyMedia, s
    <3> QED
      BY <3>1, <3>2, <3>3, <3>4
  <2> DEFINE v == st'
             h == msg.held
             n == msg.event_seq
             m == msg.accum
  <2>5. /\ s \in Receiver /\ h \in SUBSET Codes[fac] /\ n \in Seqs /\ m \in Int
        /\ \/ v = [s EXCEPT !.age = 0, !.baseline = TRUE, !.shadow = h, !.applied = n]
           \/ v = [s EXCEPT !.age = 0, !.baseline = TRUE, !.shadow = h, !.applied = n, !.accum = m]
    BY <1>5, <2>1, <2>4
  <2> HIDE DEF v, h, n, m
  <2>6. Adopted(v, s, h, n)
    BY ONLY <2>5, AdoptKeeps
  <2> QED
    BY <2>1, <2>6 DEF v, h, n, Adopted
<1>7. mistyped' = FALSE
  <2>1. ~Mistypes(d)
    BY TypedRight
  <2>2. mistyped = FALSE
    BY DEF KeysType, KeysInv, HostInv, EdgesAsMeant, TypedAsMeant
  <2> QED
    BY <2>1, <2>2
<1>8. down' = msg.held
  BY HostHolds DEF KeysInv, HostInv
<1>9. EdgesExactlyOnce'
  <2>1. Len(done') <= Len(made')
    BY <1>1, <1>4
  <2>2. st'.applied = Len(done') % SeqModulus
    BY <1>1, <1>4, <1>6 DEF Written
  <2>3. ASSUME NEW k \in DOMAIN done', done'[k] # Lost
        PROVE  done'[k].code = made[k].code /\ done'[k].down = made[k].down
    <3>1. k \in 1 .. d.n
      BY <1>4
    <3>2. CASE k <= Len(done)
      <4>1. k \in 1 .. Len(done) /\ k \in DOMAIN done
        BY <1>1, <1>3, <3>1, <3>2
      <4>2. (done \o new)[k] = done[k]
        BY <1>2, <1>3, <4>1
      <4>3. done'[k] = done[k]
        BY <4>2 DEF new
      <4> QED
        BY <2>3, <4>1, <4>3 DEF KeysInv, HostInv, EdgesAsMeant, EdgesExactlyOnce
    <3>3. CASE k > Len(done)
      <4> DEFINE j == k - Len(done)
      <4>1. j \in 1 .. Len(new) /\ k = Len(done) + j
        BY <1>1, <1>2, <1>3, <3>1, <3>3
      <4> HIDE DEF j
      <4>2. (done \o new)[Len(done) + j] = new[j]
        BY <1>2, <1>3, <4>1
      <4>3. done'[k] = new[j]
        BY <4>1, <4>2 DEF new
      <4> QED
        BY <1>2, <2>3, <4>1, <4>3
    <3> QED
      BY <1>1, <1>3, <3>1, <3>2, <3>3
  <2> QED
    BY <2>1, <2>2, <2>3 DEF EdgesExactlyOnce
<1>10. HostInv'
  BY <1>6, <1>7, <1>8, <1>9 DEF HostInv, EdgesAsMeant, TypedAsMeant
<1>11. SenderInv' /\ NetInv' /\ MeantInv'
  BY ServerMoves
<1>12. WindowInv'
  BY <1>4, WindowFollows
<1>13. KeysType'
  <2>1. rx_kbm' \in Seqs \cup {NoSeq}
    BY <1>1 DEF Packet
  <2> QED
    BY <1>4, <1>6, <1>7, <2>1, HostTypeKept DEF S
<1> QED
  BY <1>10, <1>11, <1>12, <1>13 DEF KeysInv

LEMMA HearKbmStep ==
  ASSUME KeysType, KeysInv, Timely, NEW d \in InFlight, NEW fails, HearKbm(d, fails),
         UNCHANGED <<fac, snd, tx_seq, made>>, InFlight' \subseteq InFlight, net' \in Seq(Packet)
  PROVE  KeysType' /\ KeysInv'
<1>1. CASE ~(serving /\ Fresh(d))
  <2>1. UNCHANGED <<rx_kbm, st, down, done, mistyped>>
    BY <1>1 DEF HearKbm
  <2> QED
    BY <2>1, NothingHeard
<1>2. CASE serving /\ Fresh(d) /\ fails /\ ~st.created
  <2>1. rx_kbm' = d.seq /\ UNCHANGED <<st, down, done, mistyped>>
    BY <1>2 DEF HearKbm
  <2>2. SenderInv' /\ NetInv' /\ MeantInv'
    BY ServerMoves
  <2>3. WindowInv'
    BY <1>2, <2>1, WindowFollows
  <2>4. HostInv'
    BY <2>1 DEF KeysInv, HostInv, EdgesAsMeant, EdgesExactlyOnce, TypedAsMeant
  <2>5. KeysType'
    <3>1. d.seq \in Seqs
      BY FlyingIsPacket
    <3> QED
      BY <2>1, <3>1, HostTypeKept DEF KeysType
  <2> QED
    BY <2>2, <2>3, <2>4, <2>5 DEF KeysInv
<1>3. CASE serving /\ Fresh(d) /\ ~(fails /\ ~st.created)
  <2>1. /\ rx_kbm' = d.seq
        /\ st' = Apply(fac, KbmNoteCreated(st), d.msg)
        /\ down' = HostAfter(down, st, d.msg, RingDepth[fac])
        /\ done' = done \o Account(d)
        /\ mistyped' = (mistyped \/ Mistypes(d))
    BY <1>3 DEF HearKbm
  <2> QED
    BY <1>3, <2>1, Accepted
<1> QED
  BY <1>1, <1>2, <1>3

LEMMA HearByeStep ==
  ASSUME KeysType, KeysInv, HearBye,
         UNCHANGED <<fac, snd, tx_seq, made>>, InFlight' \subseteq InFlight, net' \in Seq(Packet)
  PROVE  KeysType' /\ KeysInv'
<1>1. /\ st' = IF serving THEN ReleaseAll(st) ELSE st
      /\ down' = IF serving THEN HostReleased(down, st) ELSE down
      /\ UNCHANGED <<rx_kbm, done, mistyped>>
  BY DEF HearBye
<1>2. CASE ~serving
  <2>1. UNCHANGED <<rx_kbm, st, down, done, mistyped>>
    BY <1>1, <1>2
  <2> QED
    BY <2>1, NothingHeard
<1>3. CASE serving
  <2>1. st \in Receiver /\ down = st.shadow /\ (~st.created => st.shadow = {})
    BY DEF KeysType, KeysInv, HostInv
  <2>2. st' \in Receiver /\ st'.baseline = st.baseline /\ st'.applied = st.applied /\ st'.shadow = {}
    BY <1>1, <1>3, <2>1 DEF ReleaseAll, Released, Receiver
  <2>3. down' = {}
    BY <1>1, <1>3, <2>1 DEF HostReleased
  <2>4. HostInv'
    BY <1>1, <2>2, <2>3 DEF KeysInv, HostInv, EdgesAsMeant, EdgesExactlyOnce, TypedAsMeant
  <2>5. SenderInv' /\ NetInv' /\ MeantInv'
    BY ServerMoves
  <2>6. WindowInv'
    BY <1>1 DEF KeysInv, WindowInv, Behind, Ago
  <2>7. KeysType'
    BY <1>1, <2>2, HostTypeKept DEF KeysType
  <2> QED
    BY <2>4, <2>5, <2>6, <2>7 DEF KeysInv
<1> QED
  BY <1>2, <1>3

LEMMA HearStep ==
  ASSUME KeysType, KeysInv, Timely, NEW d \in InFlight, NEW fails, Hear(d, fails),
         UNCHANGED <<fac, snd, tx_seq, made>>, InFlight' \subseteq InFlight, net' \in Seq(Packet)
  PROVE  KeysType' /\ KeysInv'
<1>1. CASE d.type = "BYE"
  <2>1. HearBye
    BY <1>1 DEF Hear
  <2> QED
    BY <2>1, HearByeStep
<1>2. CASE d.type # "BYE"
  <2>1. HearKbm(d, fails)
    BY <1>2 DEF Hear
  <2> QED
    BY <2>1, HearKbmStep
<1> QED
  BY <1>1, <1>2

LEMMA HeadAndTail ==
  ASSUME KeysType, net # <<>>
  PROVE  /\ Head(net) \in InFlight
         /\ Tail(net) \in Seq(Packet)
         /\ {Tail(net)[k] : k \in DOMAIN Tail(net)} \subseteq InFlight
<1>1. net \in Seq(Packet) /\ Len(net) \in Nat /\ Len(net) # 0
  BY DEF KeysType
<1>2. Head(net) = net[1] /\ 1 \in DOMAIN net
  BY <1>1
<1>3. Tail(net) \in Seq(Packet) /\ Len(Tail(net)) = Len(net) - 1
  BY <1>1
<1>4. ASSUME NEW k \in DOMAIN Tail(net) PROVE Tail(net)[k] \in InFlight
  <2>1. k \in 1 .. (Len(net) - 1)
    BY <1>3
  <2>2. Tail(net)[k] = net[k + 1] /\ k + 1 \in DOMAIN net
    BY <1>1, <2>1
  <2> QED
    BY <2>2 DEF InFlight
<1> QED
  BY <1>2, <1>3, <1>4 DEF InFlight

LEMMA DeliverStep ==
  ASSUME KeysType, KeysInv, Timely, Deliver
  PROVE  KeysType' /\ KeysInv'
<1>1. /\ net # <<>> /\ Hear(Head(net), FALSE)
      /\ net' = Tail(net) \/ net' = net
      /\ UNCHANGED <<fac, snd, tx_seq, made>>
  BY DEF Deliver
<1>2. Head(net) \in InFlight
  BY <1>1, HeadAndTail
<1>3. InFlight' \subseteq InFlight /\ net' \in Seq(Packet)
  <2>1. CASE net' = Tail(net)
    BY <1>1, <2>1, HeadAndTail DEF InFlight
  <2>2. CASE net' = net
    BY <2>2 DEF InFlight, KeysType
  <2> QED
    BY <1>1, <2>1, <2>2
<1> QED
  BY <1>1, <1>2, <1>3, HearStep

LEMMA OvertakeStep ==
  ASSUME KeysType, KeysInv, Timely, Overtake
  PROVE  KeysType' /\ KeysInv'
<1>1. PICK k \in DOMAIN net \ {1} : Hear(net[k], FALSE) /\ net' = RemoveAt(net, k)
  BY DEF Overtake
<1>2. UNCHANGED <<fac, snd, tx_seq, made>>
  BY DEF Overtake
<1>3. net[k] \in InFlight
  BY DEF InFlight
<1>4. net \in Seq(Packet) /\ Len(net) \in Nat /\ k \in 1 .. Len(net)
  BY DEF KeysType
<1> DEFINE a == SubSeq(net, 1, k - 1)
           b == SubSeq(net, k + 1, Len(net))
<1>5. net' = a \o b
  BY <1>1 DEF RemoveAt
<1>6. a \in Seq(Packet) /\ b \in Seq(Packet)
  BY <1>4
<1>7. Len(a) = k - 1 /\ \A j \in 1 .. Len(a) : a[j] = net[j] /\ j \in DOMAIN net
  BY <1>4
<1>8. Len(b) = Len(net) - k /\ \A j \in 1 .. Len(b) : b[j] = net[k + j] /\ k + j \in DOMAIN net
  BY <1>4
<1> HIDE DEF a, b
<1>9. net' \in Seq(Packet) /\ Len(net') = Len(a) + Len(b)
  BY <1>5, <1>6, ConcatLengths
<1>10. InFlight' \subseteq InFlight
  <2>1. ASSUME NEW j \in DOMAIN net' PROVE net'[j] \in InFlight
    <3>1. j \in 1 .. (Len(a) + Len(b)) /\ Len(a) \in Nat /\ Len(b) \in Nat
      BY <1>6, <1>9
    <3>2. CASE j <= Len(a)
      <4>1. j \in 1 .. Len(a)
        BY <3>1, <3>2
      <4>2. net'[j] = a[j]
        BY <1>5, <1>6, <4>1
      <4> QED
        BY <1>7, <4>1, <4>2 DEF InFlight
    <3>3. CASE j > Len(a)
      <4> DEFINE i == j - Len(a)
      <4>1. i \in 1 .. Len(b) /\ j = Len(a) + i
        BY <3>1, <3>3
      <4> HIDE DEF i
      <4>2. (a \o b)[Len(a) + i] = b[i]
        BY <1>6, <4>1
      <4> QED
        BY <1>5, <1>8, <4>1, <4>2 DEF InFlight
    <3> QED
      BY <3>1, <3>2, <3>3
  <2> QED
    BY <2>1 DEF InFlight
<1> QED
  BY <1>1, <1>2, <1>3, <1>9, <1>10, HearStep

LEMMA LoseStep ==
  ASSUME KeysType, KeysInv, Lose
  PROVE  KeysType' /\ KeysInv'
<1>1. /\ net # <<>> /\ net' = Tail(net)
      /\ UNCHANGED <<fac, snd, tx_seq, st, down, rx_kbm, made, done, mistyped>>
  BY DEF Lose
<1>2. InFlight' \subseteq InFlight /\ net' \in Seq(Packet)
  BY <1>1, HeadAndTail DEF InFlight
<1> QED
  BY <1>1, <1>2, NothingHeard

LEMMA CreateFailsStep ==
  ASSUME KeysType, KeysInv, Timely, CreateFails
  PROVE  KeysType' /\ KeysInv'
<1>1. /\ net # <<>> /\ HearKbm(Head(net), TRUE) /\ net' = Tail(net)
      /\ UNCHANGED <<fac, snd, tx_seq, made>>
  BY DEF CreateFails
<1>2. Head(net) \in InFlight
  BY <1>1, HeadAndTail
<1>3. InFlight' \subseteq InFlight /\ net' \in Seq(Packet)
  BY <1>1, HeadAndTail DEF InFlight
<1> QED
  BY <1>1, <1>2, <1>3, HearKbmStep

\* The clock and the watchdog leave everything but ages, and what is held on
\* the host without a finger on it.
LEMMA HostMoves ==
  ASSUME KeysType, KeysInv, UNCHANGED <<fac, tx_seq, net, rx_kbm, made, done, mistyped>>,
         snd' \in Sender, snd'.seq = snd.seq, snd'.ring = snd.ring, snd'.held = snd.held,
         snd'.serial = snd.serial,
         st' \in Receiver, st'.baseline = st.baseline, st'.applied = st.applied,
         st'.created = st.created, down' = st'.shadow, ~st.created => st'.shadow = {}
  PROVE  KeysType' /\ KeysInv'
<1>1. SenderInv'
  BY DEF KeysInv, SenderInv
<1>2. NetInv' /\ WindowInv' /\ MeantInv'
  BY DEF KeysInv, NetInv, InFlight, Written, Ago, WindowInv, Behind, MeantInv
<1>3. HostInv'
  BY DEF KeysInv, HostInv, EdgesAsMeant, EdgesExactlyOnce, TypedAsMeant
<1>4. KeysType'
  <2>1. Sender' = Sender /\ Receiver' = Receiver /\ Packet' = Packet /\ Edge' = Edge /\ Codes0' = Codes0
    BY DEF Sender, Receiver, Packet, Edge, Message, Depth, Codes0
  <2> QED
    BY <2>1 DEF KeysType
<1> QED
  BY <1>1, <1>2, <1>3, <1>4 DEF KeysInv

LEMMA HostWatchdogStep ==
  ASSUME KeysType, KeysInv, HostWatchdog
  PROVE  KeysType' /\ KeysInv'
<1>1. /\ WatchdogFires(st) /\ st' = WatchdogTick(st) /\ down' = HostReleased(down, st)
      /\ UNCHANGED <<fac, snd, tx_seq, net, rx_kbm, phase, serving, made, done, mistyped, faults>>
  BY DEF HostWatchdog
<1>2. st \in Receiver /\ snd \in Sender /\ down = st.shadow /\ (~st.created => st.shadow = {})
  BY DEF KeysType, KeysInv, HostInv
<1>3. st' = [st EXCEPT !.shadow = {}]
  BY <1>1 DEF WatchdogTick, Released
<1>4. /\ st' \in Receiver /\ st'.baseline = st.baseline /\ st'.applied = st.applied
      /\ st'.created = st.created /\ st'.shadow = {}
  BY <1>2, <1>3 DEF Receiver
<1>5. down' = {}
  BY <1>1, <1>2 DEF HostReleased
<1> QED
  BY <1>1, <1>2, <1>4, <1>5, HostMoves

LEMMA KbmElapseStep ==
  ASSUME KeysType, KeysInv, KbmElapse
  PROVE  KeysType' /\ KeysInv'
<1>1. /\ snd' = SenderAge(snd) /\ st' = KbmAge(st)
      /\ UNCHANGED <<fac, tx_seq, net, down, rx_kbm, phase, serving, made, done, mistyped>>
  BY DEF KbmElapse
<1>2. st \in Receiver /\ snd \in Sender /\ down = st.shadow /\ (~st.created => st.shadow = {})
  BY DEF KeysType, KeysInv, HostInv
<1>3. /\ snd' \in Sender
      /\ snd'.seq = snd.seq /\ snd'.ring = snd.ring /\ snd'.held = snd.held /\ snd'.serial = snd.serial
  BY <1>1, <1>2 DEF SenderAge, Sender
<1>4. /\ st' \in Receiver /\ st'.baseline = st.baseline /\ st'.applied = st.applied
      /\ st'.created = st.created /\ st'.shadow = st.shadow
  BY <1>1, <1>2 DEF KbmAge, Receiver
<1> QED
  BY <1>1, <1>2, <1>3, <1>4, HostMoves

-----------------------------------------------------------------------------

LEMMA KeysStart ==
  ASSUME KbmLinkInit
  PROVE  KeysType /\ KeysInv
<1>1. /\ fac \in Facilities /\ snd = SenderReset(fac) /\ tx_seq = 0 /\ net = <<>>
      /\ st = KbmInit /\ down = {} /\ rx_kbm = NoSeq /\ serving = TRUE
      /\ made = <<>> /\ done = <<>> /\ mistyped = FALSE
  BY DEF KbmLinkInit
<1>2. 0 \in Seqs /\ 0 % SeqModulus = 0
  BY <1>1, SizesFit, SeqModAssumption DEF Seqs
<1>3. Depth \in Nat /\ Second \in Int
  BY <1>1, SizesFit, KbmSenderAssumption
<1>4. snd = [serial |-> FALSE, rate |-> 0, held |-> {}, seq |-> 0,
             ring |-> [k \in 1 .. Depth |-> NoEvent],
             since |-> Second, trail |-> 0, dirty |-> FALSE, engaged |-> FALSE, accum |-> 0]
  BY <1>1 DEF SenderReset, EmptyRing, Depth
<1>5. [k \in 1 .. Depth |-> NoEvent] \in [1 .. Depth -> Heard(Codes0)]
  BY DEF NoEvent, Event, Heard, Codes0
<1>6. snd \in Sender
  BY <1>2, <1>3, <1>4, <1>5 DEF Sender
<1>7. st \in Receiver /\ ~st.baseline /\ st.shadow = {}
  BY <1>1, <1>2 DEF KbmInit, Receiver
<1>8. KeysType
  <2>1. net \in Seq(Packet) /\ made \in Seq(Edge) /\ done \in Seq(Heard(Codes0) \cup {Lost})
    BY <1>1
  <2> QED
    BY <1>1, <1>2, <1>6, <1>7, <2>1 DEF KeysType
<1>9. InFlight = {}
  BY <1>1 DEF InFlight
<1>10. NetInv /\ WindowInv
  BY <1>9 DEF NetInv, WindowInv
<1>11. HostInv
  <2>1. Len(done) = 0 /\ Len(made) = 0 /\ DOMAIN done = {}
    BY <1>1
  <2> QED
    BY <1>1, <1>7, <2>1 DEF HostInv, EdgesAsMeant, EdgesExactlyOnce, TypedAsMeant
<1>12. MeantInv
  BY <1>1 DEF MeantInv
<1>13. SenderInv
  <2>1. Len(made) = 0
    BY <1>1
  <2>2. RingAt(made, 0, Depth) = [k \in 1 .. Depth |-> NoEvent]
    <3>1. \A k \in 1 .. Depth : ~(0 - Depth + k >= 1)
      BY <1>3
    <3> QED
      BY <3>1 DEF RingAt
  <2>3. HeldAt(made, 0) = {}
    <3>1. SubSeq(made, 1, 0) = <<>>
      BY <1>1
    <3> QED
      BY <3>1, NoEventsNoChange DEF HeldAt
  <2> QED
    BY <1>2, <1>4, <2>1, <2>2, <2>3 DEF SenderInv, Depth
<1> QED
  BY <1>8, <1>10, <1>11, <1>12, <1>13 DEF KeysInv

LEMMA KeysStep ==
  ASSUME KeysType, KeysInv, Timely, [KbmLinkNext]_vars
  PROVE  KeysType' /\ KeysInv'
<1>1. CASE Submit
  BY <1>1, SubmitStep
<1>2. CASE PumpOwed
  BY <1>2, PumpOwedStep
<1>3. CASE HearInputcaps
  BY <1>3, HearInputcapsStep
<1>4. CASE Disconnect
  BY <1>4, DisconnectStep
<1>5. CASE Deliver
  BY <1>5, DeliverStep
<1>6. CASE Overtake
  BY <1>6, OvertakeStep
<1>7. CASE Lose
  BY <1>7, LoseStep
<1>8. CASE CreateFails
  BY <1>8, CreateFailsStep
<1>9. CASE HostWatchdog
  BY <1>9, HostWatchdogStep
<1>10. CASE KbmElapse
  BY <1>10, KbmElapseStep
<1>11. CASE UNCHANGED vars
  <2>1. UNCHANGED <<fac, snd, tx_seq, made, net, rx_kbm, st, down, done, mistyped>>
    BY <1>11 DEF vars
  <2>2. InFlight' \subseteq InFlight /\ net' \in Seq(Packet)
    BY <2>1 DEF InFlight, KeysType
  <2> QED
    BY <2>1, <2>2, NothingHeard
<1> QED
  BY <1>1, <1>2, <1>3, <1>4, <1>5, <1>6, <1>7, <1>8, <1>9, <1>10, <1>11 DEF KbmLinkNext

\* The keyboard, mouse and media datagrams of apad_client.c and the receiver of
\* kbm.c: as long as nothing is delayed by half a turn of the sequences, every edge
\* the user made reaches the host once and in order or is counted as missed, and no
\* letter is typed under other modifiers than it was meant with.
THEOREM EdgesAreAsMeant == KbmLinkSpec /\ []Timely => []EdgesAsMeant
<1>1. KbmLinkInit => KeysType /\ KeysInv
  BY KeysStart
<1>2. (KeysType /\ KeysInv) /\ Timely /\ [KbmLinkNext]_vars => (KeysType /\ KeysInv)'
  BY KeysStep
<1>3. KeysInv => EdgesAsMeant
  BY DEF KeysInv, HostInv
<1> QED
  BY <1>1, <1>2, <1>3, PTL DEF KbmLinkSpec
=============================================================================
