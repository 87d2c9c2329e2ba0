------------------------- MODULE EntityCacheProofs --------------------------
(***************************************************************************)
(* The entity cache, for any list, entities and limits: one entry for an   *)
(* index, entries that are stale only after a removal nobody announced,    *)
(* and a mirror of the list once it was filled with both hooks in place.   *)
(*                                                                         *)
(* A refill is a loop over the indices, here a recursive function.  What   *)
(* it computes is shown by induction on the index, stated with a set of    *)
(* numbers (Induct) instead of a predicate.                                *)
(***************************************************************************)
EXTENDS EntityCache, SequenceTheorems, WellFoundedInduction, TLAPS

Entries == [index : 0..Limit - 1, ptr : Known]

TypeOK ==
  /\ list \in [Indices -> Entities \cup {None}]
  /\ cached \in Seq(Entries)

\* The entries of a cache, without their order.
Held(c) == {c[k] : k \in DOMAIN c}

\* Each entry is the only one with its index.
Unique(c) == \A k, l \in DOMAIN c : c[k].index = c[l].index => k = l

\* What filling makes of the list up to index n.
Listed(n) == {Entry(i, list[i]) : i \in {j \in 0..n - 1 : list[j] \in Known}}

\* What the cache holds of the indices below Visited is what the list does.
Mirrors ==
  /\ \A x \in Held(cached) : x.index < Visited => x.ptr = list[x.index]
  /\ Listed(Visited) \subseteq Held(cached)

IInv ==
  /\ TypeOK
  /\ Unique(cached)
  /\ \A x \in Held(cached) : list[x.index] = x.ptr \/ x.index \in missed
  /\ synced => {"add", "remove"} \subseteq live /\ Mirrors

----------------------------------------------------------------------------
(* Induction on natural numbers                                              *)

\* A set of numbers that is not empty has a smallest one.
LEMMA Least ==
  ASSUME NEW T, T \subseteq Nat, T # {}
  PROVE  \E x \in T : \A y \in T : x <= y
<1> DEFINE R == {p \in Nat \X Nat : p[1] < p[2]}
<1>1. IsWellFoundedOn(R, Nat)
  BY NatLessThanWellFounded DEF OpToRel
<1> HIDE DEF R
<1>2. PICK x \in T : \A y \in T : ~ (<<y, x>> \in R)
  BY <1>1, WFMin
<1>3. ASSUME NEW y \in T, y < x PROVE FALSE
  <2>1. <<y, x>> \in R
    BY <1>3 DEF R
  <2>2. QED
    BY <1>2, <2>1
<1>4. QED
  BY <1>3

\* A set with 0 and the successors of its members has every number.
LEMMA Induct ==
  ASSUME NEW T, 0 \in T, \A n \in Nat : n \in T => n + 1 \in T
  PROVE  Nat \subseteq T
<1> SUFFICES ASSUME Nat \ T # {} PROVE FALSE
  OBVIOUS
<1>1. PICK x \in Nat \ T : \A y \in Nat \ T : x <= y
  BY Least
<1>2. x - 1 \in Nat /\ ~(x <= x - 1)
  BY <1>1
<1>3. x - 1 \in T
  BY <1>1, <1>2
<1>4. QED
  BY <1>1, <1>2, <1>3

----------------------------------------------------------------------------
(* What adding and removing do to the entries                                *)

LEMMA HeldHasIndex ==
  ASSUME NEW c, NEW i
  PROVE  HasIndex(c, i) <=> \E x \in Held(c) : x.index = i
  BY DEF HasIndex, Held

LEMMA AppendHeld ==
  ASSUME NEW c \in Seq(Entries), NEW x \in Entries
  PROVE  Held(Append(c, x)) = Held(c) \cup {x}
<1>1. /\ Append(c, x) \in Seq(Entries) /\ Len(Append(c, x)) = Len(c) + 1
      /\ \A k \in 1..Len(c) : Append(c, x)[k] = c[k]
      /\ Append(c, x)[Len(c) + 1] = x
  BY AppendProperties
<1>2. DOMAIN c = 1..Len(c) /\ DOMAIN Append(c, x) = 1..Len(c) + 1 /\ Len(c) \in Nat
  BY <1>1, LenProperties
<1>3. QED
  BY <1>1, <1>2 DEF Held

\* An index is added once, and nothing is lost by it.
LEMMA OnAddKeeps ==
  ASSUME NEW c \in Seq(Entries), Unique(c), NEW i \in Nat, NEW e
  PROVE  /\ OnAdd(c, i, e) \in Seq(Entries)
         /\ Unique(OnAdd(c, i, e))
         /\ Held(OnAdd(c, i, e)) =
              IF Cacheable(i, e) /\ ~HasIndex(c, i) THEN Held(c) \cup {Entry(i, e)} ELSE Held(c)
<1>1. CASE Cacheable(i, e) /\ ~HasIndex(c, i)
  <2>1. OnAdd(c, i, e) = Append(c, Entry(i, e)) /\ Entry(i, e) \in Entries /\ Entry(i, e).index = i
    BY <1>1, CacheAssumption DEF OnAdd, Cacheable, Entries, Entry
  <2> DEFINE d == Append(c, Entry(i, e))
  <2>2. /\ d \in Seq(Entries) /\ Len(d) = Len(c) + 1 /\ Len(c) \in Nat
        /\ DOMAIN c = 1..Len(c) /\ DOMAIN d = 1..Len(c) + 1
        /\ \A k \in 1..Len(c) : d[k] = c[k]
        /\ d[Len(c) + 1] = Entry(i, e)
    BY <2>1, AppendProperties, LenProperties
  <2> HIDE DEF d
  <2>3. \A k \in 1..Len(c) : c[k].index # i
    BY <1>1, <2>2 DEF HasIndex
  <2>4. Unique(d)
    <3> SUFFICES ASSUME NEW k \in 1..Len(c) + 1, NEW l \in 1..Len(c) + 1, d[k].index = d[l].index
                 PROVE  k = l
      BY <2>2 DEF Unique
    <3>1. CASE k = Len(c) + 1 /\ l # Len(c) + 1
      BY <2>1, <2>2, <2>3, <3>1
    <3>2. CASE k # Len(c) + 1 /\ l = Len(c) + 1
      BY <2>1, <2>2, <2>3, <3>2
    <3>3. CASE k # Len(c) + 1 /\ l # Len(c) + 1
      <4>1. k \in DOMAIN c /\ l \in DOMAIN c /\ c[k].index = c[l].index
        BY <2>2, <3>3
      <4>2. QED
        BY <4>1 DEF Unique
    <3>4. QED
      BY <2>2, <3>1, <3>2, <3>3
  <2>5. QED
    BY <1>1, <2>1, <2>2, <2>4, AppendHeld DEF d
<1>2. CASE ~(Cacheable(i, e) /\ ~HasIndex(c, i))
  BY <1>2 DEF OnAdd
<1>3. QED
  BY <1>1, <1>2

\* Removing takes the entry of the index and no other, wherever the last one is moved.
LEMMA OnRemoveKeeps ==
  ASSUME NEW c \in Seq(Entries), Unique(c), NEW i \in Nat
  PROVE  /\ OnRemove(c, i) \in Seq(Entries)
         /\ Unique(OnRemove(c, i))
         /\ Held(OnRemove(c, i)) = {x \in Held(c) : x.index # i}
<1>0. DOMAIN c = 1..Len(c) /\ Len(c) \in Nat
  BY LenProperties
<1>b. Len(c) \in Nat
  BY LenProperties
<1>a. ASSUME NEW k \in 1..Len(c) PROVE c[k] \in Entries /\ c[k].index \in 0..Limit - 1
  <2>1. c[k] \in Entries
    BY ElementOfSeq
  <2>2. QED
    BY <2>1 DEF Entries
<1>1. CASE i < Limit /\ HasIndex(c, i)
  <2> DEFINE at == CHOOSE k \in DOMAIN c : c[k].index = i /\ \A l \in 1..k - 1 : c[l].index # i
  <2>1. PICK m \in 1..Len(c) : c[m].index = i
    BY <1>0, <1>1 DEF HasIndex
  <2>2. \A l \in 1..Len(c) : c[l].index = i => l = m
    BY <1>0, <2>1 DEF Unique
  <2>3. \A l \in 1..m - 1 : c[l].index # i
    BY <1>0, <2>2
  <2>4. at = m
    BY <1>0, <2>1, <2>2, <2>3
  <2> DEFINE d == [c EXCEPT ![m] = c[Len(c)]]
             r == SubSeq(d, 1, Len(c) - 1)
  <2>5. OnRemove(c, i) = r
    BY <1>1, <2>4 DEF OnRemove
  <2> HIDE DEF at
  <2>6. /\ d \in Seq(Entries) /\ Len(d) = Len(c)
        /\ \A k \in 1..Len(c) : d[k] = IF k = m THEN c[Len(c)] ELSE c[k]
    <3>1. Len(c) \in 1..Len(c) /\ c[Len(c)] \in Entries
      BY <1>0, <1>a, <2>1
    <3>2. QED
      BY <3>1, ExceptSeq
  <2> HIDE DEF d
  <2>7. /\ r \in Seq(Entries) /\ Len(r) = Len(c) - 1
        /\ \A k \in 1..Len(c) - 1 : r[k] = d[k]
    <3>1. \A k \in 1..Len(c) - 1 : d[k] \in Entries
      BY <1>0, <1>a, <2>6
    <3>2. Len(c) - 1 \in Int /\ 1 \in Int /\ Len(c) \in Nat \ {0}
      BY <1>0, <2>1
    <3>3. /\ r \in Seq(Entries) /\ Len(r) = IF 1 <= Len(c) - 1 THEN Len(c) - 1 - 1 + 1 ELSE 0
          /\ \A k \in 1..Len(c) - 1 - 1 + 1 : r[k] = d[1 + k - 1]
      BY <3>1, <3>2, SubSeqProperties
    <3> HIDE DEF r
    <3>4. Len(r) = Len(c) - 1
      <4>1. PICK n \in Nat : n = Len(c)
        BY <1>b
      <4>2. n # 0 /\ Len(r) = IF 1 <= n - 1 THEN n - 1 - 1 + 1 ELSE 0
        BY <3>2, <3>3, <4>1
      <4>3. Len(r) = n - 1
        BY <4>2
      <4>4. QED
        BY <4>1, <4>3
    <3>5. \A k \in 1..Len(c) - 1 : r[k] = d[k]
      BY <1>b, <3>3
    <3>6. QED
      BY <3>3, <3>4, <3>5
  <2> HIDE DEF r
  <2>8. DOMAIN r = 1..Len(c) - 1
    BY <2>7, LenProperties
  <2>9. \A k \in 1..Len(c) - 1 : r[k] = IF k = m THEN c[Len(c)] ELSE c[k]
    BY <1>0, <2>6, <2>7
  <2>10. Unique(r)
    <3> SUFFICES ASSUME NEW k \in 1..Len(c) - 1, NEW l \in 1..Len(c) - 1, r[k].index = r[l].index
                 PROVE  k = l
      BY <2>8 DEF Unique
    <3>0. /\ Len(c) \in 1..Len(c) /\ k \in 1..Len(c) /\ l \in 1..Len(c)
          /\ k # Len(c) /\ l # Len(c)
      BY <1>b
    <3>1. \A p, q \in 1..Len(c) : c[p].index = c[q].index => p = q
      BY <1>0 DEF Unique
    <3>2. CASE k = m /\ l # m
      <4>1. c[Len(c)].index = c[l].index
        BY <2>9, <3>2
      <4>2. Len(c) = l
        BY <1>0, <3>1, <3>0, <4>1
      <4>3. QED
        BY <1>0, <4>2
    <3>3. CASE k # m /\ l = m
      <4>1. c[k].index = c[Len(c)].index
        BY <2>9, <3>3
      <4>2. Len(c) = k
        BY <1>0, <3>1, <3>0, <4>1
      <4>3. QED
        BY <1>0, <4>2
    <3>4. CASE k # m /\ l # m
      <4>1. c[k].index = c[l].index
        BY <2>9, <3>4
      <4>2. QED
        BY <1>0, <3>1, <4>1
    <3>5. QED
      BY <3>2, <3>3, <3>4
  <2>11. Held(r) = {x \in Held(c) : x.index # i}
    <3>1. ASSUME NEW x \in Held(r) PROVE x \in Held(c) /\ x.index # i
      <4>1. PICK k \in 1..Len(c) - 1 : x = r[k]
        BY <2>8 DEF Held
      <4>2. CASE k = m
        <5>1. Len(c) # m /\ Len(c) \in 1..Len(c)
          BY <1>b, <4>1, <4>2
        <5>3. x = c[Len(c)]
          BY <2>9, <4>1, <4>2
        <5>2. QED
          BY <1>0, <2>2, <5>1, <5>3 DEF Held
      <4>3. CASE k # m
        <5>1. x = c[k] /\ k \in 1..Len(c)
          BY <1>0, <2>9, <4>1, <4>3
        <5>2. QED
          BY <1>0, <2>2, <4>3, <5>1 DEF Held
      <4>4. QED
        BY <4>2, <4>3
    <3>2. ASSUME NEW x \in Held(c), x.index # i PROVE x \in Held(r)
      <4>1. PICK k \in 1..Len(c) : x = c[k]
        BY <1>0 DEF Held
      <4>2. k # m
        BY <2>1, <3>2, <4>1
      <4>3. CASE k = Len(c)
        <5>0. m \in 1..Len(c) - 1
          BY <1>b, <2>1, <4>1, <4>2, <4>3
        <5>1. r[m] = x
          BY <2>9, <4>1, <4>3, <5>0
        <5>2. QED
          BY <2>8, <5>0, <5>1 DEF Held
      <4>4. CASE k # Len(c)
        <5>0. k \in 1..Len(c) - 1
          BY <1>b, <4>1, <4>4
        <5>1. r[k] = x
          BY <2>9, <4>1, <4>2, <5>0
        <5>2. QED
          BY <2>8, <5>0, <5>1 DEF Held
      <4>5. QED
        BY <4>3, <4>4
    <3>3. QED
      BY <3>1, <3>2
  <2>12. QED
    BY <2>5, <2>7, <2>10, <2>11
<1>2. CASE ~(i < Limit /\ HasIndex(c, i))
  <2>1. OnRemove(c, i) = c
    BY <1>2 DEF OnRemove
  <2>2. \A k \in 1..Len(c) : c[k].index # i
    BY <1>0, <1>a, <1>2, CacheAssumption DEF HasIndex
  <2>3. Held(c) = {x \in Held(c) : x.index # i}
    BY <1>0, <2>2 DEF Held
  <2>4. QED
    BY <2>1, <2>3
<1>3. QED
  BY <1>1, <1>2

----------------------------------------------------------------------------
(* What a refill computes                                                    *)

\* The cache after each of the first m indices has been visited.
IsFill(f, m) ==
  f = [n \in 0..m |-> IF n = 0 THEN <<>> ELSE OnAdd(f[n - 1], n - 1, list[n - 1])]

LEMMA FilledIs == Filled = (CHOOSE f : IsFill(f, Visited))[Visited]
  BY DEF Filled, IsFill

LEMMA FillExists == \A m \in Nat : \E f : IsFill(f, m)
<1> DEFINE T == {m \in Nat : \E f : IsFill(f, m)}
<1>1. 0 \in T
  <2>1. IsFill([n \in 0..0 |-> <<>>], 0)
    BY DEF IsFill
  <2>2. QED
    BY <2>1
<1>2. ASSUME NEW m \in Nat, m \in T PROVE m + 1 \in T
  <2>1. PICK f : IsFill(f, m)
    BY <1>2
  <2> DEFINE g == [n \in 0..m + 1 |-> IF n = m + 1 THEN OnAdd(f[m], m, list[m]) ELSE f[n]]
             h == [n \in 0..m + 1 |-> IF n = 0 THEN <<>> ELSE OnAdd(g[n - 1], n - 1, list[n - 1])]
  <2>2. ASSUME NEW n \in 0..m + 1
        PROVE  g[n] = IF n = 0 THEN <<>> ELSE OnAdd(g[n - 1], n - 1, list[n - 1])
    <3>1. CASE n = m + 1
      <4>1. g[n] = OnAdd(f[m], m, list[m]) /\ g[n - 1] = f[m] /\ n - 1 = m /\ n # 0
        BY <3>1
      <4> HIDE DEF g
      <4>2. QED
        BY <4>1
    <3>2. CASE n # m + 1
      <4>1. n \in 0..m /\ g[n] = f[n] /\ (n # 0 => g[n - 1] = f[n - 1])
        BY <3>2
      <4>2. f[n] = IF n = 0 THEN <<>> ELSE OnAdd(f[n - 1], n - 1, list[n - 1])
        BY <2>1, <4>1 DEF IsFill
      <4> HIDE DEF g
      <4>3. QED
        BY <4>1, <4>2
    <3>3. QED
      BY <3>1, <3>2
  <2>3. g = [n \in 0..m + 1 |-> g[n]] /\ h = [n \in 0..m + 1 |-> h[n]]
    OBVIOUS
  <2>4. \A n \in 0..m + 1 : g[n] = h[n]
    BY <2>2
  <2>5. g = h
    <3> HIDE DEF g, h
    <3>1. QED
      BY <2>3, <2>4
  <2>6. IsFill(g, m + 1)
    <3> HIDE DEF g
    <3>1. QED
      BY <2>5 DEF IsFill
  <2>7. QED
    BY <2>6
<1> HIDE DEF T
<1>3. Nat \subseteq T
  BY <1>1, <1>2, Induct
<1>4. QED
  BY <1>3 DEF T

LEMMA ListedNext ==
  ASSUME NEW n \in Nat
  PROVE  Listed(n + 1) = IF list[n] \in Known THEN Listed(n) \cup {Entry(n, list[n])} ELSE Listed(n)
<1>1. \A j : j \in 0..(n + 1) - 1 <=> j \in 0..n - 1 \/ j = n
  OBVIOUS
<1>2. QED
  BY <1>1 DEF Listed

\* A refill caches what the list has of a known class at the indices it visits, each once.
THEOREM FilledIsTheList ==
  ASSUME list \in [Indices -> Entities \cup {None}]
  PROVE  Filled \in Seq(Entries) /\ Unique(Filled) /\ Held(Filled) = Listed(Visited)
<1>1. PICK f : IsFill(f, Visited) /\ Filled = f[Visited]
  <2>1. Visited \in Nat
    BY CacheAssumption
  <2>2. IsFill(CHOOSE f : IsFill(f, Visited), Visited)
    BY <2>1, FillExists
  <2>3. QED
    BY <2>2, FilledIs
<1> DEFINE Good(n) == f[n] \in Seq(Entries) /\ Unique(f[n]) /\ Held(f[n]) = Listed(n)
           T == {n \in Nat : n <= Visited => Good(n)}
<1>2. 0 \in T
  <2>1. f[0] = <<>>
    BY <1>1, CacheAssumption DEF IsFill
  <2>2. <<>> \in Seq(Entries) /\ DOMAIN <<>> = {}
    OBVIOUS
  <2>3. Held(f[0]) = {} /\ Listed(0) = {}
    BY <2>1, <2>2 DEF Held, Listed
  <2>4. Unique(f[0])
    BY <2>1, <2>2 DEF Unique
  <2>5. QED
    BY <2>1, <2>2, <2>3, <2>4
<1>3. ASSUME NEW n \in Nat, n \in T PROVE n + 1 \in T
  <2> SUFFICES ASSUME n + 1 <= Visited PROVE Good(n + 1)
    OBVIOUS
  <2>1. Good(n) /\ n \in 0..Visited /\ n + 1 \in 0..Visited /\ n < Limit
    BY <1>3, CacheAssumption
  <2>2. f[n + 1] = OnAdd(f[n], n, list[n])
    <3>1. (n + 1) - 1 = n /\ n + 1 # 0
      OBVIOUS
    <3>2. f[n + 1] = IF n + 1 = 0 THEN <<>> ELSE OnAdd(f[(n + 1) - 1], (n + 1) - 1, list[(n + 1) - 1])
      BY <1>1, <2>1 DEF IsFill
    <3>3. QED
      BY <3>1, <3>2
  <2>3. ~HasIndex(f[n], n)
    <3>1. \A x \in Listed(n) : x.index # n
      BY DEF Listed, Entry
    <3>2. QED
      BY <2>1, <3>1, HeldHasIndex
  <2>4. Cacheable(n, list[n]) <=> list[n] \in Known
    BY <2>1 DEF Cacheable
  <2>5. /\ f[n + 1] \in Seq(Entries) /\ Unique(f[n + 1])
        /\ Held(f[n + 1]) = IF list[n] \in Known THEN Held(f[n]) \cup {Entry(n, list[n])} ELSE Held(f[n])
    BY <2>1, <2>2, <2>3, <2>4, OnAddKeeps
  <2>6. QED
    BY <2>1, <2>5, ListedNext
<1> HIDE DEF T
<1>4. Nat \subseteq T
  BY <1>2, <1>3, Induct
<1>5. Visited \in T
  BY <1>4, CacheAssumption
<1>6. QED
  BY <1>1, <1>5, CacheAssumption DEF T

----------------------------------------------------------------------------
(* The invariant                                                             *)

LEMMA HeldType ==
  ASSUME TypeOK
  PROVE  \A x \in Held(cached) : x.index \in 0..Limit - 1 /\ x.ptr \in Known /\ x = Entry(x.index, x.ptr)
<1>1. \A x \in Held(cached) : x \in Entries
  BY DEF TypeOK, Held
<1>2. QED
  BY <1>1 DEF Entries, Entry

LEMMA InitIInv == Init => IInv
<1> SUFFICES ASSUME Init PROVE IInv
  OBVIOUS
<1>1. cached = <<>> /\ DOMAIN <<>> = {} /\ <<>> \in Seq(Entries)
  BY DEF Init
<1>2. Held(cached) = {}
  BY <1>1 DEF Held
<1>3. Unique(cached)
  BY <1>1 DEF Unique
<1>4. QED
  BY <1>1, <1>2, <1>3 DEF Init, IInv, TypeOK

\* A hook that goes live changes nothing of what is cached.
LEMMA InstallStep == ASSUME IInv, Install PROVE IInv'
<1>1. live \subseteq live' /\ UNCHANGED <<list, cached, missed, synced>>
  BY DEF Install
<1>2. QED
  BY <1>1 DEF IInv, TypeOK, Mirrors, Listed, Unique, Held

LEMMA ListedWithout ==
  ASSUME NEW i \in Indices, NEW m, list \in [Indices -> Entities \cup {None}],
         list' = [list EXCEPT ![i] = m]
  PROVE  \A x : x \in Listed(Visited)' <=>
           \/ x \in Listed(Visited) /\ x.index # i
           \/ i < Visited /\ m \in Known /\ x = Entry(i, m)
<1>1. \A j \in 0..Visited - 1 : j \in Indices /\ list'[j] = IF j = i THEN m ELSE list[j]
  BY CacheAssumption DEF Indices
<1>2. i \in 0..Visited - 1 <=> i < Visited
  BY CacheAssumption DEF Indices
<1>3. QED
  BY <1>1, <1>2 DEF Listed, Entry

\* What is added is not in the cache yet below Visited, if the cache mirrors the list: an
\* entry at its index would agree with the list, which has nothing there.
LEMMA AddStep ==
  ASSUME IInv, NEW i \in Indices, NEW e \in Entities, Add(i, e)
  PROVE  IInv'
<1>1. /\ list[i] = None /\ list' = [list EXCEPT ![i] = e]
      /\ cached' = IF "add" \in live THEN OnAdd(cached, i, e) ELSE cached
      /\ UNCHANGED <<live, missed, synced>>
  BY DEF Add
<1>2. TypeOK /\ Unique(cached) /\ i \in Nat
  BY DEF IInv, Indices
<1>3. list'[i] = e /\ \A j \in Indices : j # i => list'[j] = list[j]
  BY <1>1, <1>2 DEF TypeOK
<1>4. /\ cached' \in Seq(Entries) /\ Unique(cached')
      /\ Held(cached') = IF "add" \in live /\ Cacheable(i, e) /\ ~HasIndex(cached, i)
                         THEN Held(cached) \cup {Entry(i, e)} ELSE Held(cached)
  BY <1>1, <1>2, OnAddKeeps DEF TypeOK
<1>5. TypeOK'
  BY <1>1, <1>2, <1>4 DEF TypeOK
<1>6. /\ \A x \in Held(cached) : x.index \in Indices /\ x.ptr \in Known
      /\ None \notin Known /\ Visited <= Limit /\ Visited \in Nat /\ Limit \in Nat
  BY <1>2, HeldType, CacheAssumption DEF Indices
<1>7. \A x \in Held(cached') : list'[x.index] = x.ptr \/ x.index \in missed'
  <2>1. ASSUME NEW x \in Held(cached) PROVE list'[x.index] = x.ptr \/ x.index \in missed'
    <3>1. list[x.index] = x.ptr \/ x.index \in missed
      BY DEF IInv
    <3>2. QED
      BY <1>1, <1>3, <1>6, <3>1
  <2>2. list'[Entry(i, e).index] = Entry(i, e).ptr
    BY <1>3 DEF Entry
  <2>3. QED
    BY <1>4, <2>1, <2>2
<1>8. ASSUME synced' PROVE {"add", "remove"} \subseteq live' /\ Mirrors'
  <2>1. {"add", "remove"} \subseteq live /\ Mirrors
    BY <1>1, <1>8 DEF IInv
  <2>2. i < Visited => ~HasIndex(cached, i)
    <3> SUFFICES ASSUME i < Visited, NEW x \in Held(cached), x.index = i PROVE FALSE
      BY HeldHasIndex
    <3>1. QED
      BY <1>1, <1>6, <2>1 DEF Mirrors
  <2>3. i < Visited /\ e \in Known => Held(cached') = Held(cached) \cup {Entry(i, e)}
    BY <1>2, <1>4, <1>6, <2>1, <2>2 DEF Cacheable
  <2>4. \A x \in Held(cached') : x.index < Visited => x.ptr = list'[x.index]
    <3>1. ASSUME NEW x \in Held(cached), x.index < Visited PROVE x.ptr = list'[x.index]
      <4>1. x.index # i
        BY <2>2, <3>1, HeldHasIndex
      <4>2. QED
        BY <1>3, <1>6, <2>1, <3>1, <4>1 DEF Mirrors
    <3>2. list'[Entry(i, e).index] = Entry(i, e).ptr
      BY <1>3 DEF Entry
    <3>3. QED
      BY <1>4, <3>1, <3>2
  <2>5. ASSUME NEW x \in Listed(Visited)' PROVE x \in Held(cached')
    <3>1. x \in Listed(Visited) \/ (i < Visited /\ e \in Known /\ x = Entry(i, e))
      BY <1>1, <1>2, ListedWithout DEF TypeOK
    <3>2. QED
      BY <1>4, <2>1, <2>3, <3>1 DEF Mirrors
  <2>6. Mirrors'
    BY <2>4, <2>5 DEF Mirrors, Held
  <2>7. QED
    BY <1>1, <2>1, <2>6
<1>9. QED
  BY <1>4, <1>5, <1>7, <1>8 DEF IInv, Held, Unique

LEMMA RemoveStep ==
  ASSUME IInv, NEW i \in Indices, Remove(i)
  PROVE  IInv'
<1>1. /\ list' = [list EXCEPT ![i] = None]
      /\ cached' = IF "remove" \in live THEN OnRemove(cached, i) ELSE cached
      /\ missed' = IF "remove" \in live THEN missed \ {i} ELSE missed \cup {i}
      /\ UNCHANGED <<live, synced>>
  BY DEF Remove
<1>2. TypeOK /\ Unique(cached) /\ i \in Nat
  BY DEF IInv, Indices
<1>3. list'[i] = None /\ \A j \in Indices : j # i => list'[j] = list[j]
  BY <1>1, <1>2 DEF TypeOK
<1>4. /\ cached' \in Seq(Entries) /\ Unique(cached')
      /\ Held(cached') = IF "remove" \in live THEN {x \in Held(cached) : x.index # i}
                         ELSE Held(cached)
  BY <1>1, <1>2, OnRemoveKeeps DEF TypeOK
<1>5. TypeOK'
  BY <1>1, <1>2, <1>4 DEF TypeOK
<1>6. /\ \A x \in Held(cached) : x.index \in Indices /\ x.ptr \in Known
      /\ None \notin Known /\ Visited \in Nat
  BY <1>2, HeldType, CacheAssumption DEF Indices
<1>7. \A x \in Held(cached') : list'[x.index] = x.ptr \/ x.index \in missed'
  <2> SUFFICES ASSUME NEW x \in Held(cached') PROVE list'[x.index] = x.ptr \/ x.index \in missed'
    OBVIOUS
  <2>1. x \in Held(cached) /\ (x.index = i => "remove" \notin live)
    BY <1>4
  <2>2. list[x.index] = x.ptr \/ x.index \in missed
    BY <2>1 DEF IInv
  <2>3. QED
    BY <1>1, <1>3, <1>6, <2>1, <2>2
<1>8. ASSUME synced' PROVE {"add", "remove"} \subseteq live' /\ Mirrors'
  <2>1. {"add", "remove"} \subseteq live /\ Mirrors
    BY <1>1, <1>8 DEF IInv
  <2>2. Held(cached') = {x \in Held(cached) : x.index # i}
    BY <1>4, <2>1
  <2>3. \A x \in Held(cached') : x.index < Visited => x.ptr = list'[x.index]
    BY <1>3, <1>6, <2>1, <2>2 DEF Mirrors
  <2>4. ASSUME NEW x \in Listed(Visited)' PROVE x \in Held(cached')
    <3>1. x \in Listed(Visited) /\ x.index # i
      BY <1>1, <1>2, <1>6, ListedWithout DEF TypeOK
    <3>2. QED
      BY <2>1, <2>2, <3>1 DEF Mirrors
  <2>5. Mirrors'
    BY <2>3, <2>4 DEF Mirrors, Held
  <2>6. QED
    BY <1>1, <2>1, <2>5
<1>9. QED
  BY <1>4, <1>5, <1>7, <1>8 DEF IInv, Held, Unique

LEMMA FrameStep == ASSUME IInv, Frame PROVE IInv'
<1>1. /\ cached' = Filled /\ synced' = (synced \/ {"add", "remove"} \subseteq live)
      /\ UNCHANGED <<list, live, missed>>
  BY DEF Frame
<1>2. list \in [Indices -> Entities \cup {None}]
  BY DEF IInv, TypeOK
<1>3. cached' \in Seq(Entries) /\ Unique(cached') /\ Held(cached') = Listed(Visited)
  BY <1>1, <1>2, FilledIsTheList
<1>4. TypeOK'
  BY <1>1, <1>2, <1>3 DEF TypeOK
<1>5. \A x \in Listed(Visited) : x.ptr = list[x.index]
  BY DEF Listed, Entry
<1>6. Listed(Visited)' = Listed(Visited)
  BY <1>1 DEF Listed
<1>7. Mirrors'
  BY <1>1, <1>3, <1>5, <1>6 DEF Mirrors, Held
<1>8. \A x \in Held(cached') : list'[x.index] = x.ptr \/ x.index \in missed'
  BY <1>1, <1>3, <1>5
<1>9. synced' => {"add", "remove"} \subseteq live'
  BY <1>1 DEF IInv
<1>10. QED
  BY <1>3, <1>4, <1>7, <1>8, <1>9 DEF IInv, Held, Unique

LEMMA NextIInv == IInv /\ [Next]_vars => IInv'
<1> SUFFICES ASSUME IInv, [Next]_vars PROVE IInv'
  OBVIOUS
<1>1. CASE UNCHANGED vars
  BY <1>1, SMTT(40) DEF vars, IInv, TypeOK, Mirrors, Listed, Unique, Held
<1>2. QED
  BY <1>1, InstallStep, FrameStep, AddStep, RemoveStep DEF Next

LEMMA Inductive == Spec => []IInv
  BY InitIInv, NextIInv, PTL DEF Spec

----------------------------------------------------------------------------

\* (OneEntryPerIndex) However the hooks went live and whatever was missed meanwhile, an index
\* is cached once, so that on_remove_entity, which takes the first entry, takes all of it.
THEOREM IndicesAreCachedOnce == Spec => []OneEntryPerIndex
<1>1. IInv => OneEntryPerIndex
  BY DEF IInv, Unique, OneEntryPerIndex
<1>2. QED
  BY <1>1, Inductive, PTL

\* (StaleOnlyFromUnseenRemoval) An entry whose entity has gone is one whose removal came
\* before the hook on removals was in place, or without it.
THEOREM StaleIsFromUnseenRemoval == Spec => []StaleOnlyFromUnseenRemoval
<1>1. IInv => StaleOnlyFromUnseenRemoval
  BY DEF IInv, Held, StaleOnlyFromUnseenRemoval
<1>2. QED
  BY <1>1, Inductive, PTL

\* (MirrorsListOnceSynced) A cache filled with both hooks in place mirrors the list for ever,
\* whatever number of indices is visited, announced and in the list.
THEOREM SyncedMirrorsList == Spec => []MirrorsListOnceSynced
<1>1. ASSUME IInv PROVE MirrorsListOnceSynced
  <2> SUFFICES ASSUME synced
               PROVE  {c \in Held(cached) : c.index < Visited} = Listed(Visited)
    BY DEF MirrorsListOnceSynced, Held, Listed
  <2>1. Mirrors
    BY <1>1 DEF IInv
  <2>2. ASSUME NEW c \in Held(cached), c.index < Visited PROVE c \in Listed(Visited)
    <3>1. c.index \in 0..Visited - 1 /\ list[c.index] \in Known /\ c = Entry(c.index, list[c.index])
      BY <1>1, <2>1, <2>2, HeldType, CacheAssumption DEF IInv, Mirrors
    <3>2. QED
      BY <3>1 DEF Listed
  <2>3. \A x \in Listed(Visited) : x.index < Visited
    BY CacheAssumption DEF Listed, Entry
  <2>4. QED
    BY <2>1, <2>2, <2>3 DEF Mirrors
<1>2. QED
  BY <1>1, Inductive, PTL
=============================================================================
