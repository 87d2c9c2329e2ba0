--------------------------- MODULE ImpactsProofs ---------------------------
(***************************************************************************)
(* The shot tracker tells the truth, for any players, any number of        *)
(* rounds, any capacity and any periods.  The host tells of the rounds in  *)
(* their order, so that what was told lies before what is to come; a round *)
(* that is irregular has no other one beside it, or that is known (mixed); *)
(* and a round of which something is still to be told has its record, or   *)
(* that is known (orphan).  Where two bullets strike in one frame the      *)
(* verdicts may change places, so that they are counted.                   *)
(***************************************************************************)
EXTENDS Impacts, FiniteSetTheorems, SequenceTheorems, WellFoundedInduction, TLAPS

Kinds == {"impact", "report", "hurt"}
Verdicts == {"none", "hit", "miss", "discarded", "dropped", "cleared"}

Shots == [cmd : Rounds, victim : Players, age : 0..Never, impact : 0..Never,
          of : {None} \cup Rounds, confirmed : BOOLEAN, resolved : BOOLEAN]
Hits == [cmd : Rounds, age : 0..Never]
Games == [pc : {"idle", "hurt"}, cmd : {None} \cup Rounds, victim : {None} \cup Players,
          impact : BOOLEAN, polled : BOOLEAN]
Rolls == [aimed : BOOLEAN, target : {None} \cup Players, hit : {None} \cup Players, odd : BOOLEAN]
Events == [kind : Kinds, cmd : Rounds, victim : {None} \cup Players]

Types ==
  /\ records \in Seq(Shots) /\ reports \in Seq(Hits) /\ game \in Games
  /\ rounds \in Seq(Rolls) /\ Len(rounds) <= MaxRounds
  /\ firing \in Seq(Rounds) /\ wire \in Seq(Events)
  /\ verdict \in [Rounds -> Verdicts]

----------------------------------------------------------------------------
(* The world                                                                 *)

Even(c) == ~rounds[c].odd
Unfired(c) == \E i \in DOMAIN firing : firing[i] = c

\* Something of this kind is still to be told of round c.
Coming(c, kind) == \E i \in DOMAIN wire : wire[i].cmd = c /\ wire[i].kind = kind

Rank(kind) == IF kind = "impact" THEN 1 ELSE IF kind = "report" THEN 2 ELSE 3

\* Rounds fire in the order of their commands.
FiringInOrder ==
  /\ \A i, j \in DOMAIN firing : i < j => firing[i] < firing[j]
  /\ \A i \in DOMAIN firing :
       /\ firing[i] \in DOMAIN rounds /\ rounds[firing[i]].aimed
       /\ rounds[firing[i]].hit = None /\ Even(firing[i])

Aiming ==
  \A c \in DOMAIN rounds :
    /\ rounds[c].aimed => rounds[c].target \in Players
    /\ Even(c) => rounds[c].aimed /\ rounds[c].hit \in {None, rounds[c].target}

\* What is to come is in the order of the rounds, and of a regular round in the order of
\* its pattern: without a hurt it is the impact, with one the hurt comes last.
WireInOrder ==
  /\ \A i, j \in DOMAIN wire : i < j => wire[i].cmd <= wire[j].cmd
  /\ \A i, j \in DOMAIN wire : i < j /\ wire[i].cmd = wire[j].cmd /\ Even(wire[i].cmd) =>
                                 Rank(wire[i].kind) < Rank(wire[j].kind)
  /\ \A i \in DOMAIN wire :
       /\ wire[i].cmd \in DOMAIN rounds /\ wire[i].victim = rounds[wire[i].cmd].hit
       /\ wire[i].kind = "hurt" => wire[i].victim \in Players
       /\ Even(wire[i].cmd) => IF wire[i].victim = None THEN wire[i].kind = "impact"
                               ELSE Coming(wire[i].cmd, "hurt")
       /\ \A j \in DOMAIN firing : wire[i].cmd < firing[j]

\* What was told is of rounds that are not after those of which more is to come.
Before(c) ==
  /\ c = None \/ c \in DOMAIN rounds
  /\ \A i \in DOMAIN wire : c <= wire[i].cmd
  /\ \A i \in DOMAIN firing : c < firing[i]

ToldBefore ==
  /\ \A r \in Range(records) : Before(r.of)
  /\ \A i \in DOMAIN reports : reports[i].cmd # None /\ Before(reports[i].cmd)
  /\ Before(game.cmd)

World == FiringInOrder /\ Aiming /\ WireInOrder /\ ToldBefore

----------------------------------------------------------------------------
(* What holds in any case                                                    *)

\* Records are in the order of their rounds.
Sorted(rs) == \A i, j \in DOMAIN rs : i < j => rs[i].cmd < rs[j].cmd

InOrder ==
  /\ Sorted(records)
  /\ \A r \in Range(records) :
       /\ r.cmd \in DOMAIN rounds /\ rounds[r.cmd].target = r.victim
       /\ HasImpact(r) => r.impact <= r.age
       /\ ~rounds[r.cmd].aimed => ~Awaited(r.cmd)

\* Of a record that is not resolved nothing was said yet, and of a round to come neither.
Unsaid ==
  /\ \A r \in Range(records) : verdict[r.cmd] = IF r.resolved THEN "hit" ELSE "none"
  /\ \A c \in Rounds \ DOMAIN rounds : verdict[c] = "none"

\* A report of a regular round came alone, and before its hurt.
Reported ==
  /\ \A i, j \in DOMAIN reports : reports[i].cmd = reports[j].cmd /\ Even(reports[i].cmd) => i = j
  /\ \A i \in DOMAIN reports, j \in DOMAIN wire :
       reports[i].cmd = wire[j].cmd /\ Even(reports[i].cmd) => wire[j].kind = "hurt"

\* In the second part of on_player_hurt a record with the impact of the first is there.
ImpactAtHand ==
  /\ game.pc = "idle" => game = Idle
  /\ game.pc = "hurt" => game.cmd \in DOMAIN rounds
  /\ game.pc = "hurt" /\ game.impact /\ ~game.polled => WithImpact(game.victim) # {}
  /\ ~overlooked

\* An irregular round is alone.
Alone == ~mixed => \A c, d \in DOMAIN rounds : c # d /\ Live(c) /\ Live(d) => Even(c)

Loose == InOrder /\ Unsaid /\ Reported /\ ImpactAtHand /\ Alone

----------------------------------------------------------------------------
(* What holds of sessions that are neither mixed nor orphaned                *)

\* An impact is matched with its own record; the records were struck in their order.
OwnImpacts ==
  /\ \A r \in Range(records) :
       /\ r.of \in {None, r.cmd}
       /\ Even(r.cmd) => (HasImpact(r) <=> ~Unfired(r.cmd) /\ ~Coming(r.cmd, "impact"))
       /\ r.confirmed <=> rounds[r.cmd].aimed /\ ~Unfired(r.cmd)
       /\ HasImpact(r) => rounds[r.cmd].aimed
  /\ \A r, s \in Range(records) :
       r.cmd < s.cmd /\ HasImpact(r) /\ HasImpact(s) => s.impact <= r.impact

\* What is awaited of a regular round finds its record, and no record is due before.
Expected ==
  /\ \A c \in DOMAIN rounds : Even(c) /\ Awaited(c) =>
       \E r \in Range(records) : r.cmd = c /\ ~r.resolved
  /\ \A r \in Range(records) : ~r.resolved /\ Gone(r) => ~Awaited(r.cmd)

\* A hit that was told of has resolved its record, unless in its place another one.
HitsResolve ==
  \A r \in Range(records) :
    rounds[r.cmd].aimed /\ rounds[r.cmd].hit = r.victim /\ ~r.resolved =>
      Coming(r.cmd, "hurt") \/ (tied /\ Even(r.cmd))

HitOrMiss == {"hit", "miss"}

\* What was said is true, up to the hits and misses of regular rounds in a tie.
SaidTruly ==
  \A c \in DOMAIN rounds :
    /\ verdict[c] = "discarded" => ~rounds[c].aimed
    /\ verdict[c] \in HitOrMiss => rounds[c].aimed
    /\ verdict[c] \in HitOrMiss /\ (tied => ~Even(c)) => verdict[c] = Truth(c)

HitsSaid(v) == {c \in DOMAIN rounds : Even(c) /\ rounds[c].target = v /\ verdict[c] = "hit"}
HitsTold(v) == {c \in DOMAIN rounds : Even(c) /\ rounds[c].target = v /\ rounds[c].hit = v
                                        /\ ~Coming(c, "hurt")}

\* As many hits were said of a player as were told.
Balanced == \A v \in Players : Cardinality(HitsSaid(v)) = Cardinality(HitsTold(v))

\* What a marker finds is of its own round.
Marks ==
  /\ ~misplaced
  /\ \A i \in DOMAIN reports : reports[i].age < ReportWindow /\ Even(reports[i].cmd) =>
       Coming(reports[i].cmd, "hurt") \/ game.cmd = reports[i].cmd
  /\ game.pc = "hurt" =>
       /\ \A i \in DOMAIN reports : reports[i].age < ReportWindow => reports[i].cmd = game.cmd
       /\ ~game.polled /\ WithImpact(game.victim) # {} =>
            records[Max(WithImpact(game.victim))].of = game.cmd

Strict == OwnImpacts /\ Expected /\ HitsResolve /\ SaidTruly /\ Balanced /\ Marks

Clean == ~mixed /\ ~orphan

IInv == Types /\ World /\ Loose /\ (Clean => Strict)

----------------------------------------------------------------------------
(* Induction on natural numbers                                              *)

\* A set of numbers that is not empty has a smallest one.
LEMMA Least ==
  ASSUME NEW T, T \subseteq Nat, T # {}
  PROVE  \E x \in T : \A y \in T : x <= y
<1> DEFINE R == {p \in Nat \X Nat : p[1] < p[2]}
<1>1. IsWellFoundedOn(R, Nat)
  BY NatLessThanWellFounded DEF OpToRel
<1> HIDE DEF R
<1>2. PICK x \in T : \A y \in T : ~ (<<y, x>> \in R)
  BY <1>1, WFMin
<1>3. ASSUME NEW y \in T, y < x PROVE FALSE
  <2>1. <<y, x>> \in R
    BY <1>3 DEF R
  <2>2. QED
    BY <1>2, <2>1
<1>4. QED
  BY <1>3

\* A set with 0 and the successors of its members has every number.
LEMMA Induct ==
  ASSUME NEW T, 0 \in T, \A n \in Nat : n \in T => n + 1 \in T
  PROVE  Nat \subseteq T
<1> SUFFICES ASSUME Nat \ T # {} PROVE FALSE
  OBVIOUS
<1>1. PICK x \in Nat \ T : \A y \in Nat \ T : x <= y
  BY Least
<1>2. x - 1 \in Nat /\ ~(x <= x - 1)
  BY <1>1
<1>3. x - 1 \in T
  BY <1>1, <1>2
<1>4. QED
  BY <1>1, <1>2, <1>3

\* A set of numbers that is not empty has a smallest one, and a largest one if it is bounded.
LEMMA MinIs ==
  ASSUME NEW S, S \subseteq Nat, S # {}
  PROVE  Min(S) \in S /\ \A x \in S : Min(S) <= x
<1>1. \E x \in S : \A y \in S : x <= y
  BY Least
<1>2. QED
  BY <1>1 DEF Min

LEMMA MaxIs ==
  ASSUME NEW n \in Nat, NEW S, S \subseteq 1..n, S # {}
  PROVE  Max(S) \in S /\ \A x \in S : x <= Max(S)
<1> DEFINE U == {n - x : x \in S}
<1>1. U \subseteq Nat /\ U # {}
  <2>1. \A x \in 1..n : n - x \in Nat
    OBVIOUS
  <2>2. \A x \in S : n - x \in Nat
    BY <2>1
  <2>3. QED
    BY <2>2
<1> HIDE DEF U
<1>2. PICK u \in U : \A y \in U : u <= y
  BY <1>1, Least
<1>3. PICK m \in S : u = n - m
  BY <1>2 DEF U
<1>4. \A x \in S : u <= n - x
  BY <1>2 DEF U
<1>5. \A x \in S : m >= x
  BY <1>3, <1>4
<1>6. QED
  BY <1>3, <1>5 DEF Max

----------------------------------------------------------------------------
(* Sequences of which something was taken                                    *)

\* t is s without some of its elements; g tells where the others were.
Thins(g, t, s) ==
  /\ g \in [DOMAIN t -> DOMAIN s]
  /\ \A i \in DOMAIN t : t[i] = s[g[i]]
  /\ \A i, j \in DOMAIN t : i < j => g[i] < g[j]

IsOnly(f, s, S) ==
  f = [n \in 0..Len(s) |->
        IF n = 0 THEN <<>>
        ELSE IF s[n] \in S THEN Append(f[n - 1], s[n]) ELSE f[n - 1]]

LEMMA OnlyIs == \A s, S : Only(s, S) = (CHOOSE f : IsOnly(f, s, S))[Len(s)]
  BY DEF Only, IsOnly

\* The function up to m.
IsOnlyTo(f, s, S, m) ==
  f = [n \in 0..m |->
        IF n = 0 THEN <<>>
        ELSE IF s[n] \in S THEN Append(f[n - 1], s[n]) ELSE f[n - 1]]

LEMMA OnlyExists == ASSUME NEW s, NEW S PROVE \A m \in Nat : \E f : IsOnlyTo(f, s, S, m)
<1> DEFINE Taken(t, n) == IF s[n] \in S THEN Append(t, s[n]) ELSE t
           T == {m \in Nat : \E f : IsOnlyTo(f, s, S, m)}
<1>1. 0 \in T
  <2>1. IsOnlyTo([n \in 0..0 |-> <<>>], s, S, 0)
    BY DEF IsOnlyTo
  <2>2. QED
    BY <2>1
<1>2. ASSUME NEW m \in Nat, m \in T PROVE m + 1 \in T
  <2>1. PICK f : IsOnlyTo(f, s, S, m)
    BY <1>2
  <2> DEFINE g == [n \in 0..m + 1 |-> IF n = m + 1 THEN Taken(f[m], m + 1) ELSE f[n]]
             h == [n \in 0..m + 1 |-> IF n = 0 THEN <<>> ELSE Taken(g[n - 1], n)]
  <2>2. ASSUME NEW n \in 0..m + 1
        PROVE  g[n] = IF n = 0 THEN <<>> ELSE Taken(g[n - 1], n)
    <3>1. CASE n = m + 1
      <4>1. g[n] = Taken(f[m], m + 1) /\ g[n - 1] = f[m] /\ n # 0
        BY <3>1
      <4> HIDE DEF g
      <4>2. QED
        BY <3>1, <4>1
    <3>2. CASE n # m + 1
      <4>1. n \in 0..m /\ g[n] = f[n] /\ (n # 0 => g[n - 1] = f[n - 1])
        BY <3>2
      <4>2. f[n] = IF n = 0 THEN <<>> ELSE Taken(f[n - 1], n)
        BY <2>1, <4>1 DEF IsOnlyTo
      <4> HIDE DEF g
      <4>3. QED
        BY <4>1, <4>2
    <3>3. QED
      BY <3>1, <3>2
  <2>3. g = [n \in 0..m + 1 |-> g[n]] /\ h = [n \in 0..m + 1 |-> h[n]]
    OBVIOUS
  <2>4. \A n \in 0..m + 1 : g[n] = h[n]
    BY <2>2
  <2>5. g = h
    <3> HIDE DEF g, h
    <3>1. QED
      BY <2>3, <2>4
  <2>6. IsOnlyTo(g, s, S, m + 1)
    <3> HIDE DEF g
    <3>1. QED
      BY <2>5 DEF IsOnlyTo
  <2>7. QED
    BY <2>6
<1> HIDE DEF T
<1>3. Nat \subseteq T
  BY <1>1, <1>2, Induct
<1>4. QED
  BY <1>3 DEF T

\* An append, or the end of a sequence, in terms of positions.
LEMMA Appended ==
  ASSUME NEW T, NEW s \in Seq(T), NEW e \in T
  PROVE  /\ Append(s, e) \in Seq(T) /\ Len(Append(s, e)) = Len(s) + 1
         /\ DOMAIN Append(s, e) = 1..Len(s) + 1 /\ DOMAIN s = 1..Len(s) /\ Len(s) \in Nat
         /\ \A i \in DOMAIN s : Append(s, e)[i] = s[i]
         /\ Append(s, e)[Len(s) + 1] = e
<1>1. Append(s, e) \in Seq(T) /\ Len(Append(s, e)) = Len(s) + 1
  BY AppendProperties
<1>2. Len(s) \in Nat /\ DOMAIN s = 1..Len(s) /\ DOMAIN Append(s, e) = 1..Len(Append(s, e))
  BY <1>1, LenProperties
<1>3. (\A i \in 1..Len(s) : Append(s, e)[i] = s[i]) /\ Append(s, e)[Len(s) + 1] = e
  BY AppendProperties
<1>4. QED
  BY <1>1, <1>2, <1>3

LEMMA Shortened ==
  ASSUME NEW T, NEW s \in Seq(T), s # <<>>
  PROVE  /\ Tail(s) \in Seq(T) /\ Len(Tail(s)) = Len(s) - 1 /\ Len(s) \in Nat \ {0}
         /\ DOMAIN s = 1..Len(s) /\ DOMAIN Tail(s) = 1..Len(s) - 1
         /\ Head(s) = s[1] /\ Head(s) \in T
         /\ \A i \in DOMAIN Tail(s) : i + 1 \in DOMAIN s /\ Tail(s)[i] = s[i + 1]
<1>1. /\ Head(s) \in T /\ Tail(s) \in Seq(T) /\ Len(Tail(s)) = Len(s) - 1
      /\ \A i \in 1..Len(Tail(s)) : Tail(s)[i] = s[i + 1]
  BY HeadTailProperties
<1>2. Len(s) \in Nat \ {0} /\ DOMAIN s = 1..Len(s) /\ DOMAIN Tail(s) = 1..Len(Tail(s))
  BY <1>1, LenProperties, EmptySeq
<1>3. Head(s) = s[1]
  BY <1>2
<1>4. QED
  BY <1>1, <1>2, <1>3

\* t is what is in S of the first n elements of s.
Chosen(g, t, s, S, n) ==
  /\ g \in [DOMAIN t -> 1..n]
  /\ \A i \in DOMAIN t : t[i] = s[g[i]] /\ s[g[i]] \in S
  /\ \A i, j \in DOMAIN t : i < j => g[i] < g[j]
  /\ \A k \in 1..n : s[k] \in S => \E i \in DOMAIN t : g[i] = k

\* What is in S stays, and only that.
LEMMA OnlyThins ==
  ASSUME NEW T, NEW s \in Seq(T), NEW S
  PROVE  /\ Only(s, S) \in Seq(T)
         /\ \E g : /\ Thins(g, Only(s, S), s)
                   /\ \A i \in DOMAIN Only(s, S) : s[g[i]] \in S
                   /\ \A k \in DOMAIN s : s[k] \in S => \E i \in DOMAIN Only(s, S) : g[i] = k
<1>0. Len(s) \in Nat /\ DOMAIN s = 1..Len(s) /\ \A k \in 1..Len(s) : s[k] \in T
  BY LenProperties, ElementOfSeq
<1>1. PICK f : IsOnly(f, s, S) /\ Only(s, S) = f[Len(s)]
  <2>1. IsOnly(CHOOSE f : IsOnly(f, s, S), s, S)
    <3>1. \E f : IsOnlyTo(f, s, S, Len(s))
      BY <1>0, OnlyExists
    <3>2. QED
      BY <3>1 DEF IsOnly, IsOnlyTo
  <2>2. QED
    BY <2>1, OnlyIs
<1> DEFINE Good(n) == f[n] \in Seq(T) /\ \E g : Chosen(g, f[n], s, S, n)
           U == {n \in Nat : n <= Len(s) => Good(n)}
<1>2. 0 \in U
  <2>1. f[0] = <<>>
    BY <1>0, <1>1 DEF IsOnly
  <2>2. <<>> \in Seq(T) /\ DOMAIN <<>> = {}
    OBVIOUS
  <2>3. [i \in {} |-> 1] \in [{} -> 1..0]
    OBVIOUS
  <2>4. PICK g : g \in [{} -> 1..0]
    BY <2>3
  <2>5. \A k \in 1..0 : FALSE
    OBVIOUS
  <2>6. Chosen(g, f[0], s, S, 0)
    BY <2>1, <2>2, <2>4, <2>5 DEF Chosen
  <2>7. QED
    BY <2>1, <2>2, <2>6
<1>3. ASSUME NEW n \in Nat, n \in U PROVE n + 1 \in U
  <2> SUFFICES ASSUME n + 1 <= Len(s) PROVE Good(n + 1)
    OBVIOUS
  <2>1. Good(n) /\ n + 1 \in 1..Len(s) /\ s[n + 1] \in T
    BY <1>0, <1>3
  <2>2. f[n + 1] = IF s[n + 1] \in S THEN Append(f[n], s[n + 1]) ELSE f[n]
    <3>1. n + 1 \in 0..Len(s) /\ n + 1 # 0 /\ (n + 1) - 1 = n
      BY <2>1
    <3>2. f[n + 1] = IF n + 1 = 0 THEN <<>>
            ELSE IF s[n + 1] \in S THEN Append(f[(n + 1) - 1], s[n + 1]) ELSE f[(n + 1) - 1]
      BY <1>1, <3>1 DEF IsOnly
    <3>3. QED
      BY <3>1, <3>2
  <2>3. PICK g : Chosen(g, f[n], s, S, n)
    BY <2>1
  <2>4. \A k \in 1..n + 1 : k \in 1..n \/ k = n + 1
    OBVIOUS
  <2>5. CASE s[n + 1] \notin S
    <3>1. f[n + 1] = f[n]
      BY <2>2, <2>5
    <3>2. Chosen(g, f[n], s, S, n + 1)
      <4>1. g \in [DOMAIN f[n] -> 1..n + 1]
        BY <2>3 DEF Chosen
      <4>2. \A k \in 1..n + 1 : s[k] \in S => \E i \in DOMAIN f[n] : g[i] = k
        BY <2>3, <2>4, <2>5 DEF Chosen
      <4>3. QED
        BY <2>3, <4>1, <4>2 DEF Chosen
    <3>3. f[n + 1] \in Seq(T) /\ Chosen(g, f[n + 1], s, S, n + 1)
      BY <2>1, <3>1, <3>2
    <3>4. QED
      BY <3>3
  <2>6. CASE s[n + 1] \in S
    <3> DEFINE t == f[n]
               u == Append(t, s[n + 1])
               m == Len(t) + 1
               h == [i \in 1..m |-> IF i = m THEN n + 1 ELSE g[i]]
    <3>1. f[n + 1] = u /\ t \in Seq(T)
      BY <2>1, <2>2, <2>6
    <3>2. /\ u \in Seq(T) /\ DOMAIN u = 1..m /\ DOMAIN t = 1..Len(t) /\ Len(t) \in Nat
          /\ (\A i \in DOMAIN t : u[i] = t[i]) /\ u[m] = s[n + 1]
      BY <2>1, <3>1, Appended
    <3>3. \A i \in 1..m : i \in DOMAIN t \/ i = m
      BY <3>2
    <3>4. (\A i \in DOMAIN t : h[i] = g[i] /\ g[i] \in 1..n) /\ h[m] = n + 1
      BY <2>3, <3>2 DEF Chosen
    <3>5. h \in [1..m -> 1..n + 1]
      BY <2>3, <3>2 DEF Chosen
    <3> HIDE DEF h, u, t
    <3>6. \A i \in 1..m : u[i] = s[h[i]] /\ s[h[i]] \in S
      BY <2>3, <2>6, <3>2, <3>3, <3>4 DEF t, Chosen
    <3>7. \A i, j \in 1..m : i < j => h[i] < h[j]
      <4> SUFFICES ASSUME NEW i \in 1..m, NEW j \in 1..m, i < j PROVE h[i] < h[j]
        OBVIOUS
      <4>1. i \in DOMAIN t
        BY <3>2
      <4>2. CASE j = m
        BY <3>4, <4>1, <4>2
      <4>3. CASE j # m
        <5>1. j \in DOMAIN t
          BY <3>3, <4>3
        <5>2. g[i] < g[j]
          BY <2>3, <4>1, <5>1 DEF t, Chosen
        <5>3. QED
          BY <3>4, <4>1, <5>1, <5>2
      <4>4. QED
        BY <4>2, <4>3
    <3>8. \A k \in 1..n + 1 : s[k] \in S => \E i \in 1..m : h[i] = k
      <4>1. m \in 1..m /\ DOMAIN t \subseteq 1..m
        BY <3>2
      <4>2. \A k \in 1..n : s[k] \in S => \E i \in DOMAIN t : g[i] = k
        BY <2>3 DEF t, Chosen
      <4>3. QED
        BY <2>4, <3>4, <4>1, <4>2
    <3>9. Chosen(h, u, s, S, n + 1)
      BY <3>2, <3>5, <3>6, <3>7, <3>8 DEF Chosen
    <3>10. f[n + 1] \in Seq(T) /\ Chosen(h, f[n + 1], s, S, n + 1)
      BY <3>1, <3>2, <3>9
    <3>11. QED
      BY <3>10
  <2>7. QED
    BY <2>5, <2>6
<1> HIDE DEF U
<1>4. Len(s) \in U
  BY <1>0, <1>2, <1>3, Induct
<1>5. Good(Len(s))
  BY <1>0, <1>4 DEF U
<1>6. PICK g : Chosen(g, f[Len(s)], s, S, Len(s))
  BY <1>5
<1>7. Chosen(g, Only(s, S), s, S, Len(s))
  BY <1>1, <1>6
<1>8. Only(s, S) \in Seq(T)
  BY <1>1, <1>5
<1>9. Thins(g, Only(s, S), s)
  BY <1>0, <1>7 DEF Thins, Chosen
<1>10. /\ \A i \in DOMAIN Only(s, S) : s[g[i]] \in S
       /\ \A k \in DOMAIN s : s[k] \in S => \E i \in DOMAIN Only(s, S) : g[i] = k
  BY <1>0, <1>7 DEF Chosen
<1>11. QED
  BY <1>8, <1>9, <1>10

LEMMA RemoveAtThins ==
  ASSUME NEW T, NEW s \in Seq(T), NEW n \in DOMAIN s
  PROVE  /\ RemoveAt(s, n) \in Seq(T)
         /\ \E g : Thins(g, RemoveAt(s, n), s) /\ \A i \in DOMAIN RemoveAt(s, n) : g[i] # n
<1> DEFINE a == SubSeq(s, 1, n - 1)
           b == SubSeq(s, n + 1, Len(s))
           l == Len(s)
           g == [i \in 1..l - 1 |-> IF i < n THEN i ELSE i + 1]
<1>1. l \in Nat /\ DOMAIN s = 1..l /\ n \in 1..l /\ \A k \in 1..l : s[k] \in T
  BY LenProperties, ElementOfSeq
<1>2. /\ a \in Seq(T) /\ Len(a) = n - 1 /\ \A i \in 1..n - 1 : a[i] = s[i]
  <2>1. n - 1 \in Int /\ \A i \in 1..n - 1 : s[i] \in T
    BY <1>1
  <2>2. /\ a \in Seq(T) /\ Len(a) = IF 1 <= n - 1 THEN n - 1 - 1 + 1 ELSE 0
        /\ \A i \in 1..n - 1 - 1 + 1 : a[i] = s[1 + i - 1]
    BY <2>1, SubSeqProperties
  <2> HIDE DEF a
  <2>3. QED
    BY <1>1, <2>2
<1>3. /\ b \in Seq(T) /\ Len(b) = l - n /\ \A i \in 1..l - n : b[i] = s[n + i]
  <2>1. n + 1 \in Int /\ l \in Int /\ \A i \in n + 1..l : s[i] \in T
    BY <1>1
  <2>2. /\ b \in Seq(T) /\ Len(b) = IF n + 1 <= l THEN l - (n + 1) + 1 ELSE 0
        /\ \A i \in 1..l - (n + 1) + 1 : b[i] = s[n + 1 + i - 1]
    BY <2>1, SubSeqProperties
  <2> HIDE DEF b
  <2>3. l - (n + 1) + 1 = l - n /\ \A i \in 1..l - n : n + 1 + i - 1 = n + i
    BY <1>1
  <2>4. Len(b) = l - n
    BY <1>1, <2>2
  <2>5. \A i \in 1..l - n : b[i] = s[n + i]
    BY <2>2, <2>3
  <2>6. QED
    BY <2>2, <2>4, <2>5
<1> HIDE DEF a, b
<1>4. /\ a \o b \in Seq(T) /\ Len(a \o b) = l - 1
      /\ \A i \in 1..l - 1 : (a \o b)[i] = IF i <= n - 1 THEN a[i] ELSE b[i - (n - 1)]
  <2>1. /\ a \o b \in Seq(T) /\ Len(a \o b) = Len(a) + Len(b)
        /\ \A i \in 1..Len(a) + Len(b) : (a \o b)[i] = IF i <= Len(a) THEN a[i] ELSE b[i - Len(a)]
    BY <1>2, <1>3, ConcatProperties
  <2>2. Len(a) + Len(b) = l - 1 /\ Len(a) = n - 1
    BY <1>1, <1>2, <1>3
  <2>3. QED
    BY <2>1, <2>2
<1>5. DOMAIN (a \o b) = 1..l - 1
  BY <1>4, LenProperties
<1>6. \A i \in 1..l - 1 : (a \o b)[i] = s[g[i]] /\ g[i] \in 1..l /\ g[i] # n
  <2> SUFFICES ASSUME NEW i \in 1..l - 1 PROVE (a \o b)[i] = s[g[i]] /\ g[i] \in 1..l /\ g[i] # n
    OBVIOUS
  <2>1. CASE i < n
    <3>1. i \in 1..n - 1 /\ g[i] = i
      BY <1>1, <2>1
    <3>2. QED
      BY <1>1, <1>2, <1>4, <3>1
  <2>2. CASE ~(i < n)
    <3> DEFINE j == i - (n - 1)
    <3>1. j \in 1..l - n /\ g[i] = i + 1 /\ n + j = i + 1 /\ i + 1 \in 1..l /\ i + 1 # n
      BY <1>1, <2>2
    <3>2. (a \o b)[i] = b[j]
      BY <1>1, <1>4, <2>2
    <3> HIDE DEF j
    <3>3. b[j] = s[n + j]
      BY <1>3, <3>1
    <3>4. QED
      BY <3>1, <3>2, <3>3
  <2>3. QED
    BY <2>1, <2>2
<1>7. \A i, j \in 1..l - 1 : i < j => g[i] < g[j]
  BY <1>1
<1>8. g \in [1..l - 1 -> 1..l]
  BY <1>1, <1>6
<1> HIDE DEF g
<1>9. Thins(g, a \o b, s)
  BY <1>1, <1>5, <1>6, <1>7, <1>8 DEF Thins
<1>10. RemoveAt(s, n) = a \o b
  BY DEF RemoveAt, a, b
<1>11. QED
  BY <1>4, <1>5, <1>6, <1>9, <1>10

----------------------------------------------------------------------------
(* Sets of elements                                                          *)

LEMMA RangeIs == ASSUME NEW s PROVE \A x : x \in Range(s) <=> \E i \in DOMAIN s : s[i] = x
  BY DEF Range

LEMMA RangeOfThinned ==
  ASSUME NEW g, NEW t, NEW s, Thins(g, t, s) PROVE Range(t) \subseteq Range(s)
  BY DEF Thins, Range

LEMMA RangeOfOnly ==
  ASSUME NEW T, NEW s \in Seq(T), NEW S
  PROVE  Range(Only(s, S)) = {x \in Range(s) : x \in S}
<1>1. PICK g : /\ Thins(g, Only(s, S), s)
               /\ \A i \in DOMAIN Only(s, S) : s[g[i]] \in S
               /\ \A k \in DOMAIN s : s[k] \in S => \E i \in DOMAIN Only(s, S) : g[i] = k
  BY OnlyThins
<1>2. \A x \in Range(Only(s, S)) : x \in Range(s) /\ x \in S
  BY <1>1, RangeIs DEF Thins
<1>3. \A x \in Range(s) : x \in S => x \in Range(Only(s, S))
  BY <1>1, RangeIs DEF Thins
<1>4. QED
  BY <1>2, <1>3

----------------------------------------------------------------------------
(* The types                                                                 *)

LEMMA Consts ==
  /\ MaxRounds \in Nat /\ Capacity \in Nat \ {0} /\ 0 \notin Players
  /\ Grace \in Nat /\ ReportWindow \in Nat /\ Timeout \in Nat
  /\ Never \in Nat /\ Never = Timeout + 1 /\ None = 0 /\ Rounds = 1..MaxRounds
  BY ImpactsAssumption DEF Never, None, Rounds

\* What the types say of the positions and the elements of the sequences.
LEMMA Positions ==
  ASSUME Types
  PROVE  /\ Len(records) \in Nat /\ DOMAIN records = 1..Len(records)
         /\ Len(reports) \in Nat /\ DOMAIN reports = 1..Len(reports)
         /\ Len(rounds) \in Nat /\ DOMAIN rounds = 1..Len(rounds) /\ DOMAIN rounds \subseteq Rounds
         /\ Len(firing) \in Nat /\ DOMAIN firing = 1..Len(firing)
         /\ Len(wire) \in Nat /\ DOMAIN wire = 1..Len(wire)
         /\ \A i \in DOMAIN records : records[i] \in Shots /\ records[i] \in Range(records)
         /\ \A r \in Range(records) : r \in Shots /\ \E i \in DOMAIN records : records[i] = r
         /\ \A i \in DOMAIN reports : reports[i] \in Hits
         /\ \A c \in DOMAIN rounds : rounds[c] \in Rolls
         /\ \A i \in DOMAIN firing : firing[i] \in Rounds
         /\ \A i \in DOMAIN wire : wire[i] \in Events
<1>1. /\ Len(records) \in Nat /\ DOMAIN records = 1..Len(records)
      /\ Len(reports) \in Nat /\ DOMAIN reports = 1..Len(reports)
      /\ Len(rounds) \in Nat /\ DOMAIN rounds = 1..Len(rounds)
      /\ Len(firing) \in Nat /\ DOMAIN firing = 1..Len(firing)
      /\ Len(wire) \in Nat /\ DOMAIN wire = 1..Len(wire)
  BY LenProperties DEF Types
<1>2. /\ \A i \in 1..Len(records) : records[i] \in Shots
      /\ \A i \in 1..Len(reports) : reports[i] \in Hits
      /\ \A i \in 1..Len(rounds) : rounds[i] \in Rolls
      /\ \A i \in 1..Len(firing) : firing[i] \in Rounds
      /\ \A i \in 1..Len(wire) : wire[i] \in Events
  BY ElementOfSeq DEF Types
<1>3. DOMAIN rounds \subseteq Rounds
  BY <1>1, Consts DEF Types
<1>4. \A r \in Range(records) : r \in Shots /\ \E i \in DOMAIN records : records[i] = r
  BY <1>1, <1>2, RangeIs
<1>5. \A i \in DOMAIN records : records[i] \in Range(records)
  BY RangeIs
<1>6. QED
  BY <1>1, <1>2, <1>3, <1>4, <1>5

LEMMA AwaitedIs ==
  \A c : Awaited(c) <=> Unfired(c) \/ \E i \in DOMAIN wire : wire[i].cmd = c
  BY DEF Awaited, Unfired, Range

----------------------------------------------------------------------------
(* The initial state                                                         *)

LEMMA InitInv == Init => IInv
<1> SUFFICES ASSUME Init PROVE IInv
  OBVIOUS
<1>1. /\ records = <<>> /\ reports = <<>> /\ rounds = <<>> /\ firing = <<>> /\ wire = <<>>
      /\ game = Idle /\ verdict = [c \in Rounds |-> "none"]
      /\ ~mixed /\ ~orphan /\ ~tied /\ ~misplaced /\ ~overlooked
  BY DEF Init
<1>2. DOMAIN <<>> = {} /\ Len(<<>>) = 0 /\ \A T : <<>> \in Seq(T)
  OBVIOUS
<1>3. Range(<<>>) = {}
  BY <1>2, RangeIs
<1>4. Types
  BY <1>1, <1>2, Consts DEF Types, Games, Idle, Verdicts, None
<1>5. World
  BY <1>1, <1>2, <1>3, Consts DEF World, FiringInOrder, Aiming, WireInOrder, ToldBefore, Before, Idle
<1>6. Loose
  BY <1>1, <1>2, <1>3, Consts DEF Loose, InOrder, Unsaid, Reported, ImpactAtHand, Alone, Idle, Sorted
<1>7. OwnImpacts /\ Expected /\ HitsResolve /\ SaidTruly /\ Marks
  BY <1>1, <1>2, <1>3, Consts
     DEF OwnImpacts, Expected, HitsResolve, SaidTruly, Marks, Idle
<1>8. Balanced
  <2>1. \A v : HitsSaid(v) = {} /\ HitsTold(v) = {}
    BY <1>1, <1>2 DEF HitsSaid, HitsTold
  <2>2. QED
    BY <2>1 DEF Balanced
<1>9. QED
  BY <1>4, <1>5, <1>6, <1>7, <1>8 DEF IInv, Strict

----------------------------------------------------------------------------
(* What the operations do to the records                                     *)

\* Records in order are told apart by their rounds.
LEMMA SortedIs ==
  ASSUME NEW rs \in Seq(Shots), Sorted(rs)
  PROVE  /\ Len(rs) \in Nat /\ DOMAIN rs = 1..Len(rs)
         /\ \A i \in DOMAIN rs : rs[i] \in Shots /\ rs[i].cmd \in Nat /\ rs[i] \in Range(rs)
         /\ \A i, j \in DOMAIN rs : rs[i].cmd = rs[j].cmd => i = j
         /\ \A i, j \in DOMAIN rs : rs[i].cmd < rs[j].cmd => i < j
         /\ \A r \in Range(rs) : r \in Shots /\ \E i \in DOMAIN rs : rs[i] = r
         /\ \A r, s \in Range(rs) : r.cmd = s.cmd => r = s
<1>1. Len(rs) \in Nat /\ DOMAIN rs = 1..Len(rs) /\ \A i \in 1..Len(rs) : rs[i] \in Shots
  BY LenProperties, ElementOfSeq
<1>2. \A i \in DOMAIN rs : rs[i] \in Shots /\ rs[i].cmd \in Nat /\ rs[i] \in Range(rs)
  <2>1. \A r \in Shots : r.cmd \in Nat
    BY Consts DEF Shots
  <2>2. QED
    BY <1>1, <2>1 DEF Range
<1>3. \A i, j \in DOMAIN rs : (rs[i].cmd = rs[j].cmd => i = j) /\ (rs[i].cmd < rs[j].cmd => i < j)
  <2> SUFFICES ASSUME NEW i \in DOMAIN rs, NEW j \in DOMAIN rs
               PROVE  (rs[i].cmd = rs[j].cmd => i = j) /\ (rs[i].cmd < rs[j].cmd => i < j)
    OBVIOUS
  <2>1. i \in Nat /\ j \in Nat /\ rs[i].cmd \in Nat /\ rs[j].cmd \in Nat
    BY <1>1, <1>2
  <2>2. (i < j => rs[i].cmd < rs[j].cmd) /\ (j < i => rs[j].cmd < rs[i].cmd)
    BY DEF Sorted
  <2>3. QED
    BY <2>1, <2>2
<1>4. \A r \in Range(rs) : r \in Shots /\ \E i \in DOMAIN rs : rs[i] = r
  BY <1>1 DEF Range
<1>5. \A r, s \in Range(rs) : r.cmd = s.cmd => r = s
  BY <1>3, <1>4
<1>6. QED
  BY <1>1, <1>2, <1>3, <1>4, <1>5

\* One record changes, and stays of its round.
Put(rs, k, e) == [rs EXCEPT ![k] = e]

LEMMA Edited ==
  ASSUME NEW rs \in Seq(Shots), Sorted(rs), NEW k \in DOMAIN rs, NEW e \in Shots, e.cmd = rs[k].cmd,
         NEW t, t = Put(rs, k, e)
  PROVE  /\ t \in Seq(Shots) /\ Sorted(t) /\ DOMAIN t = DOMAIN rs
         /\ t[k] = e /\ \A i \in DOMAIN rs : i # k => t[i] = rs[i]
         /\ Range(t) = (Range(rs) \ {rs[k]}) \cup {e}
<1>1. /\ Len(rs) \in Nat /\ DOMAIN rs = 1..Len(rs)
      /\ \A i, j \in DOMAIN rs : rs[i].cmd = rs[j].cmd => i = j
      /\ \A i \in DOMAIN rs : rs[i] \in Range(rs)
      /\ \A r \in Range(rs) : \E i \in DOMAIN rs : rs[i] = r
      /\ \A r, s \in Range(rs) : r.cmd = s.cmd => r = s
  BY SortedIs
<1>2. t \in Seq(Shots)
  BY <1>1, ExceptSeq DEF Put
<1>3. DOMAIN t = DOMAIN rs /\ t[k] = e /\ \A i \in DOMAIN rs : i # k => t[i] = rs[i]
  BY DEF Put
<1>4. \A i \in DOMAIN rs : t[i].cmd = rs[i].cmd
  BY <1>3
<1>5. Sorted(t)
  BY <1>3, <1>4 DEF Sorted
<1>6. e \in Range(t)
  BY <1>3 DEF Range
<1>7. \A r \in Range(t) : r = e \/ (r \in Range(rs) /\ r.cmd # e.cmd)
  <2> SUFFICES ASSUME NEW i \in DOMAIN rs, i # k PROVE t[i] \in Range(rs) /\ t[i].cmd # e.cmd
    BY <1>3 DEF Range
  <2>1. t[i] = rs[i] /\ rs[i] \in Range(rs) /\ rs[i].cmd # rs[k].cmd
    BY <1>1, <1>3
  <2>2. QED
    BY <2>1
<1>8. \A r \in Range(rs) : r.cmd # e.cmd => r \in Range(t)
  <2> SUFFICES ASSUME NEW r \in Range(rs), r.cmd # e.cmd PROVE r \in Range(t)
    OBVIOUS
  <2>0. PICK i \in DOMAIN rs : rs[i] = r
    BY <1>1
  <2>1. i # k /\ t[i] = r
    BY <1>3, <2>0
  <2>2. QED
    BY <1>3, <2>1 DEF Range
<1>9. \A r \in Range(rs) : r.cmd = e.cmd => r = rs[k]
  BY <1>1
<1>10. Range(t) = (Range(rs) \ {rs[k]}) \cup {e}
  <2>1. rs[k] \in Range(rs)
    BY <1>1
  <2>2. QED
    BY <1>6, <1>7, <1>8, <1>9, <2>1
<1>11. QED
  BY <1>2, <1>3, <1>5, <1>10

LEMMA SortedThinned ==
  ASSUME NEW g, NEW t, NEW s, Thins(g, t, s), Sorted(s)
  PROVE  Sorted(t)
<1> SUFFICES ASSUME NEW i \in DOMAIN t, NEW j \in DOMAIN t, i < j PROVE t[i].cmd < t[j].cmd
  BY DEF Sorted
<1>1. g[i] \in DOMAIN s /\ g[j] \in DOMAIN s /\ g[i] < g[j] /\ t[i] = s[g[i]] /\ t[j] = s[g[j]]
  BY DEF Thins
<1>2. QED
  BY <1>1 DEF Sorted

\* What check_misses removes, and what it says of it.
LEMMA CheckMissesDoes ==
  ASSUME NEW rs \in Seq(Shots), Sorted(rs), verdict \in [Rounds -> Verdicts], CheckMisses(rs)
  PROVE  /\ records' \in Seq(Shots) /\ Sorted(records')
         /\ Range(records') = {r \in Range(rs) : ~Gone(r)}
         /\ verdict' \in [Rounds -> Verdicts]
         /\ \A r \in Range(rs) : verdict'[r.cmd] = IF Gone(r) /\ ~r.resolved THEN Said(r)
                                                   ELSE verdict[r.cmd]
         /\ \A c \in Rounds : (\A r \in Range(rs) : r.cmd # c) => verdict'[c] = verdict[c]
<1> DEFINE S == {r \in Range(rs) : ~Gone(r)}
<1>1. /\ records' = Only(rs, S)
      /\ verdict' = [c \in Rounds |->
           IF \E r \in Range(rs) : r.cmd = c /\ Gone(r) /\ ~r.resolved
             THEN Said(CHOOSE r \in Range(rs) : r.cmd = c) ELSE verdict[c]]
  BY DEF CheckMisses, Remaining
<1>2. records' \in Seq(Shots) /\ \E g : Thins(g, records', rs)
  BY <1>1, OnlyThins
<1>3. Sorted(records')
  BY <1>2, SortedThinned
<1>4. Range(records') = {r \in Range(rs) : ~Gone(r)}
  BY <1>1, RangeOfOnly
<1> HIDE DEF S
<1>5. (\A r \in Range(rs) : r \in Shots) /\ \A r, s \in Range(rs) : r.cmd = s.cmd => r = s
  BY SortedIs
<1>6. \A r \in Shots : r.cmd \in Rounds /\ Said(r) \in Verdicts
  BY DEF Shots, Said, Verdicts
<1>7. ASSUME NEW r \in Range(rs) PROVE (CHOOSE s \in Range(rs) : s.cmd = r.cmd) = r
  BY <1>5
<1>8. ASSUME NEW r \in Range(rs)
      PROVE  verdict'[r.cmd] = IF Gone(r) /\ ~r.resolved THEN Said(r) ELSE verdict[r.cmd]
  <2>1. r.cmd \in Rounds
    BY <1>5, <1>6
  <2>2. (\E s \in Range(rs) : s.cmd = r.cmd /\ Gone(s) /\ ~s.resolved) <=> Gone(r) /\ ~r.resolved
    BY <1>5
  <2>3. QED
    BY <1>1, <1>7, <2>1, <2>2
<1>9. \A c \in Rounds : (\A r \in Range(rs) : r.cmd # c) => verdict'[c] = verdict[c]
  BY <1>1
<1>10. verdict' \in [Rounds -> Verdicts]
  <2> SUFFICES ASSUME NEW c \in Rounds PROVE verdict'[c] \in Verdicts
    BY <1>1
  <2>1. CASE \A r \in Range(rs) : r.cmd # c
    BY <1>9, <2>1
  <2>2. CASE \E r \in Range(rs) : r.cmd = c
    <3>1. PICK r \in Range(rs) : r.cmd = c
      BY <2>2
    <3>2. Said(r) \in Verdicts
      BY <1>5, <1>6, <3>1
    <3>3. QED
      BY <1>8, <3>1, <3>2
  <2>3. QED
    BY <2>1, <2>2
<1>11. QED
  BY <1>2, <1>3, <1>4, <1>8, <1>9, <1>10

\* The first record that is not confirmed is.
LEMMA ConfirmDoes ==
  ASSUME NEW rs \in Seq(Shots), Sorted(rs), rs = records, records' = ConfirmFirst
  PROVE  \/ records' = rs /\ \A r \in Range(rs) : r.confirmed
         \/ \E k \in DOMAIN rs :
              /\ ~rs[k].confirmed /\ \A r \in Range(rs) : r.cmd < rs[k].cmd => r.confirmed
              /\ records' = [rs EXCEPT ![k] = [rs[k] EXCEPT !.confirmed = TRUE]]
<1> DEFINE open == {i \in DOMAIN rs : ~rs[i].confirmed}
<1>1. records' = IF open = {} THEN rs ELSE [rs EXCEPT ![Min(open)].confirmed = TRUE]
  BY DEF ConfirmFirst
<1>2. /\ DOMAIN rs \subseteq Nat
      /\ \A i, j \in DOMAIN rs : rs[i].cmd < rs[j].cmd => i < j
      /\ \A r \in Range(rs) : \E i \in DOMAIN rs : rs[i] = r
  BY SortedIs
<1>3. CASE open = {}
  BY <1>1, <1>2, <1>3
<1>4. CASE open # {}
  <2> DEFINE k == Min(open)
  <2>1. k \in open /\ \A i \in open : k <= i
    BY <1>2, <1>4, MinIs
  <2>2. records' = [rs EXCEPT ![k] = [rs[k] EXCEPT !.confirmed = TRUE]]
    BY <1>1, <1>4
  <2> HIDE DEF k
  <2>3. ASSUME NEW i \in DOMAIN rs, rs[i].cmd < rs[k].cmd PROVE rs[i].confirmed
    <3>1. i < k /\ i \in Nat /\ k \in Nat
      BY <1>2, <2>1, <2>3
    <3>2. QED
      BY <2>1, <3>1
  <2>4. \A r \in Range(rs) : r.cmd < rs[k].cmd => r.confirmed
    BY <1>2, <2>3
  <2>5. QED
    BY <2>1, <2>2, <2>4
<1>5. QED
  BY <1>3, <1>4

LEMMA TailOfSorted ==
  ASSUME NEW t \in Seq(Shots), Sorted(t), t # <<>>
  PROVE  /\ Tail(t) \in Seq(Shots) /\ Sorted(Tail(t)) /\ Head(t) = t[1]
         /\ Range(Tail(t)) = Range(t) \ {t[1]}
<1>1. /\ Tail(t) \in Seq(Shots) /\ Len(t) \in Nat \ {0} /\ Head(t) = t[1]
      /\ DOMAIN t = 1..Len(t) /\ DOMAIN Tail(t) = 1..Len(t) - 1
      /\ \A i \in DOMAIN Tail(t) : i + 1 \in DOMAIN t /\ Tail(t)[i] = t[i + 1]
  BY Shortened
<1>2. \A i \in DOMAIN t : t[i].cmd \in Nat
  BY SortedIs
<1>3. Sorted(Tail(t))
  <2> SUFFICES ASSUME NEW i \in DOMAIN Tail(t), NEW j \in DOMAIN Tail(t), i < j
               PROVE  Tail(t)[i].cmd < Tail(t)[j].cmd
    BY DEF Sorted
  <2>1. i + 1 < j + 1 /\ i + 1 \in DOMAIN t /\ j + 1 \in DOMAIN t
    BY <1>1
  <2>2. t[i + 1].cmd < t[j + 1].cmd
    BY <2>1 DEF Sorted
  <2>3. QED
    BY <1>1, <2>2
<1>4. \A x \in Range(Tail(t)) : x \in Range(t) /\ x # t[1]
  <2> SUFFICES ASSUME NEW i \in DOMAIN Tail(t) PROVE Tail(t)[i] \in Range(t) /\ Tail(t)[i] # t[1]
    BY DEF Range
  <2>1. Tail(t)[i] = t[i + 1] /\ i + 1 \in DOMAIN t /\ 1 \in DOMAIN t /\ 1 < i + 1
    BY <1>1
  <2>2. t[1].cmd < t[i + 1].cmd
    BY <2>1 DEF Sorted
  <2>3. t[i + 1] \in Range(t) /\ t[1].cmd \in Nat
    BY <1>2, <2>1 DEF Range
  <2>4. QED
    BY <2>1, <2>2, <2>3
<1>5. \A x \in Range(t) : x # t[1] => x \in Range(Tail(t))
  <2> SUFFICES ASSUME NEW k \in DOMAIN t, t[k] # t[1] PROVE t[k] \in Range(Tail(t))
    BY DEF Range
  <2>1. k - 1 \in DOMAIN Tail(t) /\ (k - 1) + 1 = k
    BY <1>1
  <2>2. Tail(t)[k - 1] = t[k]
    BY <1>1, <2>1
  <2>3. QED
    BY <2>1, <2>2 DEF Range
<1>6. QED
  BY <1>1, <1>3, <1>4, <1>5

\* A record is made, for which the oldest one may have to go.
LEMMA RecordMade ==
  ASSUME NEW rs \in Seq(Shots), Sorted(rs), NEW e \in Shots, \A r \in Range(rs) : r.cmd < e.cmd,
         NEW made, made = Append(rs, e), NEW lost, lost = IF Len(made) > Capacity THEN {Head(made)} ELSE {}
  PROVE  /\ Bounded(made) \in Seq(Shots) /\ Sorted(Bounded(made))
         /\ lost \subseteq Range(rs)
         /\ Range(Bounded(made)) = (Range(rs) \ lost) \cup {e}
<1>1. /\ Len(rs) \in Nat /\ DOMAIN rs = 1..Len(rs)
      /\ \A i \in DOMAIN rs : rs[i] \in Range(rs) /\ rs[i].cmd \in Nat
      /\ \A i, j \in DOMAIN rs : rs[i].cmd = rs[j].cmd => i = j
      /\ \A r \in Range(rs) : \E i \in DOMAIN rs : rs[i] = r
  BY SortedIs
<1>2. /\ made \in Seq(Shots) /\ Len(made) = Len(rs) + 1 /\ DOMAIN made = 1..Len(rs) + 1
      /\ (\A i \in DOMAIN rs : made[i] = rs[i]) /\ made[Len(rs) + 1] = e
  BY Appended
<1>3. \A i \in DOMAIN made : i \in DOMAIN rs \/ i = Len(rs) + 1
  BY <1>1, <1>2
<1>4. Sorted(made)
  <2> SUFFICES ASSUME NEW i \in DOMAIN made, NEW j \in DOMAIN made, i < j PROVE made[i].cmd < made[j].cmd
    BY DEF Sorted
  <2>1. i \in DOMAIN rs
    BY <1>1, <1>2
  <2>2. CASE j \in DOMAIN rs
    BY <1>2, <2>1, <2>2 DEF Sorted
  <2>3. CASE j = Len(rs) + 1
    BY <1>1, <1>2, <2>1, <2>3
  <2>4. QED
    BY <1>3, <2>2, <2>3
<1>5. Range(made) = Range(rs) \cup {e}
  <2>1. \A x \in Range(made) : x \in Range(rs) \cup {e}
    BY <1>1, <1>2, <1>3 DEF Range
  <2>2. \A x \in Range(rs) : x \in Range(made)
    BY <1>1, <1>2 DEF Range
  <2>3. e \in Range(made)
    BY <1>1, <1>2 DEF Range
  <2>4. QED
    BY <2>1, <2>2, <2>3
<1>6. CASE ~(Len(made) > Capacity)
  BY <1>2, <1>4, <1>5, <1>6 DEF Bounded
<1>7. CASE Len(made) > Capacity
  <2>1. made # <<>> /\ 1 \in DOMAIN rs
    BY <1>1, <1>2, <1>7, Consts
  <2>2. /\ Tail(made) \in Seq(Shots) /\ Sorted(Tail(made)) /\ Head(made) = made[1]
        /\ Range(Tail(made)) = Range(made) \ {made[1]}
    BY <1>2, <1>4, <2>1, TailOfSorted
  <2>3. Bounded(made) = Tail(made) /\ lost = {made[1]}
    BY <1>7, <2>2 DEF Bounded
  <2>4. made[1] = rs[1] /\ rs[1] \in Range(rs) /\ e # rs[1]
    BY <1>1, <1>2, <2>1
  <2>5. QED
    BY <1>5, <2>2, <2>3, <2>4
<1>8. QED
  BY <1>6, <1>7

\* Time passes for a record.
Aged(r) == [r EXCEPT !.age = Older(@), !.impact = Older(@)]

LEMMA OlderIs ==
  ASSUME NEW a \in 0..Never
  PROVE  Older(a) \in 0..Never /\ a <= Older(a) /\ \A b \in 0..Never : a <= b => Older(a) <= Older(b)
  BY Consts DEF Older

LEMMA AgedIs ==
  ASSUME NEW r \in Shots
  PROVE  /\ Aged(r) \in Shots /\ Aged(r).cmd = r.cmd /\ Aged(r).victim = r.victim /\ Aged(r).of = r.of
         /\ Aged(r).confirmed = r.confirmed /\ Aged(r).resolved = r.resolved
         /\ Aged(r).age = Older(r.age) /\ Aged(r).impact = Older(r.impact)
<1>1. r.age \in 0..Never /\ r.impact \in 0..Never
  BY DEF Shots
<1>2. Older(r.age) \in 0..Never /\ Older(r.impact) \in 0..Never
  BY <1>1, OlderIs
<1>3. QED
  BY <1>2 DEF Aged, Shots

LEMMA TickDoes ==
  ASSUME NEW rs \in Seq(Shots), Sorted(rs),
         NEW t, t = [i \in DOMAIN rs |-> [rs[i] EXCEPT !.age = Older(@), !.impact = Older(@)]]
  PROVE  /\ t \in Seq(Shots) /\ Sorted(t)
         /\ \A r \in Range(t) : \E s \in Range(rs) : r = Aged(s)
         /\ \A s \in Range(rs) : Aged(s) \in Range(t)
<1>1. /\ Len(rs) \in Nat /\ DOMAIN rs = 1..Len(rs)
      /\ \A i \in DOMAIN rs : rs[i] \in Shots /\ rs[i] \in Range(rs)
      /\ \A r \in Range(rs) : \E i \in DOMAIN rs : rs[i] = r
  BY SortedIs
<1>2. DOMAIN t = DOMAIN rs /\ \A i \in DOMAIN rs : t[i] = Aged(rs[i])
  BY DEF Aged
<1>3. \A i \in DOMAIN rs : t[i] \in Shots /\ t[i].cmd = rs[i].cmd
  BY <1>1, <1>2, AgedIs, ZenonT(60)
<1>4. t \in Seq(Shots)
  <2>1. t \in [1..Len(rs) -> Shots]
    BY <1>1, <1>2, <1>3
  <2>2. [1..Len(rs) -> Shots] \subseteq Seq(Shots)
    BY <1>1, SeqDef
  <2>3. QED
    BY <2>1, <2>2
<1>5. Sorted(t)
  BY <1>2, <1>3 DEF Sorted
<1>6. \A r \in Range(t) : \E s \in Range(rs) : r = Aged(s)
  <2> SUFFICES ASSUME NEW r \in Range(t) PROVE \E s \in Range(rs) : r = Aged(s)
    OBVIOUS
  <2>1. PICK i \in DOMAIN t : t[i] = r
    BY DEF Range
  <2>2. rs[i] \in Range(rs) /\ r = Aged(rs[i])
    BY <1>1, <1>2, <2>1
  <2>3. QED
    BY <2>2
<1>7. \A s \in Range(rs) : Aged(s) \in Range(t)
  <2> SUFFICES ASSUME NEW s \in Range(rs) PROVE Aged(s) \in Range(t)
    OBVIOUS
  <2>1. PICK i \in DOMAIN rs : rs[i] = s
    BY <1>1
  <2>2. t[i] = Aged(s) /\ i \in DOMAIN t
    BY <1>2, <2>1
  <2>3. QED
    BY <2>2 DEF Range
<1>8. QED
  BY <1>4, <1>5, <1>6, <1>7

----------------------------------------------------------------------------
(* Steps of the world                                                        *)

Worldly == FiringInOrder /\ Aiming /\ WireInOrder

LEMMA KindsAre ==
  /\ \A k \in Kinds : Rank(k) \in 1..3 /\ (Rank(k) = 3 <=> k = "hurt") /\ (Rank(k) = 1 <=> k = "impact")
  /\ \A e \in Events : e.kind \in Kinds /\ e.cmd \in Rounds /\ e.victim \in {None} \cup Players
  BY DEF Kinds, Rank, Events

\* The host tells the first of what is to come.
LEMMA WireMoves ==
  ASSUME Types, Worldly, wire # <<>>, wire' = Tail(wire), rounds' = rounds, firing' = firing,
         NEW h, h = Head(wire)
  PROVE  /\ wire' \in Seq(Events) /\ Worldly'
         /\ h \in Events /\ h.cmd \in DOMAIN rounds /\ h.victim = rounds[h.cmd].hit
         /\ h.kind = "hurt" => h.victim \in Players
         /\ Coming(h.cmd, h.kind) /\ Awaited(h.cmd) /\ ~Unfired(h.cmd)
         /\ Before(h.cmd)' /\ \A c : Before(c) => Before(c)' /\ c <= h.cmd
         /\ \A c, k : Coming(c, k) => h.cmd <= c
         /\ \A c, k : Coming(c, k)' => Coming(c, k)
         /\ \A c, k : Coming(c, k) => Coming(c, k)' \/ (c = h.cmd /\ k = h.kind)
         /\ \A c : Unfired(c)' <=> Unfired(c)
         /\ \A c : Unfired(c) => h.cmd < c
         /\ \A c : Awaited(c)' => Awaited(c)
         /\ Even(h.cmd) =>
              /\ \A k \in Kinds : Coming(h.cmd, k)' => Rank(h.kind) < Rank(k)
              /\ IF h.victim = None THEN h.kind = "impact" ELSE Coming(h.cmd, "hurt")
              /\ h.kind = "hurt" => ~Awaited(h.cmd)'
<1>0. FiringInOrder /\ Aiming /\ WireInOrder
  BY DEF Worldly
<1>1. /\ wire' \in Seq(Events) /\ h = wire[1] /\ h \in Events
      /\ Len(wire) \in Nat \ {0} /\ DOMAIN wire = 1..Len(wire) /\ DOMAIN wire' = 1..Len(wire) - 1
      /\ \A i \in DOMAIN wire' : i + 1 \in DOMAIN wire /\ wire'[i] = wire[i + 1]
  BY Shortened DEF Types
<1>2. /\ \A i \in DOMAIN wire : wire[i] \in Events /\ wire[i].kind \in Kinds /\ wire[i].cmd \in Nat
      /\ \A i \in DOMAIN firing : firing[i] \in Nat
  BY Positions, Consts, KindsAre
<1>3. 1 \in DOMAIN wire /\ \A i \in DOMAIN wire : i = 1 \/ (i - 1 \in DOMAIN wire' /\ wire'[i - 1] = wire[i] /\ 1 < i)
  <2>1. 1 \in DOMAIN wire
    BY <1>1
  <2>2. ASSUME NEW i \in DOMAIN wire, i # 1 PROVE i - 1 \in DOMAIN wire' /\ wire'[i - 1] = wire[i] /\ 1 < i
    <3>1. i - 1 \in DOMAIN wire' /\ (i - 1) + 1 = i /\ 1 < i
      BY <1>1, <2>2
    <3>2. wire'[i - 1] = wire[(i - 1) + 1]
      BY <1>1, <3>1
    <3>3. QED
      BY <3>1, <3>2
  <2>3. QED
    BY <2>1, <2>2
<1>4. /\ h.cmd \in DOMAIN rounds /\ h.victim = rounds[h.cmd].hit
      /\ h.kind = "hurt" => h.victim \in Players
      /\ h.cmd \in Nat
      /\ \A i \in DOMAIN wire : h.cmd <= wire[i].cmd
      /\ \A i \in DOMAIN firing : h.cmd < firing[i]
  BY <1>0, <1>1, <1>2, <1>3 DEF WireInOrder
<1>5. Coming(h.cmd, h.kind) /\ Awaited(h.cmd) /\ ~Unfired(h.cmd)
  BY <1>1, <1>2, <1>3, <1>4, AwaitedIs DEF Coming, Unfired
<1>6. /\ \A c, k : Coming(c, k) => h.cmd <= c
      /\ \A c, k : Coming(c, k)' => Coming(c, k)
      /\ \A c, k : Coming(c, k) => Coming(c, k)' \/ (c = h.cmd /\ k = h.kind)
  <2>1. \A c, k : Coming(c, k) => h.cmd <= c
    BY <1>4 DEF Coming
  <2>2. \A c, k : Coming(c, k)' => Coming(c, k)
    BY <1>1 DEF Coming
  <2>3. \A c, k : Coming(c, k) => Coming(c, k)' \/ (c = h.cmd /\ k = h.kind)
    BY <1>1, <1>3, ZenonT(60) DEF Coming
  <2>4. QED
    BY <2>1, <2>2, <2>3
<1>7. /\ \A c : Unfired(c)' <=> Unfired(c)
      /\ \A c : Unfired(c) => h.cmd < c
  BY <1>4 DEF Unfired
<1>8. \A c : Awaited(c)' => Awaited(c)
  <2>1. \A c : Awaited(c)' <=> Unfired(c)' \/ \E i \in DOMAIN wire' : wire'[i].cmd = c
    BY DEF Awaited, Unfired, Range
  <2>2. QED
    BY <1>1, <1>7, <2>1, AwaitedIs
<1>9. Even(h.cmd) => IF h.victim = None THEN h.kind = "impact" ELSE Coming(h.cmd, "hurt")
  BY <1>0, <1>1, <1>3 DEF WireInOrder
<1>10. ASSUME Even(h.cmd), NEW i \in DOMAIN wire', wire'[i].cmd = h.cmd
       PROVE  Rank(h.kind) < Rank(wire'[i].kind)
  <2>1. i + 1 \in DOMAIN wire /\ wire'[i] = wire[i + 1] /\ 1 < i + 1
    BY <1>1
  <2>2. QED
    BY <1>0, <1>1, <1>3, <1>10, <2>1 DEF WireInOrder
<1>11. Even(h.cmd) => \A k \in Kinds : Coming(h.cmd, k)' => Rank(h.kind) < Rank(k)
  BY <1>10 DEF Coming
<1>12. Even(h.cmd) /\ h.kind = "hurt" => ~Awaited(h.cmd)'
  <2> SUFFICES ASSUME Even(h.cmd), h.kind = "hurt", Awaited(h.cmd)' PROVE FALSE
    OBVIOUS
  <2>1. Unfired(h.cmd)' \/ \E i \in DOMAIN wire' : wire'[i].cmd = h.cmd
    BY DEF Awaited, Unfired, Range
  <2>2. PICK i \in DOMAIN wire' : wire'[i].cmd = h.cmd
    BY <1>5, <1>7, <2>1
  <2>3. wire'[i].kind \in Kinds
    BY <1>1, <1>2, <2>2
  <2>4. Rank(h.kind) < Rank(wire'[i].kind) /\ Rank(h.kind) = 3 /\ Rank(wire'[i].kind) \in 1..3
    BY <1>10, <2>2, <2>3, KindsAre DEF Rank
  <2>5. QED
    BY <2>4
<1>13. \A c : Before(c) => Before(c)' /\ c <= h.cmd
  BY <1>1, <1>3 DEF Before
<1>14. Before(h.cmd)'
  BY <1>1, <1>4 DEF Before
<1>15. FiringInOrder' /\ Aiming'
  BY <1>0 DEF FiringInOrder, Aiming, Even
<1>16. WireInOrder'
  <2>1. \A i, j \in DOMAIN wire' : i < j => i + 1 < j + 1
    BY <1>1
  <2>2. \A i, j \in DOMAIN wire' : i < j => wire'[i].cmd <= wire'[j].cmd
    BY <1>0, <1>1, <2>1 DEF WireInOrder
  <2>3. \A i, j \in DOMAIN wire' : i < j /\ wire'[i].cmd = wire'[j].cmd /\ Even(wire'[i].cmd) =>
                                     Rank(wire'[i].kind) < Rank(wire'[j].kind)
    <3> SUFFICES ASSUME NEW i \in DOMAIN wire', NEW j \in DOMAIN wire', i < j,
                        wire'[i].cmd = wire'[j].cmd, Even(wire'[i].cmd)
                 PROVE  Rank(wire'[i].kind) < Rank(wire'[j].kind)
      OBVIOUS
    <3>1. /\ i + 1 \in DOMAIN wire /\ j + 1 \in DOMAIN wire /\ i + 1 < j + 1
          /\ wire'[i] = wire[i + 1] /\ wire'[j] = wire[j + 1]
      BY <1>1, <2>1
    <3>2. QED
      BY <1>0, <3>1 DEF WireInOrder
  <2>4. ASSUME NEW i \in DOMAIN wire'
        PROVE  /\ wire'[i].cmd \in DOMAIN rounds /\ wire'[i].victim = rounds[wire'[i].cmd].hit
               /\ wire'[i].kind = "hurt" => wire'[i].victim \in Players
               /\ \A j \in DOMAIN firing : wire'[i].cmd < firing[j]
    BY <1>0, <1>1, <2>4 DEF WireInOrder
  <2>5. ASSUME NEW i \in DOMAIN wire', NEW c, c = wire'[i].cmd, Even(c)
        PROVE  IF wire'[i].victim = None THEN wire'[i].kind = "impact" ELSE Coming(c, "hurt")'
    <3>1. i + 1 \in DOMAIN wire /\ wire'[i] = wire[i + 1]
      BY <1>1
    <3>2. CASE wire'[i].victim = None
      BY <1>0, <2>5, <3>1, <3>2 DEF WireInOrder
    <3>3. CASE wire'[i].victim # None
      <4>1. Coming(c, "hurt")
        BY <1>0, <2>5, <3>1, <3>3 DEF WireInOrder
      <4>2. ~(c = h.cmd /\ "hurt" = h.kind)
        <5> SUFFICES ASSUME c = h.cmd, h.kind = "hurt" PROVE FALSE
          OBVIOUS
        <5>1. Rank(h.kind) < Rank(wire'[i].kind) /\ wire'[i].kind \in Kinds
          BY <1>2, <1>10, <2>5, <3>1
        <5>2. QED
          BY <5>1, KindsAre DEF Rank
      <4>3. Coming(c, "hurt")'
        BY <1>6, <4>1, <4>2
      <4>4. QED
        BY <3>3, <4>3
    <3>4. QED
      BY <3>2, <3>3
  <2>6. \A i \in DOMAIN wire' : Even(wire'[i].cmd) =>
          IF wire'[i].victim = None THEN wire'[i].kind = "impact"
          ELSE \E j \in DOMAIN wire' : wire'[j].cmd = wire'[i].cmd /\ wire'[j].kind = "hurt"
    BY <2>5 DEF Coming
  <2>7. rounds' = rounds /\ firing' = firing
    OBVIOUS
  <2>8. QED
    BY <2>2, <2>3, <2>4, <2>6, <2>7 DEF WireInOrder, Even, Coming
<1>17. QED
  BY <1>1, <1>4, <1>5, <1>6, <1>7, <1>8, <1>9, <1>11, <1>12, <1>13, <1>14, <1>15, <1>16 DEF Worldly

LEMMA WireGrows ==
  ASSUME Types, NEW c \in Rounds, NEW p \in Seq(Kinds), NEW v \in {None} \cup Players, Emit(c, p, v)
  PROVE  /\ wire' \in Seq(Events) /\ Len(wire) \in Nat /\ Len(p) \in Nat
         /\ DOMAIN wire = 1..Len(wire) /\ DOMAIN p = 1..Len(p) /\ DOMAIN wire' = 1..Len(wire) + Len(p)
         /\ \A i \in DOMAIN wire : wire'[i] = wire[i]
         /\ \A i \in DOMAIN p : wire'[Len(wire) + i] = [kind |-> p[i], cmd |-> c, victim |-> v]
         /\ \A i \in DOMAIN wire' : i \in DOMAIN wire \/ i - Len(wire) \in DOMAIN p
         /\ \A d, k : Coming(d, k)' <=> Coming(d, k) \/ (d = c /\ k \in Range(p))
<1> DEFINE q == [i \in DOMAIN p |-> [kind |-> p[i], cmd |-> c, victim |-> v]]
           n == Len(wire)
<1>1. n \in Nat /\ DOMAIN wire = 1..n /\ wire \in Seq(Events)
  BY Positions DEF Types
<1>2. Len(p) \in Nat /\ DOMAIN p = 1..Len(p) /\ \A i \in DOMAIN p : p[i] \in Kinds
  BY LenProperties, ElementOfSeq
<1>3. q \in Seq(Events) /\ Len(q) = Len(p) /\ DOMAIN q = DOMAIN p
  <2>1. q \in [1..Len(p) -> Events]
    BY <1>2 DEF Events
  <2>2. [1..Len(p) -> Events] \subseteq Seq(Events)
    BY <1>2, SeqDef
  <2>3. q \in Seq(Events) /\ DOMAIN q = 1..Len(p)
    BY <2>1, <2>2
  <2> HIDE DEF q
  <2>4. Len(q) \in Nat /\ DOMAIN q = 1..Len(q)
    BY <2>3, LenProperties
  <2>5. Len(q) = Len(p)
    BY <1>2, <2>3, <2>4
  <2>6. QED
    BY <1>2, <2>3, <2>5
<1>4. wire' = wire \o q
  BY DEF Emit
<1>5. \A i \in DOMAIN p : q[i] = [kind |-> p[i], cmd |-> c, victim |-> v]
  OBVIOUS
<1> HIDE DEF q
<1>6. /\ wire' \in Seq(Events) /\ Len(wire') = n + Len(p)
      /\ \A i \in 1..n + Len(p) : wire'[i] = IF i <= n THEN wire[i] ELSE q[i - n]
  <2>1. /\ wire \o q \in Seq(Events) /\ Len(wire \o q) = Len(wire) + Len(q)
        /\ \A i \in 1..Len(wire) + Len(q) :
             (wire \o q)[i] = IF i <= Len(wire) THEN wire[i] ELSE q[i - Len(wire)]
    BY <1>1, <1>3, ConcatProperties
  <2>2. QED
    BY <1>3, <1>4, <2>1
<1>7. DOMAIN wire' = 1..n + Len(p)
  BY <1>6, LenProperties
<1>8. \A i \in DOMAIN wire : wire'[i] = wire[i] /\ i \in DOMAIN wire'
  BY <1>1, <1>2, <1>6, <1>7
<1>9. ASSUME NEW i \in DOMAIN p
      PROVE  n + i \in DOMAIN wire' /\ wire'[n + i] = [kind |-> p[i], cmd |-> c, victim |-> v]
  <2>1. n + i \in 1..n + Len(p) /\ ~(n + i <= n) /\ (n + i) - n = i
    BY <1>1, <1>2
  <2>2. wire'[n + i] = q[i]
    BY <1>6, <2>1
  <2>3. QED
    BY <1>5, <1>7, <2>1, <2>2
<1>10. ASSUME NEW i \in DOMAIN wire', i \notin DOMAIN wire
       PROVE  i - n \in DOMAIN p /\ n + (i - n) = i
  BY <1>1, <1>2, <1>7, <1>10
<1>11. ASSUME NEW d, NEW k PROVE Coming(d, k)' <=> Coming(d, k) \/ (d = c /\ k \in Range(p))
  <2>1. ASSUME Coming(d, k)' PROVE Coming(d, k) \/ (d = c /\ k \in Range(p))
    <3>1. PICK i \in DOMAIN wire' : wire'[i].cmd = d /\ wire'[i].kind = k
      BY <2>1 DEF Coming
    <3>2. CASE i \in DOMAIN wire
      BY <1>8, <3>1, <3>2 DEF Coming
    <3>3. CASE i \notin DOMAIN wire
      <4>1. i - n \in DOMAIN p /\ n + (i - n) = i
        BY <1>10, <3>3
      <4>2. wire'[n + (i - n)] = [kind |-> p[i - n], cmd |-> c, victim |-> v]
        BY <1>9, <4>1
      <4>3. wire'[i] = [kind |-> p[i - n], cmd |-> c, victim |-> v]
        BY <4>1, <4>2
      <4> HIDE DEF n
      <4>4. p[i - n] = k /\ d = c
        BY <3>1, <4>3
      <4>5. QED
        BY <4>1, <4>4 DEF Range
    <3>4. QED
      BY <3>2, <3>3
  <2>2. Coming(d, k) => Coming(d, k)'
    BY <1>8 DEF Coming
  <2>3. ASSUME d = c, k \in Range(p) PROVE Coming(d, k)'
    <3>1. PICK i \in DOMAIN p : p[i] = k
      BY <2>3 DEF Range
    <3>2. n + i \in DOMAIN wire' /\ wire'[n + i] = [kind |-> p[i], cmd |-> c, victim |-> v]
      BY <1>9
    <3>3. PICK j \in DOMAIN wire' : wire'[j] = [kind |-> p[i], cmd |-> c, victim |-> v]
      BY <3>2
    <3>4. wire'[j].cmd = d /\ wire'[j].kind = k
      BY <2>3, <3>1, <3>3
    <3>5. QED
      BY <3>4 DEF Coming
  <2>4. QED
    BY <2>1, <2>2, <2>3
<1>12. \A i \in DOMAIN wire' : i \in DOMAIN wire \/ i - n \in DOMAIN p
  BY <1>10
<1>13. QED
  BY <1>1, <1>2, <1>6, <1>7, <1>8, <1>9, <1>11, <1>12

\* The regular patterns.
LEMMA Regular ==
  ASSUME NEW p \in RegularPatterns
  PROVE  /\ p \in Seq(Kinds) /\ "impact" \in Range(p)
         /\ \A i, j \in DOMAIN p : i < j => Rank(p[i]) < Rank(p[j])
         /\ "hurt" \notin Range(p) => \A i \in DOMAIN p : p[i] = "impact"
<1> DEFINE a == <<"impact">>
           b == <<"impact", "hurt">>
           c == <<"impact", "report", "hurt">>
<1>1. p = a \/ p = b \/ p = c
  BY DEF RegularPatterns
<1>2. /\ a \in Seq(Kinds) /\ b \in Seq(Kinds) /\ c \in Seq(Kinds)
  BY DEF Kinds
<1>3. /\ DOMAIN a = {1} /\ a[1] = "impact"
      /\ DOMAIN b = {1, 2} /\ b[1] = "impact" /\ b[2] = "hurt"
      /\ DOMAIN c = {1, 2, 3} /\ c[1] = "impact" /\ c[2] = "report" /\ c[3] = "hurt"
  OBVIOUS
<1> HIDE DEF a, b, c
<1>4. CASE p = a
  BY <1>2, <1>3, <1>4 DEF Range
<1>5. CASE p = b
  BY <1>2, <1>3, <1>5 DEF Range, Rank
<1>6. CASE p = c
  BY <1>2, <1>3, <1>6 DEF Range, Rank
<1>7. QED
  BY <1>1, <1>4, <1>5, <1>6

\* A round is fired: what the host will tell of it comes after all else.
LEMMA RoundFired ==
  ASSUME Types, Worldly, NEW c \in Rounds, NEW p \in Seq(Kinds), NEW v \in Victims(p), Emit(c, p, v),
         \A i \in DOMAIN wire : wire[i].cmd < c,
         rounds' \in Seq(Rolls), c \in DOMAIN rounds', DOMAIN rounds \subseteq DOMAIN rounds',
         rounds'[c].hit = v, \A d \in DOMAIN rounds : d # c => rounds'[d] = rounds[d],
         ~rounds'[c].odd => p \in RegularPatterns,
         \A i \in DOMAIN firing' : c < firing'[i] /\ \A j \in DOMAIN wire : wire[j].cmd < firing'[i]
  PROVE  /\ wire' \in Seq(Events) /\ WireInOrder'
         /\ \A d, k : Coming(d, k)' <=> Coming(d, k) \/ (d = c /\ k \in Range(p))
         /\ (\E i \in DOMAIN wire' : wire'[i].cmd = c) => p # <<>>
         /\ \A d : d # c => ((\E i \in DOMAIN wire' : wire'[i].cmd = d) <=> \E i \in DOMAIN wire : wire[i].cmd = d)
         /\ \A i \in DOMAIN wire' : wire'[i].cmd = c \/ \E j \in DOMAIN wire : wire'[i].cmd = wire[j].cmd
         /\ v \in {None} \cup Players /\ ("hurt" \in Range(p) <=> v # None)
<1> DEFINE n == Len(wire)
<1>0. v \in {None} \cup Players /\ ("hurt" \in Range(p) <=> v # None)
  BY Consts DEF Victims
<1>1. /\ wire' \in Seq(Events) /\ n \in Nat /\ Len(p) \in Nat
      /\ DOMAIN wire = 1..n /\ DOMAIN p = 1..Len(p) /\ DOMAIN wire' = 1..n + Len(p)
      /\ \A i \in DOMAIN wire : wire'[i] = wire[i]
      /\ \A i \in DOMAIN p : wire'[n + i] = [kind |-> p[i], cmd |-> c, victim |-> v]
      /\ \A i \in DOMAIN wire' : i \in DOMAIN wire \/ i - n \in DOMAIN p
      /\ \A d, k : Coming(d, k)' <=> Coming(d, k) \/ (d = c /\ k \in Range(p))
  BY <1>0, WireGrows
<1>2. \A i \in DOMAIN wire : wire[i] \in Events /\ wire[i].cmd \in Nat /\ wire[i].cmd # c
  BY Positions, Consts, KindsAre
<1>3. ASSUME NEW i \in DOMAIN wire', i \notin DOMAIN wire
      PROVE  /\ i - n \in DOMAIN p /\ n < i
             /\ wire'[i] = [kind |-> p[i - n], cmd |-> c, victim |-> v]
  <2>1. i - n \in DOMAIN p /\ n + (i - n) = i /\ n < i
    BY <1>1, <1>3
  <2>2. wire'[n + (i - n)] = [kind |-> p[i - n], cmd |-> c, victim |-> v]
    BY <1>1, <2>1
  <2>3. QED
    BY <2>1, <2>2
<1>4. WireInOrder
  BY DEF Worldly
<1>5. c \in Nat
  BY Consts
<1>6. ASSUME NEW i \in DOMAIN wire', NEW j \in DOMAIN wire', i < j
      PROVE  /\ wire'[i].cmd <= wire'[j].cmd
             /\ wire'[i].cmd = wire'[j].cmd /\ Even(wire'[i].cmd) /\ wire'[i].cmd # c =>
                  Rank(wire'[i].kind) < Rank(wire'[j].kind)
             /\ wire'[i].cmd = wire'[j].cmd /\ wire'[i].cmd = c /\ ~rounds'[c].odd =>
                  Rank(wire'[i].kind) < Rank(wire'[j].kind)
  <2>1. CASE j \in DOMAIN wire
    <3>1. i \in DOMAIN wire /\ wire'[i] = wire[i] /\ wire'[j] = wire[j]
      BY <1>1, <1>6, <2>1
    <3>2. QED
      BY <1>2, <1>4, <1>6, <2>1, <3>1 DEF WireInOrder
  <2>2. CASE j \notin DOMAIN wire /\ i \in DOMAIN wire
    BY <1>1, <1>2, <1>3, <1>5, <2>2
  <2>3. CASE j \notin DOMAIN wire /\ i \notin DOMAIN wire
    <3>1. i - n < j - n
      BY <1>1, <1>6
    <3>2. ~rounds'[c].odd => Rank(p[i - n]) < Rank(p[j - n])
      BY <1>3, <2>3, <3>1, Regular
    <3>3. QED
      BY <1>3, <1>5, <2>3, <3>2
  <2>4. QED
    BY <2>1, <2>2, <2>3
<1>7. ASSUME NEW i \in DOMAIN wire', NEW d, d = wire'[i].cmd
      PROVE  /\ d \in DOMAIN rounds' /\ wire'[i].victim = rounds'[d].hit
             /\ wire'[i].kind = "hurt" => wire'[i].victim \in Players
             /\ ~rounds'[d].odd => IF wire'[i].victim = None THEN wire'[i].kind = "impact"
                                   ELSE Coming(d, "hurt")'
             /\ \A j \in DOMAIN firing' : d < firing'[j]
  <2>1. CASE i \in DOMAIN wire
    <3>1. wire'[i] = wire[i] /\ d = wire[i].cmd /\ d # c
      BY <1>1, <1>2, <1>7, <2>1
    <3>2. d \in DOMAIN rounds /\ rounds'[d] = rounds[d]
      BY <1>4, <2>1, <3>1 DEF WireInOrder
    <3>3. /\ wire[i].victim = rounds[d].hit
          /\ wire[i].kind = "hurt" => wire[i].victim \in Players
          /\ ~rounds[d].odd => IF wire[i].victim = None THEN wire[i].kind = "impact" ELSE Coming(d, "hurt")
      BY <1>4, <2>1, <3>1 DEF WireInOrder, Even
    <3>4. QED
      BY <1>1, <2>1, <3>1, <3>2, <3>3
  <2>2. CASE i \notin DOMAIN wire
    <3>1. /\ i - n \in DOMAIN p /\ d = c
          /\ wire'[i].kind = p[i - n] /\ wire'[i].victim = v
      BY <1>3, <1>7, <2>2
    <3>2. p[i - n] \in Range(p)
      BY <3>1 DEF Range
    <3>3. ~rounds'[c].odd /\ v = None => p[i - n] = "impact"
      BY <1>0, <3>1, Regular
    <3>4. v # None => Coming(c, "hurt")'
      BY <1>0, <1>1
    <3>5. QED
      BY <1>0, <3>1, <3>2, <3>3, <3>4
  <2>3. QED
    BY <2>1, <2>2
<1>8. WireInOrder'
  <2>1. \A i \in DOMAIN wire' : wire'[i].cmd # c => rounds'[wire'[i].cmd] = rounds[wire'[i].cmd]
    <3> SUFFICES ASSUME NEW i \in DOMAIN wire', wire'[i].cmd # c
                 PROVE  rounds'[wire'[i].cmd] = rounds[wire'[i].cmd]
      OBVIOUS
    <3>1. i \in DOMAIN wire /\ wire'[i] = wire[i]
      BY <1>1, <1>3
    <3>2. QED
      BY <1>4, <3>1 DEF WireInOrder
  <2>2. \A i, j \in DOMAIN wire' : i < j => wire'[i].cmd <= wire'[j].cmd
    BY <1>6
  <2>3. \A i, j \in DOMAIN wire' : i < j /\ wire'[i].cmd = wire'[j].cmd /\ ~rounds'[wire'[i].cmd].odd =>
                                     Rank(wire'[i].kind) < Rank(wire'[j].kind)
    BY <1>6, <2>1 DEF Even
  <2>4. \A i \in DOMAIN wire' :
          /\ wire'[i].cmd \in DOMAIN rounds' /\ wire'[i].victim = rounds'[wire'[i].cmd].hit
          /\ wire'[i].kind = "hurt" => wire'[i].victim \in Players
          /\ ~rounds'[wire'[i].cmd].odd =>
               IF wire'[i].victim = None THEN wire'[i].kind = "impact"
               ELSE \E j \in DOMAIN wire' : wire'[j].cmd = wire'[i].cmd /\ wire'[j].kind = "hurt"
          /\ \A j \in DOMAIN firing' : wire'[i].cmd < firing'[j]
    BY <1>7 DEF Coming
  <2>5. QED
    BY <2>2, <2>3, <2>4 DEF WireInOrder, Even, Coming
<1>9. \A i \in DOMAIN wire' : wire'[i].cmd = c \/ \E j \in DOMAIN wire : wire'[i].cmd = wire[j].cmd
  BY <1>1, <1>3
<1>10. (\E i \in DOMAIN wire' : wire'[i].cmd = c) => p # <<>>
  <2> SUFFICES ASSUME NEW i \in DOMAIN wire', wire'[i].cmd = c, p = <<>> PROVE FALSE
    OBVIOUS
  <2>1. i \in DOMAIN wire
    BY <1>1, <1>3
  <2>2. QED
    BY <1>1, <1>2, <2>1
<1>11. \A d : d # c => ((\E i \in DOMAIN wire' : wire'[i].cmd = d) <=> \E i \in DOMAIN wire : wire[i].cmd = d)
  <2>1. \A i \in DOMAIN wire : i \in DOMAIN wire' /\ wire'[i] = wire[i]
    BY <1>1
  <2>2. QED
    BY <1>9, <2>1
<1>12. QED
  BY <1>0, <1>1, <1>8, <1>9, <1>10, <1>11

\* The first record that is not confirmed is, in terms of the set of records.
LEMMA Confirms ==
  ASSUME Types, Sorted(records), records' = ConfirmFirst
  PROVE  /\ records' \in Seq(Shots) /\ Sorted(records')
         /\ \/ records' = records /\ \A r \in Range(records) : r.confirmed
            \/ \E e \in Range(records) :
                 /\ ~e.confirmed /\ \A r \in Range(records) : r.cmd < e.cmd => r.confirmed
                 /\ Range(records') = (Range(records) \ {e}) \cup {[e EXCEPT !.confirmed = TRUE]}
<1>1. records \in Seq(Shots)
  BY DEF Types
<1>2. CASE records' = records /\ \A r \in Range(records) : r.confirmed
  BY <1>1, <1>2
<1>3. ASSUME NEW k \in DOMAIN records, ~records[k].confirmed,
             \A r \in Range(records) : r.cmd < records[k].cmd => r.confirmed,
             records' = [records EXCEPT ![k] = [records[k] EXCEPT !.confirmed = TRUE]]
      PROVE  /\ records' \in Seq(Shots) /\ Sorted(records')
             /\ \E e \in Range(records) :
                  /\ ~e.confirmed /\ \A r \in Range(records) : r.cmd < e.cmd => r.confirmed
                  /\ Range(records') = (Range(records) \ {e}) \cup {[e EXCEPT !.confirmed = TRUE]}
  <2> DEFINE e == records[k]
             x == [e EXCEPT !.confirmed = TRUE]
  <2>1. e \in Shots /\ e \in Range(records)
    BY Positions
  <2>2. x \in Shots /\ x.cmd = e.cmd
    BY <2>1 DEF Shots
  <2>3. records' = [records EXCEPT ![k] = x]
    BY <1>3
  <2> HIDE DEF x
  <2>4. records' = Put(records, k, x)
    BY <2>3 DEF Put
  <2>5. /\ records' \in Seq(Shots) /\ Sorted(records')
        /\ Range(records') = (Range(records) \ {e}) \cup {x}
    BY <1>1, <2>2, <2>4, Edited
  <2>6. QED
    BY <1>3, <2>1, <2>4, <2>5 DEF x
<1>4. QED
  BY <1>1, <1>2, <1>3, ConfirmDoes

\* The records that had to go for a new one of round c.
Loses(lost, c, v) ==
  /\ lost \in SUBSET Range(records)
  /\ Range(records') = (Range(records) \ lost) \cup {Record(c, v)}
  /\ \A d \in Rounds : verdict'[d] = IF \E r \in lost : r.cmd = d /\ ~r.resolved
                                       THEN "dropped" ELSE verdict[d]
  /\ ~orphan' => ~orphan /\ \A r \in lost : ~Awaited(r.cmd)

\* A trigger command is sent.
LEMMA BoomDoes ==
  ASSUME Types, World, Sorted(records), \A r \in Range(records) : r.cmd \in DOMAIN rounds,
         NEW v \in Players, \E fires \in BOOLEAN : OnBoom(v, fires), NEW c, c = Len(rounds) + 1
  PROVE  /\ Types' /\ Worldly' /\ game = Idle /\ game' = game /\ reports' = reports
         /\ c \in Rounds /\ c \notin DOMAIN rounds /\ \A d \in DOMAIN rounds : d < c
         /\ DOMAIN rounds' = DOMAIN rounds \cup {c} /\ \A d \in DOMAIN rounds : rounds'[d] = rounds[d]
         /\ rounds'[c].target = v /\ rounds'[c].hit = None /\ (rounds'[c].aimed <=> ~rounds'[c].odd)
         /\ \A d : Before(d) => Before(d)'
         /\ \A d : Unfired(d)' <=> Unfired(d) \/ (rounds'[c].aimed /\ d = c)
         /\ \A d, k : Coming(d, k)' <=> Coming(d, k)
         /\ \A d : Awaited(d)' <=> Awaited(d) \/ (rounds'[c].aimed /\ d = c)
         /\ Record(c, v) \in Shots /\ Sorted(records')
         /\ \E lost : Loses(lost, c, v)
         /\ ~mixed' => ~mixed /\ \A d \in DOMAIN rounds : Live(d) => rounds'[c].aimed /\ Even(d)
         /\ UNCHANGED <<tied, misplaced, overlooked>>
<1>0. PICK fires \in BOOLEAN : OnBoom(v, fires)
  OBVIOUS
<1> DEFINE e == Record(c, v)
           made == Append(records, e)
           lost == IF Len(made) > Capacity THEN {Head(made)} ELSE {}
           roll == [aimed |-> fires, target |-> v, hit |-> None, odd |-> ~fires]
<1>1. /\ game = Idle /\ c \in Rounds
      /\ records' = Bounded(made) /\ rounds' = Append(rounds, roll)
      /\ firing' = IF fires THEN Append(firing, c) ELSE firing
      /\ verdict' = [d \in Rounds |-> IF \E r \in lost : r.cmd = d /\ ~r.resolved
                                        THEN "dropped" ELSE verdict[d]]
      /\ orphan' = (orphan \/ \E r \in lost : Awaited(r.cmd))
      /\ mixed' = (mixed \/ Overlap(c, ~fires))
      /\ UNCHANGED <<reports, game, wire, tied, misplaced, overlooked>>
  BY <1>0 DEF OnBoom
<1>2. /\ Len(rounds) \in Nat /\ DOMAIN rounds = 1..Len(rounds)
      /\ \A i \in DOMAIN firing : firing[i] \in Nat
      /\ \A r \in Range(records) : r.cmd \in Nat
  BY Positions, Consts DEF Shots
<1>3. c \notin DOMAIN rounds /\ \A d \in DOMAIN rounds : d < c
  BY <1>2
<1>4. e \in Shots /\ e.cmd = c
  BY <1>1, Consts DEF Record, Shots
<1>5. roll \in Rolls
  BY Consts DEF Rolls
<1> HIDE DEF e, roll
<1>6. /\ rounds' \in Seq(Rolls) /\ DOMAIN rounds' = DOMAIN rounds \cup {c} /\ Len(rounds') = c
      /\ (\A d \in DOMAIN rounds : rounds'[d] = rounds[d]) /\ rounds'[c] = roll
  <2>1. /\ Append(rounds, roll) \in Seq(Rolls) /\ DOMAIN Append(rounds, roll) = 1..Len(rounds) + 1
        /\ Len(Append(rounds, roll)) = Len(rounds) + 1
        /\ (\A i \in DOMAIN rounds : Append(rounds, roll)[i] = rounds[i])
        /\ Append(rounds, roll)[Len(rounds) + 1] = roll
    BY <1>5, Appended DEF Types
  <2>2. 1..Len(rounds) + 1 = DOMAIN rounds \cup {c}
    BY <1>2
  <2>3. QED
    BY <1>1, <2>1, <2>2
<1>7. /\ firing' \in Seq(Rounds) /\ \A i \in DOMAIN firing : i \in DOMAIN firing' /\ firing'[i] = firing[i]
      /\ \A i \in DOMAIN firing' : i \in DOMAIN firing \/ (fires /\ firing'[i] = c /\ \A j \in DOMAIN firing' : j <= i)
      /\ fires => \E i \in DOMAIN firing' : firing'[i] = c
  <2>1. CASE fires
    <3>1. /\ firing' \in Seq(Rounds) /\ DOMAIN firing' = 1..Len(firing) + 1 /\ DOMAIN firing = 1..Len(firing)
          /\ Len(firing) \in Nat
          /\ (\A i \in DOMAIN firing : firing'[i] = firing[i]) /\ firing'[Len(firing) + 1] = c
      BY <1>1, <2>1, Appended, SMTT(30) DEF Types
    <3>2. \A i \in DOMAIN firing' : i \in DOMAIN firing \/ i = Len(firing) + 1
      BY <3>1
    <3>3. /\ Len(firing) + 1 \in DOMAIN firing' /\ \A j \in DOMAIN firing' : j <= Len(firing) + 1
          /\ \A j \in DOMAIN firing : j \in DOMAIN firing'
      BY <3>1
    <3>4. QED
      BY <2>1, <3>1, <3>2, <3>3
  <2>2. CASE ~fires
    BY <1>1, <2>2 DEF Types
  <2>3. QED
    BY <2>1, <2>2
<1>8. FiringInOrder /\ Aiming /\ WireInOrder
  BY DEF World
<1>9. \A i \in DOMAIN firing : firing[i] \in DOMAIN rounds /\ firing[i] < c /\ firing[i] \in Nat
  BY <1>2, <1>3, <1>8 DEF FiringInOrder
<1>10. FiringInOrder'
  <2>1. ASSUME NEW i \in DOMAIN firing', NEW j \in DOMAIN firing', i < j PROVE firing'[i] < firing'[j]
    <3>0. DOMAIN firing = 1..Len(firing) /\ Len(firing) \in Nat /\ DOMAIN firing' \subseteq Nat
      <4>1. Len(firing') \in Nat /\ DOMAIN firing' = 1..Len(firing')
        BY <1>7, LenProperties
      <4>2. QED
        BY <4>1, Positions
    <3>1. i \in DOMAIN firing
      <4>1. i \in Nat /\ j \in Nat /\ ~(j <= i)
        BY <2>1, <3>0
      <4>2. QED
        BY <1>7, <4>1
    <3>2. CASE j \in DOMAIN firing
      BY <1>7, <1>8, <2>1, <3>1, <3>2 DEF FiringInOrder
    <3>3. CASE j \notin DOMAIN firing
      BY <1>7, <1>9, <3>1, <3>3
    <3>4. QED
      BY <3>2, <3>3
  <2>2. ASSUME NEW i \in DOMAIN firing'
        PROVE  /\ firing'[i] \in DOMAIN rounds' /\ rounds'[firing'[i]].aimed
               /\ rounds'[firing'[i]].hit = None /\ ~rounds'[firing'[i]].odd
    <3>1. CASE i \in DOMAIN firing
      BY <1>6, <1>7, <1>8, <3>1 DEF FiringInOrder, Even
    <3>2. CASE i \notin DOMAIN firing
      <4>1. fires /\ firing'[i] = c
        BY <1>7, <3>2
      <4>2. rounds'[c].aimed /\ rounds'[c].hit = None /\ ~rounds'[c].odd
        <5>1. roll.aimed = fires /\ roll.hit = None /\ roll.odd = ~fires
          BY DEF roll
        <5> HIDE DEF roll
        <5>2. QED
          BY <1>6, <4>1, <5>1
      <4>3. QED
        BY <1>6, <4>1, <4>2
    <3>3. QED
      BY <3>1, <3>2
  <2>3. QED
    BY <2>1, <2>2 DEF FiringInOrder, Even
<1>11. Aiming'
  <2>1. ASSUME NEW d \in DOMAIN rounds'
        PROVE  /\ rounds'[d].aimed => rounds'[d].target \in Players
               /\ ~rounds'[d].odd => rounds'[d].aimed /\ rounds'[d].hit \in {None, rounds'[d].target}
    <3>1. CASE d = c
      <4>1. /\ roll.aimed = fires /\ roll.target = v /\ roll.hit = None /\ roll.odd = ~fires
        BY DEF roll
      <4>2. rounds'[d] = roll
        BY <1>6, <3>1
      <4> HIDE DEF roll
      <4>3. rounds'[d].target \in Players
        BY <4>1, <4>2
      <4>4. ~rounds'[d].odd => rounds'[d].aimed
        <5>1. CASE fires
          BY <4>1, <4>2, <5>1
        <5>2. CASE ~fires
          BY <4>1, <4>2, <5>2
        <5>3. QED
          BY <5>1, <5>2
      <4>5. rounds'[d].hit = None
        BY <4>1, <4>2
      <4>6. QED
        BY <4>3, <4>4, <4>5
    <3>2. CASE d # c
      <4>1. d \in DOMAIN rounds /\ rounds'[d] = rounds[d]
        BY <1>6, <3>2
      <4>2. QED
        BY <1>8, <4>1 DEF Aiming, Even
    <3>3. QED
      BY <3>1, <3>2
  <2>2. QED
    BY <2>1 DEF Aiming, Even
<1>12. \A d : Unfired(d)' <=> Unfired(d) \/ (fires /\ d = c)
  BY <1>7 DEF Unfired
<1>13. \A d, k : Coming(d, k)' <=> Coming(d, k)
  BY <1>1 DEF Coming
<1>14. \A d : Awaited(d)' <=> Awaited(d) \/ (fires /\ d = c)
  <2>1. \A d : Awaited(d)' <=> Unfired(d)' \/ \E i \in DOMAIN wire' : wire'[i].cmd = d
    BY DEF Awaited, Unfired, Range
  <2>2. QED
    BY <1>1, <1>12, <2>1, AwaitedIs
<1>15. WireInOrder'
  <2>1. wire' = wire
    BY <1>1
  <2>2. \A i \in DOMAIN wire : wire[i].cmd \in DOMAIN rounds /\ wire[i].cmd < c
    BY <1>3, <1>8 DEF WireInOrder
  <2>3. \A i \in DOMAIN wire : /\ wire[i].cmd \in DOMAIN rounds' /\ rounds'[wire[i].cmd] = rounds[wire[i].cmd]
                               /\ \A j \in DOMAIN firing' : wire[i].cmd < firing'[j]
    <3> SUFFICES ASSUME NEW i \in DOMAIN wire, NEW j \in DOMAIN firing' PROVE wire[i].cmd < firing'[j]
      BY <1>6, <2>2
    <3>1. CASE j \in DOMAIN firing
      BY <1>7, <1>8, <3>1 DEF WireInOrder
    <3>2. CASE j \notin DOMAIN firing
      BY <1>7, <2>2, <3>2
    <3>3. QED
      BY <3>1, <3>2
  <2>4. QED
    BY <1>8, <2>1, <2>3 DEF WireInOrder, Even, Coming
<1>16. \A d : Before(d) => Before(d)'
  <2>1. wire' = wire
    BY <1>1
  <2> SUFFICES ASSUME NEW d, Before(d)
               PROVE  /\ d = None \/ d \in DOMAIN rounds'
                      /\ \A i \in DOMAIN wire : d <= wire[i].cmd
                      /\ \A i \in DOMAIN firing' : d < firing'[i]
    BY <2>1 DEF Before
  <2>2. d = None \/ d \in DOMAIN rounds
    BY DEF Before
  <2>3. d < c
    BY <1>1, <1>3, <2>2, Consts
  <2>4. QED
    BY <1>6, <1>7, <2>2, <2>3 DEF Before
<1>17. \A r \in Range(records) : r.cmd < e.cmd
  BY <1>3, <1>4
<1>18. PICK u : u = made
  OBVIOUS
<1>19. PICK w : w = IF Len(u) > Capacity THEN {Head(u)} ELSE {}
  OBVIOUS
<1>20. w = lost
  BY <1>18, <1>19
<1>21. /\ Bounded(u) \in Seq(Shots) /\ Sorted(Bounded(u)) /\ w \subseteq Range(records)
       /\ Range(Bounded(u)) = (Range(records) \ w) \cup {e}
  BY <1>4, <1>17, <1>18, <1>19, RecordMade DEF Types
<1>22. records' = Bounded(u)
  BY <1>1, <1>18
<1>23. \A d \in Rounds : verdict'[d] = IF \E r \in w : r.cmd = d /\ ~r.resolved THEN "dropped" ELSE verdict[d]
  BY <1>1, <1>20
<1>24. verdict' \in [Rounds -> Verdicts]
  BY <1>1 DEF Types, Verdicts
<1>25. ~orphan' => ~orphan /\ \A r \in w : ~Awaited(r.cmd)
  BY <1>1, <1>20
<1>26. ~mixed' => ~mixed /\ \A d \in DOMAIN rounds : Live(d) => fires /\ Even(d)
  BY <1>1, <1>3 DEF Overlap, Even
<1>27. Types'
  <2>1. c <= MaxRounds
    BY <1>1, Consts
  <2>2. QED
    BY <1>1, <1>6, <1>7, <1>21, <1>22, <1>24, <2>1 DEF Types
<1>28. \E l : Loses(l, c, v)
  <2>1. w \in SUBSET Range(records) /\ Range(records') = (Range(records) \ w) \cup {Record(c, v)}
    BY <1>21, <1>22 DEF e
  <2> HIDE DEF lost, made, e
  <2>2. Loses(w, c, v)
    BY <1>23, <1>25, <2>1 DEF Loses
  <2>3. QED
    BY <2>2
<1>29. /\ rounds'[c].aimed <=> fires
       /\ rounds'[c].odd <=> ~fires
       /\ rounds'[c].target = v /\ rounds'[c].hit = None
  <2>1. roll.aimed = fires /\ roll.target = v /\ roll.hit = None /\ roll.odd = ~fires
    BY DEF roll
  <2> HIDE DEF roll
  <2>2. rounds'[c] = roll
    BY <1>6
  <2>3. QED
    BY <2>1, <2>2
<1>30. Worldly'
  BY <1>10, <1>11, <1>15 DEF Worldly
<1>31. UNCHANGED <<tied, misplaced, overlooked>> /\ game' = game /\ reports' = reports
  BY <1>1
<1>32. Record(c, v) \in Shots /\ Sorted(records') /\ Record(c, v) = e
  BY <1>4, <1>21, <1>22 DEF e
<1>33. /\ \A d : Unfired(d)' <=> Unfired(d) \/ (rounds'[c].aimed /\ d = c)
       /\ \A d : Awaited(d)' <=> Awaited(d) \/ (rounds'[c].aimed /\ d = c)
       /\ ~mixed' => ~mixed /\ \A d \in DOMAIN rounds : Live(d) => rounds'[c].aimed /\ Even(d)
  BY <1>12, <1>14, <1>26, <1>29
<1>34. QED
  BY <1>1, <1>3, <1>6, <1>13, <1>16, <1>27, <1>28, <1>29, <1>30, <1>31, <1>32, <1>33

\* What confirming a record comes to; it is an abbreviation for the two lemmas that follow.
Confirmed ==
  /\ records' \in Seq(Shots) /\ Sorted(records')
  /\ \/ records' = records /\ \A r \in Range(records) : r.confirmed
     \/ \E e \in Range(records) :
          /\ ~e.confirmed /\ \A r \in Range(records) : r.cmd < e.cmd => r.confirmed
          /\ Range(records') = (Range(records) \ {e}) \cup {[e EXCEPT !.confirmed = TRUE]}

LEMMA PatternsAre ==
  ASSUME NEW c \in Rounds, NEW p \in Patterns[c] PROVE p \in Seq(Kinds)
<1>1. Patterns[c] \in SUBSET Seq({"impact", "report", "hurt"})
  BY ImpactsAssumption DEF Rounds
<1>2. QED
  BY <1>1 DEF Kinds

\* The weapon fires for a command.
LEMMA FireDoes ==
  ASSUME Types, World, Sorted(records),
         NEW p, NEW v, Fire(p, v), NEW c, c = Head(firing)
  PROVE  /\ Types' /\ Worldly' /\ game = Idle /\ game' = game /\ reports' = reports /\ verdict' = verdict
         /\ c \in DOMAIN rounds /\ Unfired(c) /\ \A d : Unfired(d) => c <= d
         /\ Even(c) /\ rounds[c].aimed /\ rounds[c].hit = None
         /\ DOMAIN rounds' = DOMAIN rounds /\ \A d \in DOMAIN rounds : d # c => rounds'[d] = rounds[d]
         /\ rounds'[c].aimed /\ rounds'[c].target = rounds[c].target /\ rounds'[c].hit = v
         /\ Even(c)' => p \in RegularPatterns /\ v \in {None, rounds[c].target}
         /\ \A d : Before(d) => Before(d)' /\ d < c
         /\ \A d : Unfired(d)' <=> Unfired(d) /\ d # c
         /\ \A d, k : Coming(d, k) => d < c
         /\ \A d, k : Coming(d, k)' <=> Coming(d, k) \/ (d = c /\ k \in Range(p))
         /\ \A d : Awaited(d)' => Awaited(d)
         /\ \A d : d # c => (Awaited(d)' <=> Awaited(d))
         /\ "hurt" \in Range(p) <=> v # None
         /\ Confirmed
         /\ ~mixed' => ~mixed /\ \A d \in DOMAIN rounds : d # c /\ Live(d) => Even(c)' /\ Even(d)
         /\ UNCHANGED <<orphan, tied, misplaced, overlooked>>
<1> DEFINE odd == p \notin RegularPatterns \/ v \notin {None, rounds[c].target}
<1>1. /\ game = Idle /\ firing # <<>> /\ p \in Patterns[c] /\ v \in Victims(p)
      /\ firing' = Tail(firing) /\ Emit(c, p, v) /\ records' = ConfirmFirst
      /\ rounds' = [rounds EXCEPT ![c].hit = v, ![c].odd = odd]
      /\ mixed' = (mixed \/ Overlap(c, odd))
      /\ UNCHANGED <<reports, game, verdict, orphan, tied, misplaced, overlooked>>
  BY DEF Fire
<1>2. /\ firing' \in Seq(Rounds) /\ c = firing[1] /\ c \in Rounds /\ 1 \in DOMAIN firing
      /\ Len(firing) \in Nat \ {0} /\ DOMAIN firing = 1..Len(firing) /\ DOMAIN firing' = 1..Len(firing) - 1
      /\ \A i \in DOMAIN firing' : i + 1 \in DOMAIN firing /\ firing'[i] = firing[i + 1]
  BY <1>1, Shortened DEF Types
<1>3. FiringInOrder /\ Aiming /\ WireInOrder
  BY DEF World
<1>4. /\ c \in DOMAIN rounds /\ rounds[c].aimed /\ rounds[c].hit = None /\ Even(c) /\ rounds[c] \in Rolls
      /\ \A i \in DOMAIN wire : wire[i].cmd < c
      /\ \A i \in DOMAIN firing : i = 1 \/ c < firing[i]
      /\ \A i \in DOMAIN firing : firing[i] \in Nat /\ firing[i] \in DOMAIN rounds
      /\ \A i \in DOMAIN wire : wire[i].cmd \in Nat
      /\ c \in Nat
  <2>1. /\ \A i \in DOMAIN firing : firing[i] \in Nat /\ firing[i] \in DOMAIN rounds
        /\ c \in Nat
    BY <1>2, <1>3, Positions, Consts DEF FiringInOrder
  <2>2. c \in DOMAIN rounds /\ rounds[c].aimed /\ rounds[c].hit = None /\ Even(c) /\ rounds[c] \in Rolls
    BY <1>2, <1>3, Positions DEF FiringInOrder
  <2>3. \A i \in DOMAIN wire : wire[i].cmd < c
    BY <1>2, <1>3 DEF WireInOrder
  <2>4. \A i \in DOMAIN wire : wire[i].cmd \in Nat
    BY Positions, Consts, KindsAre
  <2>5. \A i \in DOMAIN firing : i = 1 \/ 1 < i
    BY <1>2
  <2>6. \A i \in DOMAIN firing : i = 1 \/ c < firing[i]
    BY <1>2, <1>3, <2>5 DEF FiringInOrder
  <2>7. QED
    BY <2>1, <2>2, <2>3, <2>4, <2>6
<1>5. p \in Seq(Kinds) /\ v \in {None} \cup Players
  BY <1>1, <1>2, PatternsAre, Consts DEF Victims
<1>6. /\ rounds' \in Seq(Rolls) /\ DOMAIN rounds' = DOMAIN rounds /\ Len(rounds') = Len(rounds)
      /\ \A d \in DOMAIN rounds : d # c => rounds'[d] = rounds[d]
      /\ rounds'[c].aimed = rounds[c].aimed /\ rounds'[c].target = rounds[c].target
      /\ rounds'[c].hit = v /\ rounds'[c].odd = odd
  <2>1. PICK n : n = odd
    OBVIOUS
  <2>2. n \in BOOLEAN
    BY <2>1
  <2>3. PICK e : e = [rounds[c] EXCEPT !.hit = v, !.odd = n]
    OBVIOUS
  <2>4. rounds' = [rounds EXCEPT ![c] = e]
    BY <1>1, <2>1, <2>3
  <2>5. e \in Rolls
    BY <1>4, <1>5, <2>2, <2>3 DEF Rolls
  <2>6. rounds' \in Seq(Rolls) /\ Len(rounds') = Len(rounds)
    BY <1>4, <2>4, <2>5, ExceptSeq DEF Types
  <2>7. DOMAIN rounds' = DOMAIN rounds /\ rounds'[c] = e /\ \A d \in DOMAIN rounds : d # c => rounds'[d] = rounds[d]
    BY <1>4, <2>4
  <2>8. e.aimed = rounds[c].aimed /\ e.target = rounds[c].target /\ e.hit = v /\ e.odd = n
    BY <1>4, <2>3 DEF Rolls
  <2>9. QED
    BY <2>1, <2>6, <2>7, <2>8
<1>7. ~rounds'[c].odd => p \in RegularPatterns /\ v \in {None, rounds[c].target}
  BY <1>6
<1>8. /\ \A d : Unfired(d)' <=> Unfired(d) /\ d # c
      /\ Unfired(c) /\ \A d : Unfired(d) => c <= d
  <2>1. \A i \in DOMAIN firing : i = 1 \/ (i - 1 \in DOMAIN firing' /\ firing'[i - 1] = firing[i])
    <3> SUFFICES ASSUME NEW i \in DOMAIN firing, i # 1
                 PROVE  i - 1 \in DOMAIN firing' /\ firing'[i - 1] = firing[i]
      OBVIOUS
    <3>1. i - 1 \in DOMAIN firing' /\ (i - 1) + 1 = i
      BY <1>2
    <3>2. firing'[i - 1] = firing[(i - 1) + 1]
      BY <1>2, <3>1
    <3>3. QED
      BY <3>1, <3>2
  <2>2. \A i \in DOMAIN firing' : i + 1 # 1
    BY <1>2
  <2>3. \A i \in DOMAIN firing' : firing'[i] # c
    <3> SUFFICES ASSUME NEW i \in DOMAIN firing' PROVE firing'[i] # c
      OBVIOUS
    <3>1. i + 1 \in DOMAIN firing /\ firing'[i] = firing[i + 1] /\ i + 1 # 1
      BY <1>2, <2>2
    <3>2. c < firing[i + 1] /\ firing[i + 1] \in Nat
      BY <1>4, <3>1
    <3>3. QED
      BY <1>4, <3>1, <3>2
  <2>4. \A d : Unfired(d)' <=> Unfired(d) /\ d # c
    BY <1>2, <2>1, <2>3 DEF Unfired
  <2>5. Unfired(c) /\ \A d : Unfired(d) => c <= d
    BY <1>2, <1>4 DEF Unfired
  <2>6. QED
    BY <2>4, <2>5
<1>9. \A i \in DOMAIN firing' : c < firing'[i] /\ \A j \in DOMAIN wire : wire[j].cmd < firing'[i]
  <2>1. \A i \in DOMAIN firing' : i + 1 # 1
    BY <1>2
  <2>2. QED
    BY <1>2, <1>3, <1>4, <2>1 DEF WireInOrder
<1>10. /\ wire' \in Seq(Events) /\ WireInOrder'
       /\ \A d, k : Coming(d, k)' <=> Coming(d, k) \/ (d = c /\ k \in Range(p))
       /\ \A d : d # c => ((\E i \in DOMAIN wire' : wire'[i].cmd = d) <=> \E i \in DOMAIN wire : wire[i].cmd = d)
       /\ \A i \in DOMAIN wire' : wire'[i].cmd = c \/ \E j \in DOMAIN wire : wire'[i].cmd = wire[j].cmd
       /\ "hurt" \in Range(p) <=> v # None
  <2> HIDE DEF odd
  <2>1. Worldly
    BY <1>3 DEF Worldly
  <2>2. /\ DOMAIN rounds \subseteq DOMAIN rounds' /\ c \in DOMAIN rounds' /\ rounds'[c].hit = v
        /\ \A d \in DOMAIN rounds : d # c => rounds'[d] = rounds[d]
        /\ ~rounds'[c].odd => p \in RegularPatterns
        /\ rounds' \in Seq(Rolls)
    BY <1>4, <1>6, <1>7
  <2>3. \A i \in DOMAIN wire : wire[i].cmd < c
    BY <1>4
  <2>4. v \in Victims(p) /\ Emit(c, p, v) /\ c \in Rounds
    BY <1>1, <1>2
  <2>5. "hurt" \in Range(p) <=> v # None
    BY <1>5, <2>4, Consts DEF Victims
  <2>6. /\ wire' \in Seq(Events) /\ WireInOrder'
        /\ \A d, k : Coming(d, k)' <=> Coming(d, k) \/ (d = c /\ k \in Range(p))
        /\ \A d : d # c => ((\E i \in DOMAIN wire' : wire'[i].cmd = d) <=> \E i \in DOMAIN wire : wire[i].cmd = d)
        /\ \A i \in DOMAIN wire' : wire'[i].cmd = c \/ \E j \in DOMAIN wire : wire'[i].cmd = wire[j].cmd
    BY <1>5, <1>9, <2>1, <2>2, <2>3, <2>4, RoundFired, ZenonT(60)
  <2>7. QED
    BY <2>5, <2>6
<1>11. \A d : Awaited(d)' <=> Unfired(d)' \/ \E i \in DOMAIN wire' : wire'[i].cmd = d
  BY DEF Awaited, Unfired, Range
<1>12. /\ \A d : Awaited(d)' => Awaited(d)
       /\ \A d : d # c => (Awaited(d)' <=> Awaited(d))
  BY <1>8, <1>10, <1>11, AwaitedIs
<1>13. \A d : Before(d) => Before(d)' /\ d < c
  <2> SUFFICES ASSUME NEW d, Before(d) PROVE Before(d)' /\ d < c
    OBVIOUS
  <2>1. d < c /\ d \in Nat
    <3>1. d = None \/ d \in DOMAIN rounds
      BY DEF Before
    <3>2. d \in Nat
      BY <3>1, Positions, Consts
    <3>3. d < c
      BY <1>2 DEF Before
    <3>4. QED
      BY <3>2, <3>3
  <2>2. \A i \in DOMAIN wire' : d <= wire'[i].cmd
    BY <1>4, <1>10, <2>1 DEF Before
  <2>3. \A i \in DOMAIN firing' : d < firing'[i]
    BY <1>2 DEF Before
  <2>4. QED
    BY <1>6, <2>1, <2>2, <2>3 DEF Before
<1>14. FiringInOrder'
  <2>1. \A i \in DOMAIN firing' : firing'[i] # c /\ firing'[i] \in DOMAIN rounds
    BY <1>2, <1>4, <1>9
  <2>2. \A i, j \in DOMAIN firing' : i < j => i + 1 < j + 1
    BY <1>2
  <2>3. QED
    BY <1>2, <1>3, <1>6, <2>1, <2>2 DEF FiringInOrder, Even
<1>15. Aiming'
  <2>1. ASSUME NEW d \in DOMAIN rounds'
        PROVE  /\ rounds'[d].aimed => rounds'[d].target \in Players
               /\ ~rounds'[d].odd => rounds'[d].aimed /\ rounds'[d].hit \in {None, rounds'[d].target}
    <3> HIDE DEF odd
    <3>1. CASE d = c
      BY <1>3, <1>4, <1>6, <1>7, <3>1 DEF Aiming
    <3>2. CASE d # c
      BY <1>3, <1>6, <3>2 DEF Aiming, Even
    <3>3. QED
      BY <3>1, <3>2
  <2>2. QED
    BY <2>1 DEF Aiming, Even
<1>16. Confirmed
  BY <1>1, Confirms DEF Confirmed
<1>17. ~mixed' => ~mixed /\ \A d \in DOMAIN rounds : d # c /\ Live(d) => ~rounds'[c].odd /\ Even(d)
  <2> HIDE DEF odd
  <2>1. QED
    BY <1>1, <1>6 DEF Overlap, Even
<1>18. Types'
  BY <1>1, <1>2, <1>6, <1>10, <1>16 DEF Types, Confirmed
<1>19. \A d, k : Coming(d, k) => d < c
  BY <1>4 DEF Coming
<1>20. Worldly'
  BY <1>10, <1>14, <1>15 DEF Worldly
<1>21. (Even(c)' => ~rounds'[c].odd) /\ (~rounds'[c].odd => Even(c)')
  BY DEF Even
<1>22. game = Idle /\ game' = game /\ reports' = reports /\ verdict' = verdict
       /\ UNCHANGED <<orphan, tied, misplaced, overlooked>>
  BY <1>1
<1> HIDE DEF odd
<1>23. ~mixed' => ~mixed /\ \A d \in DOMAIN rounds : d # c /\ Live(d) => Even(c)' /\ Even(d)
  BY <1>17, <1>21
<1>24. Even(c)' => p \in RegularPatterns /\ v \in {None, rounds[c].target}
  BY <1>7, <1>21
<1>25. QED
  BY <1>4, <1>6, <1>8, <1>10, <1>12, <1>13, <1>16, <1>18, <1>19, <1>20, <1>22, <1>23, <1>24

\* The player fires without a command.
LEMMA HandDoes ==
  ASSUME Types, World, Sorted(records),
         NEW p, NEW v, FireByHand(p, v), NEW c, c = Len(rounds) + 1
  PROVE  /\ Types' /\ Worldly' /\ game = Idle /\ game' = game /\ reports' = reports /\ verdict' = verdict
         /\ c \in Rounds /\ c \notin DOMAIN rounds /\ \A d \in DOMAIN rounds : d < c
         /\ DOMAIN rounds' = DOMAIN rounds \cup {c} /\ \A d \in DOMAIN rounds : rounds'[d] = rounds[d]
         /\ rounds'[c].target = None /\ ~rounds'[c].aimed /\ ~Even(c)'
         /\ \A d : Before(d) => Before(d)'
         /\ \A d : ~Unfired(d) /\ ~Unfired(d)'
         /\ \A d, k : Coming(d, k) => d < c
         /\ \A d, k : Coming(d, k)' <=> Coming(d, k) \/ (d = c /\ k \in Range(p))
         /\ \A d : d # c => (Awaited(d)' <=> Awaited(d))
         /\ Confirmed
         /\ ~mixed' => ~mixed /\ \A d \in DOMAIN rounds : ~Live(d)
         /\ UNCHANGED <<orphan, tied, misplaced, overlooked>>
<1> DEFINE roll == [aimed |-> FALSE, target |-> None, hit |-> v, odd |-> TRUE]
<1>1. /\ game = Idle /\ c \in Rounds /\ firing = <<>> /\ p \in Patterns[c] /\ v \in Victims(p)
      /\ rounds' = Append(rounds, roll) /\ Emit(c, p, v) /\ records' = ConfirmFirst
      /\ mixed' = (mixed \/ Overlap(c, TRUE))
      /\ UNCHANGED <<reports, game, firing, verdict, orphan, tied, misplaced, overlooked>>
  BY DEF FireByHand
<1>2. /\ Len(rounds) \in Nat /\ DOMAIN rounds = 1..Len(rounds)
      /\ c \notin DOMAIN rounds /\ (\A d \in DOMAIN rounds : d < c) /\ c \in Nat
  <2>1. Len(rounds) \in Nat /\ DOMAIN rounds = 1..Len(rounds)
    BY Positions
  <2>2. QED
    BY <2>1
<1>3. p \in Seq(Kinds) /\ v \in {None} \cup Players
  BY <1>1, PatternsAre, Consts DEF Victims
<1>4. roll \in Rolls /\ roll.target = None /\ roll.hit = v /\ roll.aimed = FALSE /\ roll.odd = TRUE
  BY <1>3 DEF Rolls
<1> HIDE DEF roll
<1>5. /\ rounds' \in Seq(Rolls) /\ DOMAIN rounds' = DOMAIN rounds \cup {c} /\ Len(rounds') = c
      /\ (\A d \in DOMAIN rounds : rounds'[d] = rounds[d]) /\ rounds'[c] = roll
  <2>1. /\ Append(rounds, roll) \in Seq(Rolls) /\ DOMAIN Append(rounds, roll) = 1..Len(rounds) + 1
        /\ Len(Append(rounds, roll)) = Len(rounds) + 1
        /\ (\A i \in DOMAIN rounds : Append(rounds, roll)[i] = rounds[i])
        /\ Append(rounds, roll)[Len(rounds) + 1] = roll
    BY <1>4, Appended DEF Types
  <2>2. 1..Len(rounds) + 1 = DOMAIN rounds \cup {c}
    BY <1>2
  <2>3. QED
    BY <1>1, <2>1, <2>2
<1>6. FiringInOrder /\ Aiming /\ WireInOrder
  BY DEF World
<1>7. firing' = firing /\ DOMAIN firing = {}
  BY <1>1
<1>8. \A i \in DOMAIN wire : wire[i].cmd < c /\ wire[i].cmd \in Nat
  BY <1>2, <1>6 DEF WireInOrder
<1>9. /\ wire' \in Seq(Events) /\ WireInOrder'
      /\ \A d, k : Coming(d, k)' <=> Coming(d, k) \/ (d = c /\ k \in Range(p))
      /\ \A d : d # c => ((\E i \in DOMAIN wire' : wire'[i].cmd = d) <=> \E i \in DOMAIN wire : wire[i].cmd = d)
      /\ \A i \in DOMAIN wire' : wire'[i].cmd = c \/ \E j \in DOMAIN wire : wire'[i].cmd = wire[j].cmd
  <2>1. Worldly
    BY <1>6 DEF Worldly
  <2>2. /\ DOMAIN rounds \subseteq DOMAIN rounds' /\ c \in DOMAIN rounds' /\ rounds'[c].hit = v /\ rounds'[c].odd
        /\ \A d \in DOMAIN rounds : d # c => rounds'[d] = rounds[d]
        /\ ~rounds'[c].odd => p \in RegularPatterns
    BY <1>4, <1>5
  <2>3. \A i \in DOMAIN firing' : c < firing'[i] /\ \A j \in DOMAIN wire : wire[j].cmd < firing'[i]
    BY <1>7
  <2>4. \A i \in DOMAIN wire : wire[i].cmd < c
    BY <1>8
  <2>5. QED
    BY <1>1, <1>3, <1>5, <2>1, <2>2, <2>3, <2>4, RoundFired, ZenonT(60)
<1>10. \A d : ~Unfired(d) /\ ~Unfired(d)'
  BY <1>7 DEF Unfired
<1>11. \A d : Awaited(d)' <=> Unfired(d)' \/ \E i \in DOMAIN wire' : wire'[i].cmd = d
  BY DEF Awaited, Unfired, Range
<1>12. \A d : d # c => (Awaited(d)' <=> Awaited(d))
  BY <1>9, <1>10, <1>11, AwaitedIs
<1>13. \A d : Before(d) => Before(d)'
  <2> SUFFICES ASSUME NEW d, Before(d) PROVE Before(d)'
    OBVIOUS
  <2>1. d <= c
    BY <1>2, Consts DEF Before
  <2>2. \A i \in DOMAIN wire' : d <= wire'[i].cmd
    BY <1>9, <2>1 DEF Before
  <2>3. QED
    BY <1>5, <1>7, <2>2 DEF Before
<1>14. FiringInOrder'
  BY <1>7 DEF FiringInOrder
<1>15. Aiming'
  <2>1. ASSUME NEW d \in DOMAIN rounds'
        PROVE  /\ rounds'[d].aimed => rounds'[d].target \in Players
               /\ ~rounds'[d].odd => rounds'[d].aimed /\ rounds'[d].hit \in {None, rounds'[d].target}
    <3>1. CASE d = c
      BY <1>4, <1>5, <3>1
    <3>2. CASE d # c
      BY <1>5, <1>6, <3>2 DEF Aiming, Even
    <3>3. QED
      BY <3>1, <3>2
  <2>2. QED
    BY <2>1 DEF Aiming, Even
<1>16. Confirmed
  BY <1>1, Confirms DEF Confirmed
<1>17. ~mixed' => ~mixed /\ \A d \in DOMAIN rounds : ~Live(d)
  BY <1>1, <1>2 DEF Overlap
<1>18. Types'
  <2>1. c <= MaxRounds
    BY <1>1, Consts
  <2>2. QED
    BY <1>1, <1>5, <1>7, <1>9, <1>16, <2>1 DEF Types, Confirmed
<1>19. \A d, k : Coming(d, k) => d < c
  BY <1>8 DEF Coming
<1>20. Worldly'
  BY <1>9, <1>14, <1>15 DEF Worldly
<1>21. rounds'[c].target = None /\ ~rounds'[c].aimed /\ ~Even(c)'
  BY <1>4, <1>5 DEF Even
<1>22. game = Idle /\ game' = game /\ reports' = reports /\ verdict' = verdict
       /\ UNCHANGED <<orphan, tied, misplaced, overlooked>>
  BY <1>1
<1>23. QED
  BY <1>1, <1>2, <1>5, <1>9, <1>10, <1>12, <1>13, <1>16, <1>17, <1>18, <1>19, <1>20, <1>21, <1>22

----------------------------------------------------------------------------
(* What the parts of the invariant say together                              *)

LEMMA FiniteUpTo ==
  ASSUME NEW n \in Nat, NEW S, S \subseteq 1..n PROVE IsFiniteSet(S)
<1>1. IsFiniteSet(1..n)
  BY FS_Interval
<1>2. QED
  BY <1>1, FS_Subset

\* Beside a round of which something is to come, all is of regular rounds, as it is itself.
LEMMA Beside ==
  ASSUME Types, World, Loose, ~mixed, NEW c \in DOMAIN rounds, Awaited(c)
  PROVE  /\ \A r \in Range(records) : r.cmd = c \/ (Even(c) /\ Even(r.cmd))
         /\ \A d \in DOMAIN rounds : Awaited(d) => d = c \/ (Even(c) /\ Even(d))
         /\ \A i \in DOMAIN reports : reports[i].age <= ReportWindow =>
              reports[i].cmd = c \/ (Even(c) /\ Even(reports[i].cmd))
<1>1. \A d, e \in DOMAIN rounds : d # e /\ Live(d) /\ Live(e) => Even(d)
  BY DEF Loose, Alone
<1>2. Live(c) /\ \A d : Awaited(d) => Live(d)
  BY DEF Live
<1>3. \A r \in Range(records) : r.cmd \in DOMAIN rounds /\ Live(r.cmd)
  BY DEF Loose, InOrder, Live
<1>4. \A i \in DOMAIN reports : reports[i].cmd \in DOMAIN rounds
  BY DEF World, ToldBefore, Before
<1>5. \A i \in DOMAIN reports : reports[i].age <= ReportWindow => Live(reports[i].cmd)
  BY DEF Live, Range
<1>6. QED
  BY <1>1, <1>2, <1>3, <1>4, <1>5

\* A round of the regular kind of which something is to come has its record.
LEMMA AtHand ==
  ASSUME Types, World, Loose, Strict, NEW c \in DOMAIN rounds, Even(c), Awaited(c)
  PROVE  \E k \in DOMAIN records : /\ records[k].cmd = c /\ ~records[k].resolved /\ ~Gone(records[k])
                                   /\ records[k].victim = rounds[c].target /\ verdict[c] = "none"
                                   /\ HasImpact(records[k]) <=> ~Unfired(c) /\ ~Coming(c, "impact")
<1>1. PICK r \in Range(records) : r.cmd = c /\ ~r.resolved
  BY DEF Strict, Expected
<1>2. ~Gone(r)
  BY <1>1 DEF Strict, Expected
<1>3. r.victim = rounds[c].target /\ verdict[c] = "none"
  BY <1>1 DEF Loose, InOrder, Unsaid
<1>4. HasImpact(r) <=> ~Unfired(c) /\ ~Coming(c, "impact")
  BY <1>1 DEF Strict, OwnImpacts
<1>5. PICK k \in DOMAIN records : records[k] = r
  BY Positions
<1>6. QED
  BY <1>1, <1>2, <1>3, <1>4, <1>5

\* What the host tells first.
LEMMA HeadIs ==
  ASSUME Types, World, wire # <<>>, NEW h, h = Head(wire)
  PROVE  /\ h.cmd \in DOMAIN rounds /\ h.cmd \in Nat /\ h.victim = rounds[h.cmd].hit
         /\ h.kind = "hurt" => h.victim \in Players
         /\ Coming(h.cmd, h.kind) /\ Awaited(h.cmd) /\ ~Unfired(h.cmd)
         /\ \A c, k : Coming(c, k) => h.cmd <= c
         /\ \A c : Unfired(c) => h.cmd < c
         /\ \A c : Before(c) => c <= h.cmd
         /\ Even(h.cmd) /\ h.kind = "hurt" => ~Coming(h.cmd, "impact")
<1>1. h \in Events /\ h = wire[1] /\ 1 \in DOMAIN wire /\ h.kind \in Kinds /\ h.cmd \in Nat
  <2>1. h = wire[1] /\ 1 \in DOMAIN wire
    BY Positions
  <2>2. QED
    BY <2>1, Positions, KindsAre, Consts
<1>2. h.cmd \in DOMAIN rounds /\ h.victim = rounds[h.cmd].hit /\ (h.kind = "hurt" => h.victim \in Players)
  BY <1>1 DEF World, WireInOrder
<1>3. /\ \A i \in DOMAIN wire : h.cmd <= wire[i].cmd
      /\ \A i \in DOMAIN firing : h.cmd < firing[i]
  <2>1. \A i \in DOMAIN wire : i = 1 \/ 1 < i
    BY Positions
  <2>2. h.cmd <= h.cmd
    BY <1>1
  <2>3. QED
    BY <1>1, <2>1, <2>2 DEF World, WireInOrder
<1>4. ~Unfired(h.cmd)
  BY <1>1, <1>3 DEF Unfired
<1>5. ASSUME Even(h.cmd), h.kind = "hurt", Coming(h.cmd, "impact") PROVE FALSE
  <2>1. PICK i \in DOMAIN wire : wire[i].cmd = h.cmd /\ wire[i].kind = "impact"
    BY <1>5 DEF Coming
  <2>2. 1 < i
    <3>1. i # 1
      BY <1>1, <1>5, <2>1
    <3>2. QED
      BY <2>1, <3>1, Positions
  <2>3. Rank(wire[1].kind) < Rank(wire[i].kind)
    BY <1>1, <1>5, <2>1, <2>2 DEF World, WireInOrder
  <2>4. Rank("hurt") = 3 /\ Rank("impact") = 1
    BY DEF Rank
  <2>5. QED
    BY <1>1, <1>5, <2>1, <2>3, <2>4
<1>6. \A c : Before(c) => c <= h.cmd
  BY <1>1 DEF Before
<1>7. QED
  BY <1>1, <1>2, <1>3, <1>4, <1>5, <1>6, AwaitedIs DEF Coming, Unfired

\* The impact that comes is matched with a record of its own round.
LEMMA OwnMatch ==
  ASSUME Types, World, Loose, ~mixed, Strict, wire # <<>>,
         NEW h, h = Head(wire), h.kind = "impact"
  PROVE  /\ \A i \in FirstMatches(h.cmd) :
              /\ i # None => i \in DOMAIN records /\ records[i].cmd = h.cmd
              /\ Even(h.cmd) => i # None
         /\ ~Even(h.cmd) => \A i \in DOMAIN records : records[i].cmd = h.cmd
<1>1. /\ h.cmd \in DOMAIN rounds /\ Coming(h.cmd, h.kind) /\ Awaited(h.cmd) /\ ~Unfired(h.cmd)
      /\ \A c, k : Coming(c, k) => h.cmd <= c
      /\ \A c : Unfired(c) => h.cmd < c
  BY HeadIs
<1>2. \A r \in Range(records) : r.cmd = h.cmd \/ (Even(h.cmd) /\ Even(r.cmd))
  BY <1>1, Beside
<1>3. \A i \in DOMAIN records : records[i] \in Range(records) /\ records[i].cmd \in Nat
  BY Positions, Consts DEF Shots
<1>4. ASSUME ~Even(h.cmd), NEW i \in DOMAIN records PROVE records[i].cmd = h.cmd
  BY <1>2, <1>3, <1>4
<1>5. \A i \in FirstMatches(h.cmd) : i # None => i \in DOMAIN records
  BY DEF FirstMatches
<1>6. ASSUME Even(h.cmd), NEW i \in FirstMatches(h.cmd)
      PROVE  i # None /\ i \in DOMAIN records /\ records[i].cmd = h.cmd
  <2>1. PICK k \in DOMAIN records : /\ records[k].cmd = h.cmd /\ ~records[k].resolved /\ ~Gone(records[k])
                                    /\ ~HasImpact(records[k])
    BY <1>1, <1>6, AtHand
  <2>2. Waiting(records[k])
    BY <2>1 DEF Waiting, Gone
  <2>3. /\ i \in DOMAIN records /\ Waiting(records[i]) /\ i <= k
    BY <2>1, <2>2 DEF FirstMatches
  <2>4. records[i].cmd <= h.cmd
    <3>1. i = k \/ i < k
      BY <2>1, <2>3, Positions
    <3>2. QED
      BY <1>3, <2>1, <2>3, <3>1 DEF Loose, InOrder, Sorted
  <2>5. Even(records[i].cmd)
    BY <1>2, <1>3, <1>6, <2>3
  <2>6. Unfired(records[i].cmd) \/ Coming(records[i].cmd, "impact")
    BY <1>3, <2>3, <2>5 DEF Strict, OwnImpacts, Waiting
  <2>7. h.cmd \in Nat
    BY HeadIs
  <2>8. h.cmd <= records[i].cmd
    BY <1>1, <1>3, <2>3, <2>6, <2>7
  <2>9. i # None
    BY <2>3, Positions, Consts
  <2>10. QED
    BY <1>3, <2>3, <2>4, <2>7, <2>8, <2>9
<1>7. QED
  BY <1>4, <1>5, <1>6, <1>2, <1>3

\* A hurt of a regular round resolves its record, or in a tie that of an earlier round.
LEMMA OwnHurt ==
  ASSUME Types, World, Loose, ~mixed, Strict, wire # <<>>,
         NEW h, h = Head(wire), h.kind = "hurt", Even(h.cmd)
  PROVE  /\ Candidates(h.victim) # {} /\ Resolvable(h.victim) \in Candidates(h.victim)
         /\ HasImpact(records[Resolvable(h.victim)]) /\ Even(records[Resolvable(h.victim)].cmd)
         /\ records[Resolvable(h.victim)].cmd <= h.cmd
         /\ h.victim = rounds[h.cmd].target
         /\ \E k \in DOMAIN records :
              /\ records[k].cmd = h.cmd /\ records[k].victim = h.victim
              /\ HasImpact(records[k]) /\ Usable(records[k]) /\ ~records[k].resolved
              /\ Resolvable(h.victim) = k \/ Cardinality(Latest(h.victim)) > 1
<1> DEFINE v == h.victim
           f == Resolvable(v)
<1>1. /\ h.cmd \in DOMAIN rounds /\ h.cmd \in Nat /\ h.victim = rounds[h.cmd].hit /\ h.victim \in Players
      /\ Coming(h.cmd, h.kind) /\ Awaited(h.cmd) /\ ~Unfired(h.cmd) /\ ~Coming(h.cmd, "impact")
      /\ \A c : Before(c) => c <= h.cmd
  BY HeadIs
<1>2. v = rounds[h.cmd].target
  BY <1>1, Consts DEF World, Aiming
<1>3. PICK k \in DOMAIN records : /\ records[k].cmd = h.cmd /\ ~records[k].resolved /\ ~Gone(records[k])
                                  /\ records[k].victim = v /\ HasImpact(records[k])
  BY <1>1, <1>2, AtHand
<1>4. \A i \in DOMAIN records : /\ records[i] \in Range(records) /\ records[i] \in Shots
                                /\ records[i].cmd \in Nat /\ records[i].impact \in Nat /\ records[i].age \in Nat
  <2>1. 0..Never \subseteq Nat /\ Rounds \subseteq Nat
    BY Consts
  <2>2. QED
    BY <2>1, Positions DEF Shots
<1>5. Usable(records[k])
  <2>1. records[k].impact <= records[k].age /\ records[k].age <= Timeout
    BY <1>3, <1>4, Consts DEF Loose, InOrder, Gone, Expired
  <2>2. QED
    BY <1>3, <1>4, <2>1, Consts DEF Usable
<1>6. DOMAIN records \subseteq Nat
  BY Positions
<1> DEFINE struck == {i \in Candidates(v) : HasImpact(records[i])}
<1>7. k \in struck
  BY <1>3 DEF Candidates
<1>8. \A i \in struck : i \in DOMAIN records /\ HasImpact(records[i]) /\ ~records[i].resolved /\ records[i].victim = v
  BY DEF Candidates
<1>9. ASSUME NEW i \in struck
      PROVE  /\ records[i].cmd <= h.cmd /\ Even(records[i].cmd)
             /\ records[k].impact <= records[i].impact
             /\ records[i].cmd = h.cmd => i = k
  <2>1. records[i].of = records[i].cmd /\ Before(records[i].of)
    BY <1>4, <1>8 DEF Strict, OwnImpacts, HasImpact, World, ToldBefore
  <2>2. records[i].cmd <= h.cmd
    BY <1>1, <2>1
  <2>3. \A r \in Range(records) : r.cmd = h.cmd \/ Even(r.cmd)
    BY <1>1, Beside
  <2>4. Even(records[i].cmd)
    BY <1>4, <1>8, <2>3
  <2>5. records[i].cmd = h.cmd => i = k
    <3>1. \A a, b \in DOMAIN records : records[a].cmd = records[b].cmd => a = b
      <4>1. records \in Seq(Shots) /\ Sorted(records)
        BY DEF Types, Loose, InOrder
      <4>2. QED
        BY <4>1, SortedIs
    <3>2. QED
      BY <1>3, <1>8, <3>1
  <2>6. records[k].impact <= records[i].impact
    <3>1. CASE i = k
      BY <1>4, <3>1
    <3>2. CASE i # k
      <4>1. records[i].cmd < records[k].cmd
        BY <1>1, <1>3, <1>4, <1>8, <2>2, <2>5, <3>2
      <4>2. QED
        BY <1>3, <1>4, <1>8, <4>1 DEF Strict, OwnImpacts
    <3>3. QED
      BY <3>1, <3>2
  <2>7. QED
    BY <2>2, <2>4, <2>5, <2>6
<1>10. Latest(v) = {i \in struck : \A j \in struck : records[i].impact <= records[j].impact}
  BY DEF Latest
<1> HIDE DEF struck
<1>11. k \in Latest(v) /\ Latest(v) \subseteq struck
  BY <1>7, <1>9, <1>10
<1>12. f \in Latest(v)
  <2>1. Latest(v) \subseteq Nat /\ Latest(v) # {}
    BY <1>6, <1>8, <1>11
  <2>2. Min(Latest(v)) \in Latest(v)
    BY <2>1, MinIs
  <2>3. QED
    BY <2>1, <2>2 DEF Resolvable
<1>13. f \in Candidates(v) /\ Candidates(v) # {}
  BY <1>11, <1>12 DEF struck
<1>14. ASSUME f # k PROVE Cardinality(Latest(v)) > 1
  <2>1. Latest(v) \subseteq 1..Len(records) /\ Len(records) \in Nat
    BY <1>8, <1>11, Positions
  <2>2. IsFiniteSet(Latest(v))
    BY <2>1, FiniteUpTo
  <2>3. PICK S : S = {f}
    OBVIOUS
  <2>4. IsFiniteSet(S) /\ Cardinality(S) = 1 /\ k \notin S
    BY <1>14, <2>3, FS_Singleton
  <2>5. Cardinality(S \cup {k}) = Cardinality(S) + 1
    BY <2>4, FS_AddElement
  <2>6. S \cup {k} \subseteq Latest(v)
    BY <1>11, <1>12, <2>3
  <2>7. Cardinality(S \cup {k}) <= Cardinality(Latest(v)) /\ Cardinality(Latest(v)) \in Nat
    BY <2>2, <2>6, FS_Subset, FS_CardinalityType
  <2>8. QED
    BY <2>4, <2>5, <2>7
<1> HIDE DEF f
<1>15. f \in struck
  BY <1>11, <1>12
<1>16. HasImpact(records[f]) /\ Even(records[f].cmd) /\ records[f].cmd <= h.cmd
  BY <1>8, <1>9, <1>15
<1>17. QED
  BY <1>2, <1>3, <1>5, <1>13, <1>14, <1>16 DEF f

----------------------------------------------------------------------------
(* Steps that leave the world alone                                          *)

LEMMA SameWorld ==
  ASSUME UNCHANGED world
  PROVE  /\ rounds' = rounds /\ (World => Worldly')
         /\ \A d : Before(d)' <=> Before(d)
         /\ \A d : Unfired(d)' <=> Unfired(d)
         /\ \A d, k : Coming(d, k)' <=> Coming(d, k)
         /\ \A d : Awaited(d)' <=> Awaited(d)
         /\ \A d : Even(d)' <=> Even(d)
<1>1. rounds' = rounds /\ firing' = firing /\ wire' = wire
  BY DEF world
<1>2. /\ \A d : Before(d)' <=> Before(d)
      /\ \A d : Unfired(d)' <=> Unfired(d)
      /\ \A d, k : Coming(d, k)' <=> Coming(d, k)
      /\ \A d : Even(d)' <=> Even(d)
  BY <1>1 DEF Before, Unfired, Coming, Even
<1>3. \A d : Awaited(d)' <=> Awaited(d)
  BY <1>1 DEF Awaited
<1>4. World => Worldly'
  BY <1>1 DEF World, Worldly, FiringInOrder, Aiming, WireInOrder, Even, Coming
<1>5. QED
  BY <1>1, <1>2, <1>3, <1>4

\* No hit is told of, or said, that was not before.
LEMMA SameHits ==
  ASSUME Balanced,
         DOMAIN rounds \subseteq DOMAIN rounds',
         \A d \in DOMAIN rounds :
           /\ rounds'[d].target = rounds[d].target
           /\ ~rounds'[d].odd /\ verdict'[d] = "hit" <=> Even(d) /\ verdict[d] = "hit"
           /\ ~rounds'[d].odd /\ rounds'[d].hit = rounds[d].target /\ ~Coming(d, "hurt")'
                <=> Even(d) /\ rounds[d].hit = rounds[d].target /\ ~Coming(d, "hurt"),
         \A d \in DOMAIN rounds' \ DOMAIN rounds :
           ~rounds'[d].odd => verdict'[d] # "hit" /\ rounds'[d].hit # rounds'[d].target
  PROVE  Balanced'
<1> SUFFICES ASSUME NEW v \in Players PROVE Cardinality(HitsSaid(v)') = Cardinality(HitsTold(v)')
  BY DEF Balanced
<1>1. HitsSaid(v)' = HitsSaid(v)
  BY DEF HitsSaid, Even
<1>2. HitsTold(v)' = HitsTold(v)
  <2>1. HitsTold(v) = {d \in DOMAIN rounds : Even(d) /\ rounds[d].target = v /\ rounds[d].hit = v /\ ~Coming(d, "hurt")}
    BY DEF HitsTold
  <2>2. HitsTold(v)' = {d \in DOMAIN rounds' : ~rounds'[d].odd /\ rounds'[d].target = v /\ rounds'[d].hit = v /\ ~Coming(d, "hurt")'}
    BY DEF HitsTold, Even
  <2>3. QED
    BY <2>1, <2>2
<1>3. QED
  BY <1>1, <1>2 DEF Balanced

\* What is said of a record that is due, and whether it is true.
LEMMA Judged ==
  ASSUME Types, Loose, Strict, NEW r \in Range(records), ~r.resolved, ~Awaited(r.cmd)
  PROVE  /\ rounds[r.cmd].aimed => Said(r) = "miss"
         /\ ~rounds[r.cmd].aimed => Said(r) = "discarded"
         /\ rounds[r.cmd].aimed /\ (tied => ~Even(r.cmd)) => Truth(r.cmd) = "miss"
<1>1. ~Unfired(r.cmd) /\ \A k : ~Coming(r.cmd, k)
  BY AwaitedIs DEF Coming
<1>2. /\ r.confirmed <=> rounds[r.cmd].aimed
      /\ HasImpact(r) => rounds[r.cmd].aimed
  BY <1>1 DEF Strict, OwnImpacts
<1>3. rounds[r.cmd].aimed /\ (tied => ~Even(r.cmd)) => rounds[r.cmd].hit # rounds[r.cmd].target
  BY <1>1 DEF Strict, HitsResolve, Loose, InOrder
<1>4. QED
  BY <1>2, <1>3 DEF Said, Truth

\* A look for misses, in terms of the records that are looked at and the ones before.
LEMMA Looked ==
  ASSUME Types, Loose, Strict, NEW rs \in Seq(Shots), Sorted(rs), CheckMisses(rs), rounds' = rounds, tied' = tied,
         \A r \in Range(rs) : r.cmd \in DOMAIN rounds,
         \A r \in Range(rs) : ~r.resolved /\ Gone(r) => r \in Range(records) /\ ~Awaited(r.cmd)
  PROVE  /\ \A c \in Rounds : verdict'[c] = verdict[c] \/ (verdict[c] = "none" /\ verdict'[c] \in {"miss", "discarded"})
         /\ SaidTruly'
<1>1. /\ \A r \in Range(rs) : verdict'[r.cmd] = IF Gone(r) /\ ~r.resolved THEN Said(r) ELSE verdict[r.cmd]
      /\ \A c \in Rounds : (\A r \in Range(rs) : r.cmd # c) => verdict'[c] = verdict[c]
  BY CheckMissesDoes DEF Types
<1>2. ASSUME NEW c \in Rounds, verdict'[c] # verdict[c]
      PROVE  /\ verdict[c] = "none" /\ c \in DOMAIN rounds
             /\ verdict'[c] = IF rounds[c].aimed THEN "miss" ELSE "discarded"
             /\ rounds[c].aimed /\ (tied => ~Even(c)) => Truth(c) = "miss"
  <2>1. PICK r \in Range(rs) : r.cmd = c
    BY <1>1, <1>2
  <2>2. Gone(r) /\ ~r.resolved /\ verdict'[c] = Said(r)
    BY <1>1, <1>2, <2>1
  <2>3. r \in Range(records) /\ ~Awaited(r.cmd)
    BY <2>1, <2>2
  <2>4. verdict[c] = "none" /\ c \in DOMAIN rounds
    BY <2>1, <2>2, <2>3 DEF Loose, Unsaid, InOrder
  <2>5. QED
    BY <2>1, <2>2, <2>3, <2>4, Judged
<1>3. SaidTruly'
  <2>1. \A c : Truth(c)' = Truth(c)
    BY DEF Truth
  <2>2. SaidTruly /\ DOMAIN rounds \subseteq Rounds
    BY Positions DEF Strict
  <2>3. ASSUME NEW c \in DOMAIN rounds
        PROVE  /\ verdict'[c] = "discarded" => ~rounds[c].aimed
               /\ verdict'[c] \in HitOrMiss => rounds[c].aimed
               /\ verdict'[c] \in HitOrMiss /\ (tied => ~Even(c)) => verdict'[c] = Truth(c)
    <3>1. CASE verdict'[c] = verdict[c]
      BY <2>2, <2>3, <3>1 DEF SaidTruly
    <3>2. CASE verdict'[c] # verdict[c]
      BY <1>2, <2>2, <2>3, <3>2 DEF HitOrMiss
    <3>3. QED
      BY <3>1, <3>2
  <2>4. QED
    BY <2>1, <2>3 DEF SaidTruly, Even, HitOrMiss
<1>4. QED
  BY <1>2, <1>3

LEMMA AloneStays ==
  ASSUME Alone, rounds' = rounds, mixed' = mixed,
         \A d : Awaited(d)' => Awaited(d),
         game'.cmd \in DOMAIN rounds => Live(game'.cmd),
         \A r \in Range(records') : Live(r.cmd),
         \A i \in DOMAIN reports' : reports'[i].age <= ReportWindow => Live(reports'[i].cmd)
  PROVE  Alone'
<1>1. ASSUME NEW d \in DOMAIN rounds, Live(d)' PROVE Live(d)
  <2>1. \/ Awaited(d)' \/ game'.cmd = d
        \/ \E r \in Range(records') : r.cmd = d
        \/ \E i \in DOMAIN reports' : reports'[i].cmd = d /\ reports'[i].age <= ReportWindow
    BY <1>1 DEF Live, Range
  <2>2. Awaited(d) => Live(d)
    BY DEF Live
  <2>3. QED
    BY <2>1, <2>2
<1>2. QED
  BY <1>1 DEF Alone, Even

\* Time passes for a report.
LEMMA ReportsAge ==
  ASSUME Types, reports' = [i \in DOMAIN reports |-> [reports[i] EXCEPT !.age = Older(@)]]
  PROVE  /\ reports' \in Seq(Hits) /\ DOMAIN reports' = DOMAIN reports
         /\ \A i \in DOMAIN reports :
              reports'[i].cmd = reports[i].cmd /\ \A n \in Nat : reports'[i].age <= n => reports[i].age <= n
         /\ \A i \in DOMAIN reports : reports'[i].age < ReportWindow => reports[i].age < ReportWindow
<1>1. /\ Len(reports) \in Nat /\ DOMAIN reports = 1..Len(reports)
      /\ \A i \in DOMAIN reports : reports[i] \in Hits
  BY Positions
<1>2. ASSUME NEW i \in DOMAIN reports
      PROVE  /\ reports'[i] \in Hits /\ reports'[i].cmd = reports[i].cmd
             /\ reports'[i].age \in Nat /\ reports[i].age \in Nat /\ reports[i].age <= reports'[i].age
  <2>1. reports[i].age \in 0..Never /\ 0..Never \subseteq Nat
    BY <1>1, Consts DEF Hits
  <2>2. PICK a : a = Older(reports[i].age)
    OBVIOUS
  <2>3. a \in 0..Never /\ reports[i].age <= a
    BY <2>1, <2>2, OlderIs
  <2>4. reports'[i] = [reports[i] EXCEPT !.age = a]
    BY <2>2
  <2>5. QED
    BY <1>1, <2>1, <2>3, <2>4 DEF Hits
<1>3. DOMAIN reports' = DOMAIN reports
  OBVIOUS
<1>4. reports' \in Seq(Hits)
  <2>1. reports' \in [1..Len(reports) -> Hits]
    BY <1>1, <1>2
  <2>2. [1..Len(reports) -> Hits] \subseteq Seq(Hits)
    BY <1>1, SeqDef
  <2>3. QED
    BY <2>1, <2>2
<1>5. ASSUME NEW i \in DOMAIN reports, NEW n \in Nat, reports'[i].age <= n PROVE reports[i].age <= n
  <2>1. PICK a, b : a = reports[i].age /\ b = reports'[i].age
    OBVIOUS
  <2>2. a \in Nat /\ b \in Nat /\ a <= b
    BY <1>2, <2>1
  <2>3. b <= n
    BY <1>5, <2>1
  <2>4. a <= n
    BY <2>2, <2>3
  <2>5. QED
    BY <2>1, <2>4
<1>6. ASSUME NEW i \in DOMAIN reports, reports'[i].age < ReportWindow PROVE reports[i].age < ReportWindow
  <2>1. PICK a, b : a = reports[i].age /\ b = reports'[i].age
    OBVIOUS
  <2>2. a \in Nat /\ b \in Nat /\ a <= b
    BY <1>2, <2>1
  <2>3. b < ReportWindow
    BY <1>6, <2>1
  <2>4. a < ReportWindow
    BY <2>2, <2>3, Consts
  <2>5. QED
    BY <2>1, <2>4
<1>7. QED
  BY <1>2, <1>3, <1>4, <1>5, <1>6

LEMMA TickKeeps == IInv /\ Tick => IInv'
<1> SUFFICES ASSUME IInv, Tick PROVE IInv'
  OBVIOUS
<1>1. Types /\ World /\ Loose
  BY DEF IInv
<1>2. /\ game = Idle /\ game' = Idle /\ UNCHANGED world /\ UNCHANGED <<verdict, mixed, tied, misplaced, overlooked>>
      /\ reports' = [i \in DOMAIN reports |-> [reports[i] EXCEPT !.age = Older(@)]]
      /\ orphan' = (orphan \/ \E r \in Range(records') : ~r.resolved /\ Gone(r) /\ Awaited(r.cmd))
  BY DEF Tick
<1>3. /\ rounds' = rounds /\ Worldly'
      /\ \A d : Before(d)' <=> Before(d)
      /\ \A d : Unfired(d)' <=> Unfired(d)
      /\ \A d, k : Coming(d, k)' <=> Coming(d, k)
      /\ \A d : Awaited(d)' <=> Awaited(d)
      /\ \A d : Even(d)' <=> Even(d)
  BY <1>1, <1>2, SameWorld
<1>4. /\ reports' \in Seq(Hits) /\ DOMAIN reports' = DOMAIN reports
      /\ \A i \in DOMAIN reports : reports'[i].cmd = reports[i].cmd
      /\ \A i \in DOMAIN reports : reports'[i].age <= ReportWindow => reports[i].age <= ReportWindow
      /\ \A i \in DOMAIN reports : reports'[i].age < ReportWindow => reports[i].age < ReportWindow
  BY <1>1, <1>2, ReportsAge, Consts
<1>5. /\ records' \in Seq(Shots) /\ Sorted(records')
      /\ \A r \in Range(records') : \E s \in Range(records) : r = Aged(s)
      /\ \A s \in Range(records) : Aged(s) \in Range(records')
  <2>1. records' = [i \in DOMAIN records |-> [records[i] EXCEPT !.age = Older(@), !.impact = Older(@)]]
    BY DEF Tick
  <2>2. records \in Seq(Shots) /\ Sorted(records)
    BY <1>1 DEF Types, Loose, InOrder
  <2>3. PICK rs : rs = records
    OBVIOUS
  <2>4. PICK t : t = [i \in DOMAIN rs |-> [rs[i] EXCEPT !.age = Older(@), !.impact = Older(@)]]
    OBVIOUS
  <2>5. /\ t \in Seq(Shots) /\ Sorted(t)
        /\ \A r \in Range(t) : \E s \in Range(rs) : r = Aged(s)
        /\ \A s \in Range(rs) : Aged(s) \in Range(t)
    BY <2>2, <2>3, <2>4, TickDoes, ZenonT(60)
  <2>6. records' = t
    BY <2>1, <2>3, <2>4
  <2>7. QED
    BY <2>3, <2>5, <2>6 DEF Sorted, Range
<1>6. \A s \in Range(records) :
        /\ s \in Shots /\ Aged(s).cmd = s.cmd /\ Aged(s).victim = s.victim /\ Aged(s).of = s.of
        /\ Aged(s).confirmed = s.confirmed /\ Aged(s).resolved = s.resolved
        /\ s.age \in 0..Never /\ s.impact \in 0..Never
        /\ Aged(s).age = Older(s.age) /\ Aged(s).impact = Older(s.impact)
  <2>1. \A s \in Range(records) : s \in Shots /\ s.age \in 0..Never /\ s.impact \in 0..Never
    BY <1>1, Positions DEF Shots
  <2>2. QED
    BY <2>1, AgedIs
<1>7. \A r \in Range(records') : \E s \in Range(records) :
        /\ r = Aged(s) /\ r.cmd = s.cmd /\ r.victim = s.victim /\ r.of = s.of
        /\ r.confirmed = s.confirmed /\ r.resolved = s.resolved
  BY <1>5, <1>6
<1>8. Types'
  BY <1>1, <1>2, <1>4, <1>5, <1>3 DEF Types, world
<1>9. World'
  <2>1. \A r \in Range(records') : Before(r.of)'
    BY <1>1, <1>3, <1>7 DEF World, ToldBefore
  <2>2. \A i \in DOMAIN reports' : reports'[i].cmd # None /\ Before(reports[i].cmd)'
    BY <1>1, <1>3, <1>4 DEF World, ToldBefore
  <2>3. \A d : d = game'.cmd => Before(d)'
    BY <1>1, <1>2, <1>3 DEF World, ToldBefore
  <2>4. QED
    BY <1>2, <1>3, <1>4, <2>1, <2>2, <2>3 DEF World, Worldly, ToldBefore, Before, Idle
<1>10. Loose'
  <2>1. InOrder'
    <3>1. ASSUME NEW r \in Range(records') PROVE HasImpact(r) => r.impact <= r.age
      <4>1. PICK s \in Range(records) : r = Aged(s)
        BY <1>5
      <4>2. HasImpact(s) => s.impact <= s.age
        BY <1>1 DEF Loose, InOrder
      <4>3. s.impact <= s.age => Older(s.impact) <= Older(s.age)
        BY <1>6, OlderIs
      <4>4. QED
        BY <1>6, <4>1, <4>2, <4>3 DEF HasImpact
    <3>2. QED
      BY <1>1, <1>3, <1>5, <1>7, <3>1 DEF Loose, InOrder, HasImpact
  <2>2. Unsaid'
    BY <1>1, <1>2, <1>3, <1>7 DEF Loose, Unsaid
  <2>3. Reported'
    BY <1>1, <1>2, <1>3, <1>4, SMTT(30) DEF Loose, Reported, world, Even
  <2>4. ImpactAtHand'
    BY <1>1, <1>2 DEF Loose, ImpactAtHand, Idle
  <2>5. Alone'
    <3>1. \A r \in Range(records') : Live(r.cmd)
      BY <1>7 DEF Live
    <3>2. \A i \in DOMAIN reports' : reports'[i].age <= ReportWindow => Live(reports'[i].cmd)
      BY <1>4 DEF Live, Range
    <3>3. game'.cmd \in DOMAIN rounds => Live(game'.cmd)
      BY <1>2 DEF Live
    <3>4. QED
      BY <1>1, <1>2, <1>3, <3>1, <3>2, <3>3, AloneStays DEF Loose
  <2>6. QED
    BY <2>1, <2>2, <2>3, <2>4, <2>5 DEF Loose
<1>11. ASSUME Clean' PROVE Strict'
  <2>1. Strict /\ \A r \in Range(records') : ~r.resolved /\ Gone(r) => ~Awaited(r.cmd)
    BY <1>2, <1>11 DEF IInv, Clean
  <2>2. OwnImpacts'
    <3>1. ASSUME NEW r \in Range(records'), NEW s \in Range(records'), r.cmd < s.cmd, HasImpact(r), HasImpact(s)
          PROVE  s.impact <= r.impact
      <4>1. PICK a \in Range(records), b \in Range(records) : r = Aged(a) /\ s = Aged(b)
        BY <1>5
      <4>2. b.impact <= a.impact
        BY <1>6, <2>1, <3>1, <4>1 DEF Strict, OwnImpacts, HasImpact
      <4>3. QED
        BY <1>6, <4>1, <4>2, OlderIs
    <3>2. ASSUME NEW r \in Range(records')
          PROVE  /\ r.of \in {None, r.cmd}
                 /\ Even(r.cmd) => (HasImpact(r) <=> ~Unfired(r.cmd) /\ ~Coming(r.cmd, "impact"))
                 /\ r.confirmed <=> rounds[r.cmd].aimed /\ ~Unfired(r.cmd)
                 /\ HasImpact(r) => rounds[r.cmd].aimed
      BY <1>7, <2>1 DEF Strict, OwnImpacts, HasImpact
    <3>3. QED
      BY <1>3, <3>1, <3>2 DEF OwnImpacts, HasImpact
  <2>3. Expected'
    <3>1. ASSUME NEW c \in DOMAIN rounds, Even(c), Awaited(c)
          PROVE  \E r \in Range(records') : r.cmd = c /\ ~r.resolved
      <4>1. PICK s \in Range(records) : s.cmd = c /\ ~s.resolved
        BY <2>1, <3>1 DEF Strict, Expected
      <4>2. QED
        BY <1>5, <1>6, <4>1
    <3>2. QED
      BY <1>3, <2>1, <3>1 DEF Expected
  <2>4. HitsResolve'
    BY <1>2, <1>3, <1>7, <2>1 DEF Strict, HitsResolve
  <2>5. SaidTruly'
    BY <1>2, <1>3, <2>1 DEF Strict, SaidTruly, Truth
  <2>6. Balanced'
    BY <1>2, <1>3, <2>1, SameHits DEF Strict, Even
  <2>7. Marks'
    BY <1>2, <1>3, <1>4, <2>1 DEF Strict, Marks, Idle
  <2>8. QED
    BY <2>2, <2>3, <2>4, <2>5, <2>6, <2>7 DEF Strict
<1>12. QED
  BY <1>8, <1>9, <1>10, <1>11 DEF IInv

LEMMA RenderKeeps == IInv /\ OnRender => IInv'
<1> SUFFICES ASSUME IInv, OnRender PROVE IInv'
  OBVIOUS
<1>1. Types /\ World /\ Loose
  BY DEF IInv
<1>2. /\ UNCHANGED world /\ CheckMisses(records)
      /\ game' = IF game = Idle THEN Idle ELSE [game EXCEPT !.polled = TRUE]
      /\ UNCHANGED <<reports, mixed, orphan, tied, misplaced, overlooked>>
  BY DEF OnRender
<1>3. /\ rounds' = rounds /\ Worldly'
      /\ \A d : Before(d)' <=> Before(d)
      /\ \A d : Unfired(d)' <=> Unfired(d)
      /\ \A d, k : Coming(d, k)' <=> Coming(d, k)
      /\ \A d : Awaited(d)' <=> Awaited(d)
      /\ \A d : Even(d)' <=> Even(d)
  BY <1>1, <1>2, SameWorld
<1>4. /\ records' \in Seq(Shots) /\ Sorted(records')
      /\ Range(records') = {r \in Range(records) : ~Gone(r)}
      /\ verdict' \in [Rounds -> Verdicts]
      /\ \A r \in Range(records) : verdict'[r.cmd] = IF Gone(r) /\ ~r.resolved THEN Said(r) ELSE verdict[r.cmd]
      /\ \A c \in Rounds : (\A r \in Range(records) : r.cmd # c) => verdict'[c] = verdict[c]
  BY <1>1, <1>2, CheckMissesDoes DEF Types, Loose, InOrder
<1>5. /\ game' \in Games /\ game'.cmd = game.cmd /\ game'.pc = game.pc /\ game'.victim = game.victim
      /\ game'.pc = "hurt" => game'.polled
      /\ game'.pc = "idle" => game' = Idle
  <2>1. CASE game = Idle
    BY <1>1, <1>2, <2>1 DEF Types, Idle
  <2>2. CASE game # Idle
    <3>1. game \in Games /\ game.pc = "hurt"
      BY <1>1, <2>2 DEF Types, Games, Loose, ImpactAtHand
    <3>2. game' = [game EXCEPT !.polled = TRUE]
      BY <1>2, <2>2
    <3>3. QED
      BY <3>1, <3>2 DEF Games
  <2>3. QED
    BY <2>1, <2>2
<1>6. Types'
  BY <1>1, <1>2, <1>4, <1>5 DEF Types, world
<1>7. World'
  <2>1. \A d : d = game'.cmd => Before(d)'
    BY <1>1, <1>3, <1>5 DEF World, ToldBefore
  <2>2. \A r \in Range(records') : Before(r.of)'
    BY <1>1, <1>3, <1>4 DEF World, ToldBefore
  <2>3. \A i \in DOMAIN reports : reports[i].cmd # None /\ Before(reports[i].cmd)'
    BY <1>1, <1>2, <1>3 DEF World, ToldBefore
  <2>4. QED
    BY <1>2, <1>3, <2>1, <2>2, <2>3 DEF World, Worldly, ToldBefore, Before
<1>8. Loose'
  <2>1. InOrder'
    BY <1>1, <1>3, <1>4 DEF Loose, InOrder
  <2>2. Unsaid'
    <3>1. \A r \in Range(records') : ~r.resolved /\ verdict'[r.cmd] = "none"
      BY <1>1, <1>4 DEF Gone, Loose, Unsaid
    <3>2. ASSUME NEW c \in Rounds \ DOMAIN rounds PROVE verdict'[c] = "none"
      <4>1. \A r \in Range(records) : r.cmd # c
        BY <1>1 DEF Loose, InOrder
      <4>2. QED
        BY <1>1, <1>4, <4>1 DEF Loose, Unsaid
    <3>3. QED
      BY <1>3, <3>1, <3>2 DEF Unsaid
  <2>3. Reported'
    BY <1>1, <1>2, <1>3 DEF Loose, Reported, world, Even
  <2>4. ImpactAtHand'
    BY <1>1, <1>2, <1>3, <1>5 DEF Loose, ImpactAtHand
  <2>5. Alone'
    <3>1. \A r \in Range(records') : Live(r.cmd)
      BY <1>4 DEF Live
    <3>2. \A i \in DOMAIN reports' : reports'[i].age <= ReportWindow => Live(reports'[i].cmd)
      BY <1>2 DEF Live, Range
    <3>3. game'.cmd \in DOMAIN rounds => Live(game'.cmd)
      BY <1>5 DEF Live
    <3>4. QED
      BY <1>1, <1>2, <1>3, <3>1, <3>2, <3>3, AloneStays DEF Loose
  <2>6. QED
    BY <2>1, <2>2, <2>3, <2>4, <2>5 DEF Loose
<1>9. ASSUME Clean' PROVE Strict'
  <2>1. Strict
    BY <1>2, <1>9 DEF IInv, Clean
  <2>2. OwnImpacts'
    BY <1>3, <1>4, <2>1 DEF Strict, OwnImpacts
  <2>3. Expected'
    <3>1. ASSUME NEW c \in DOMAIN rounds, Even(c), Awaited(c)
          PROVE  \E r \in Range(records') : r.cmd = c /\ ~r.resolved
      <4>1. PICK r \in Range(records) : r.cmd = c /\ ~r.resolved
        BY <2>1, <3>1 DEF Strict, Expected
      <4>2. ~Gone(r)
        BY <2>1, <3>1, <4>1 DEF Strict, Expected
      <4>3. QED
        BY <1>4, <4>1, <4>2
    <3>2. QED
      BY <1>3, <1>4, <3>1 DEF Expected
  <2>4. HitsResolve'
    BY <1>2, <1>3, <1>4, <2>1 DEF Strict, HitsResolve
  <2>5. /\ \A c \in Rounds : verdict'[c] = verdict[c] \/ (verdict[c] = "none" /\ verdict'[c] \in {"miss", "discarded"})
        /\ SaidTruly'
    <3>1. \A r \in Range(records) : ~r.resolved /\ Gone(r) => ~Awaited(r.cmd)
      BY <2>1 DEF Strict, Expected
    <3>2. records \in Seq(Shots) /\ Sorted(records) /\ \A r \in Range(records) : r.cmd \in DOMAIN rounds
      BY <1>1 DEF Types, Loose, InOrder
    <3>3. QED
      BY <1>1, <1>2, <1>3, <2>1, <3>1, <3>2, Looked
  <2>6. Balanced'
    <3>1. \A d \in DOMAIN rounds : verdict'[d] = "hit" <=> verdict[d] = "hit"
      BY <1>1, <2>5, Positions
    <3>2. QED
      BY <1>3, <2>1, <3>1, SameHits DEF Strict, Even
  <2>7. Marks'
    BY <1>2, <1>3, <1>5, <2>1 DEF Strict, Marks
  <2>8. QED
    BY <2>2, <2>3, <2>4, <2>5, <2>6, <2>7 DEF Strict
<1>10. QED
  BY <1>6, <1>7, <1>8, <1>9 DEF IInv

LEMMA LevelKeeps == IInv /\ OnLevelChange => IInv'
<1> SUFFICES ASSUME IInv, OnLevelChange PROVE IInv'
  OBVIOUS
<1>1. Types /\ World /\ Loose
  BY DEF IInv
<1>2. /\ game = Idle /\ game' = game /\ UNCHANGED world /\ UNCHANGED <<mixed, tied, misplaced, overlooked>>
      /\ records' = <<>> /\ reports' = <<>>
      /\ verdict' = [c \in Rounds |-> IF \E r \in Range(records) : r.cmd = c /\ ~r.resolved
                                        THEN "cleared" ELSE verdict[c]]
      /\ orphan' = (orphan \/ \E r \in Range(records) : Awaited(r.cmd))
  BY DEF OnLevelChange
<1>3. /\ rounds' = rounds /\ Worldly'
      /\ \A d : Before(d)' <=> Before(d)
      /\ \A d : Unfired(d)' <=> Unfired(d)
      /\ \A d, k : Coming(d, k)' <=> Coming(d, k)
      /\ \A d : Awaited(d)' <=> Awaited(d)
      /\ \A d : Even(d)' <=> Even(d)
  BY <1>1, <1>2, SameWorld
<1>4. Range(records') = {} /\ DOMAIN records' = {} /\ DOMAIN reports' = {}
  BY <1>2 DEF Range
<1>5. verdict' \in [Rounds -> Verdicts]
  BY <1>1, <1>2 DEF Types, Verdicts
<1>6. \A c \in Rounds : verdict'[c] = verdict[c] \/ (verdict[c] = "none" /\ verdict'[c] = "cleared" /\ c \in DOMAIN rounds)
  <2>1. \A r \in Range(records) : ~r.resolved => verdict[r.cmd] = "none" /\ r.cmd \in DOMAIN rounds
    BY <1>1 DEF Loose, Unsaid, InOrder
  <2>2. QED
    BY <1>2, <2>1
<1>7. Types'
  <2>1. <<>> \in Seq(Shots) /\ <<>> \in Seq(Hits)
    OBVIOUS
  <2>2. QED
    BY <1>1, <1>2, <1>5, <2>1 DEF Types, world
<1>8. World'
  <2>1. \A d : d = game'.cmd => Before(d)'
    BY <1>1, <1>2, <1>3 DEF World, ToldBefore
  <2>2. QED
    BY <1>3, <1>4, <2>1 DEF World, Worldly, ToldBefore, Before
<1>9. Loose'
  <2>1. InOrder'
    BY <1>4 DEF InOrder, Sorted
  <2>2. Unsaid'
    BY <1>1, <1>3, <1>4, <1>6 DEF Loose, Unsaid
  <2>3. Reported'
    BY <1>4 DEF Reported
  <2>4. ImpactAtHand'
    BY <1>1, <1>2 DEF Loose, ImpactAtHand, Idle
  <2>5. Alone'
    <3>1. game'.cmd \in DOMAIN rounds => Live(game'.cmd)
      BY <1>2 DEF Live
    <3>2. QED
      BY <1>1, <1>2, <1>3, <1>4, <3>1, AloneStays DEF Loose
  <2>6. QED
    BY <2>1, <2>2, <2>3, <2>4, <2>5 DEF Loose
<1>10. ASSUME Clean' PROVE Strict'
  <2>1. Strict /\ \A r \in Range(records) : ~Awaited(r.cmd)
    BY <1>2, <1>10 DEF IInv, Clean
  <2>2. OwnImpacts'
    BY <1>4 DEF OwnImpacts
  <2>3. Expected'
    BY <1>3, <1>4, <2>1 DEF Strict, Expected
  <2>4. HitsResolve'
    BY <1>4 DEF HitsResolve
  <2>5. SaidTruly'
    BY <1>1, <1>2, <1>3, <1>6, <2>1, Positions DEF Strict, SaidTruly, Truth, HitOrMiss
  <2>6. Balanced'
    <3>1. \A d \in DOMAIN rounds : verdict'[d] = "hit" <=> verdict[d] = "hit"
      BY <1>1, <1>6, Positions
    <3>2. QED
      BY <1>3, <2>1, <3>1, SameHits DEF Strict, Even
  <2>7. Marks'
    BY <1>2, <1>4, <2>1 DEF Strict, Marks, Idle
  <2>8. QED
    BY <2>2, <2>3, <2>4, <2>5, <2>6, <2>7 DEF Strict
<1>11. QED
  BY <1>7, <1>8, <1>9, <1>10 DEF IInv

\* The reports that a marker leaves.
LEMMA PlaceDoes ==
  ASSUME Types, PlaceMarker
  PROVE  /\ reports' \in Seq(Hits)
         /\ \E k : /\ Thins(k, reports', reports)
                   /\ Near # {} => Nearest \in Near /\ \A i \in DOMAIN reports' : k[i] # Nearest
<1>1. reports \in Seq(Hits)
  BY DEF Types
<1>2. ASSUME NEW hs \in Seq(Hits)
      PROVE  KeepRecent(hs) \in Seq(Hits) /\ \E g : Thins(g, KeepRecent(hs), hs)
  BY <1>2, OnlyThins DEF KeepRecent
<1>3. CASE Near = {}
  <2>1. reports' = KeepRecent(reports)
    BY <1>3 DEF PlaceMarker
  <2>2. QED
    BY <1>1, <1>2, <1>3, <2>1
<1>4. CASE Near # {}
  <2>1. reports' = KeepRecent(RemoveAt(reports, Nearest))
    BY <1>4 DEF PlaceMarker
  <2>2. Nearest \in Near
    <3> DEFINE M == {i \in Near : \A j \in Near : reports[i].age <= reports[j].age}
               A == {reports[i].age : i \in Near}
    <3>1. Near \subseteq DOMAIN reports /\ DOMAIN reports \subseteq Nat
      BY Positions DEF Near
    <3>2. \A i \in Near : reports[i].age \in Nat
      BY <3>1, Positions, Consts DEF Hits
    <3>3. PICK a \in A : \A b \in A : a <= b
      <4>1. A \subseteq Nat /\ A # {}
        BY <1>4, <3>2
      <4> HIDE DEF A
      <4>2. QED
        BY <4>1, Least
    <3>4. M # {} /\ M \subseteq Nat
      BY <3>1, <3>3
    <3> HIDE DEF M
    <3>5. Min(M) \in M
      BY <3>4, MinIs
    <3>6. Nearest = Min(M)
      BY DEF Nearest, M
    <3>7. QED
      BY <3>5, <3>6 DEF M
  <2>3. PICK n \in DOMAIN reports : n = Nearest
    BY <2>2 DEF Near
  <2>4. PICK hs : hs = RemoveAt(reports, n)
    OBVIOUS
  <2>5. PICK h : hs \in Seq(Hits) /\ Thins(h, hs, reports) /\ \A i \in DOMAIN hs : h[i] # n
    BY <1>1, <2>4, RemoveAtThins
  <2>6. PICK g : KeepRecent(hs) \in Seq(Hits) /\ Thins(g, KeepRecent(hs), hs)
    BY <1>2, <2>5
  <2>7. reports' = KeepRecent(hs)
    BY <2>1, <2>3, <2>4
  <2>8. PICK k : k = [i \in DOMAIN reports' |-> h[g[i]]]
    OBVIOUS
  <2>9. Thins(k, reports', reports) /\ \A i \in DOMAIN reports' : k[i] # n
    BY <2>5, <2>6, <2>7, <2>8 DEF Thins
  <2>10. QED
    BY <2>2, <2>3, <2>6, <2>7, <2>9
<1>5. QED
  BY <1>3, <1>4

LEMMA PlaceKeeps == IInv /\ PlaceMarker => IInv'
<1> SUFFICES ASSUME IInv, PlaceMarker PROVE IInv'
  OBVIOUS
<1>1. Types /\ World /\ Loose
  BY DEF IInv
<1>2. /\ game.pc = "hurt" /\ game' = Idle /\ UNCHANGED <<records, world, verdict, mixed, orphan, tied>>
      /\ Near # {} => misplaced' = (misplaced \/ reports[Nearest].cmd # game.cmd) /\ overlooked' = overlooked
      /\ Near = {} /\ WithImpact(game.victim) # {} =>
           /\ misplaced' = (misplaced \/ (~game.polled /\ records[Max(WithImpact(game.victim))].of # game.cmd))
           /\ overlooked' = overlooked
      /\ Near = {} /\ WithImpact(game.victim) = {} =>
           /\ misplaced' = misplaced /\ overlooked' = (overlooked \/ (game.impact /\ ~game.polled))
  BY DEF PlaceMarker
<1>3. /\ rounds' = rounds /\ Worldly'
      /\ \A d : Before(d)' <=> Before(d)
      /\ \A d : Unfired(d)' <=> Unfired(d)
      /\ \A d, k : Coming(d, k)' <=> Coming(d, k)
      /\ \A d : Awaited(d)' <=> Awaited(d)
      /\ \A d : Even(d)' <=> Even(d)
  BY <1>1, <1>2, SameWorld
<1>4. PICK k : /\ reports' \in Seq(Hits) /\ Thins(k, reports', reports)
               /\ Near # {} => Nearest \in Near /\ \A i \in DOMAIN reports' : k[i] # Nearest
  BY <1>1, PlaceDoes
<1>5. \A i \in DOMAIN reports' : k[i] \in DOMAIN reports /\ reports'[i] = reports[k[i]]
  BY <1>4 DEF Thins
<1>6. \A i, j \in DOMAIN reports' : k[i] = k[j] => i = j
  <2>1. DOMAIN reports' \subseteq Nat /\ DOMAIN reports \subseteq Nat
    BY <1>1, <1>4, Positions, LenProperties
  <2>2. \A i, j \in DOMAIN reports' : i < j \/ j < i \/ i = j
    BY <2>1
  <2>3. \A i, j \in DOMAIN reports' : i < j => k[i] < k[j]
    BY <1>4 DEF Thins
  <2>4. \A i \in DOMAIN reports' : ~(k[i] < k[i])
    BY <1>5, <2>1
  <2>5. QED
    BY <2>2, <2>3, <2>4
<1>7. ~overlooked'
  BY <1>1, <1>2 DEF Loose, ImpactAtHand
<1>8. Idle \in Games /\ Idle.cmd = None /\ Idle.pc = "idle"
  BY Consts DEF Idle, Games
<1>9. Types'
  BY <1>1, <1>2, <1>4, <1>8 DEF Types, world
<1>10. World'
  <2>1. \A r \in Range(records) : Before(r.of)'
    BY <1>1, <1>3 DEF World, ToldBefore
  <2>2. \A i \in DOMAIN reports' : reports'[i].cmd # None /\ Before(reports[k[i]].cmd)
    BY <1>1, <1>5 DEF World, ToldBefore
  <2>3. \A i \in DOMAIN reports' : \A d : d = reports'[i].cmd => Before(d)'
    BY <1>3, <1>5, <2>2
  <2>4. Before(None)
    BY <1>1, Consts, Positions, KindsAre DEF Before
  <2>5. \A d : d = game'.cmd => Before(d)'
    BY <1>2, <1>3, <1>8, <2>4
  <2>6. QED
    BY <1>2, <1>3, <2>1, <2>2, <2>3, <2>5 DEF World, Worldly, ToldBefore, Before
<1>11. Loose'
  <2>1. InOrder' /\ Unsaid'
    BY <1>1, <1>2, <1>3 DEF Loose, InOrder, Unsaid
  <2>2. Reported'
    <3>1. ASSUME NEW i \in DOMAIN reports', NEW j \in DOMAIN reports', reports'[i].cmd = reports'[j].cmd, Even(reports'[i].cmd)
          PROVE  i = j
      BY <1>1, <1>5, <1>6, <3>1 DEF Loose, Reported
    <3>2. ASSUME NEW i \in DOMAIN reports', NEW j \in DOMAIN wire, reports'[i].cmd = wire[j].cmd, Even(reports'[i].cmd)
          PROVE  wire[j].kind = "hurt"
      BY <1>1, <1>5, <3>2 DEF Loose, Reported
    <3>3. QED
      BY <1>2, <1>3, <3>1, <3>2 DEF Reported, world, Even
  <2>3. ImpactAtHand'
    BY <1>2, <1>7, <1>8 DEF ImpactAtHand
  <2>4. Alone'
    <3>1. \A r \in Range(records') : Live(r.cmd)
      BY <1>2 DEF Live
    <3>2. \A i \in DOMAIN reports' : reports'[i].age <= ReportWindow => Live(reports'[i].cmd)
      BY <1>5 DEF Live, Range
    <3>3. game'.cmd \notin DOMAIN rounds
      BY <1>1, <1>2, <1>8, Positions, Consts
    <3>4. QED
      BY <1>1, <1>2, <1>3, <3>1, <3>2, <3>3, AloneStays DEF Loose
  <2>5. QED
    BY <2>1, <2>2, <2>3, <2>4 DEF Loose
<1>12. ASSUME Clean' PROVE Strict'
  <2>1. Strict
    BY <1>2, <1>12 DEF IInv, Clean
  <2>2. OwnImpacts' /\ Expected' /\ HitsResolve'
    BY <1>2, <1>3, <2>1 DEF Strict, OwnImpacts, Expected, HitsResolve
  <2>3. SaidTruly'
    BY <1>2, <1>3, <2>1 DEF Strict, SaidTruly, Truth
  <2>4. Balanced'
    BY <1>2, <1>3, <2>1, SameHits DEF Strict, Even
  <2>5. /\ \A i \in DOMAIN reports : reports[i].age < ReportWindow => reports[i].cmd = game.cmd
        /\ ~game.polled /\ WithImpact(game.victim) # {} => records[Max(WithImpact(game.victim))].of = game.cmd
        /\ ~misplaced
    BY <1>2, <2>1 DEF Strict, Marks
  <2>6. ~misplaced'
    BY <1>2, <1>4, <2>5 DEF Near
  <2>7. ASSUME NEW i \in DOMAIN reports', reports'[i].age < ReportWindow, Even(reports'[i].cmd)
        PROVE  FALSE
    <3>1. k[i] \in Near /\ reports[k[i]].cmd = game.cmd /\ Even(game.cmd)
      BY <1>5, <2>5, <2>7 DEF Near
    <3>2. Nearest \in DOMAIN reports /\ reports[Nearest].cmd = game.cmd /\ k[i] # Nearest
      BY <1>4, <2>5, <3>1 DEF Near
    <3>3. QED
      BY <1>1, <1>5, <3>1, <3>2 DEF Loose, Reported
  <2>8. Marks'
    <3>1. game'.pc # "hurt"
      BY <1>2, <1>8
    <3>2. QED
      BY <1>3, <2>6, <2>7, <3>1 DEF Marks, Even
  <2>9. QED
    BY <2>2, <2>3, <2>4, <2>8 DEF Strict
<1>13. QED
  BY <1>9, <1>10, <1>11, <1>12 DEF IInv

----------------------------------------------------------------------------
(* Steps in which the host tells something                                   *)

\* A report is kept, and perhaps the oldest one given up.
LEMMA ReportMade ==
  ASSUME Types, NEW e \in Hits, reports' = Bounded(Append(reports, e))
  PROVE  /\ reports' \in Seq(Hits)
         /\ \E o \in {0, 1} : \A i \in DOMAIN reports' :
              /\ i \in Nat
              /\ i + o \in DOMAIN reports => reports'[i] = reports[i + o]
              /\ i + o \notin DOMAIN reports => i + o = Len(reports) + 1 /\ reports'[i] = e
<1> DEFINE made == Append(reports, e)
           n == Len(reports)
<1>1. /\ made \in Seq(Hits) /\ Len(made) = n + 1 /\ DOMAIN made = 1..n + 1 /\ DOMAIN reports = 1..n /\ n \in Nat
      /\ \A i \in DOMAIN reports : made[i] = reports[i]
      /\ made[n + 1] = e
  BY Appended DEF Types
<1>2. reports' = IF Len(made) > Capacity THEN Tail(made) ELSE made
  BY DEF Bounded
<1> HIDE DEF made, n
<1>3. \A j \in 1..n + 1 : j \in DOMAIN reports \/ j = n + 1
  BY <1>1
<1>4. n + 1 \notin DOMAIN reports
  BY <1>1
<1>5. CASE Len(made) > Capacity
  <2>1. made # <<>>
    BY <1>1
  <2>2. /\ Tail(made) \in Seq(Hits) /\ DOMAIN Tail(made) = 1..Len(made) - 1
        /\ \A i \in DOMAIN Tail(made) : i + 1 \in DOMAIN made /\ Tail(made)[i] = made[i + 1]
    BY <1>1, <2>1, Shortened
  <2>3. reports' = Tail(made)
    BY <1>2, <1>5
  <2>4. \A i \in DOMAIN reports' :
              /\ i \in Nat
              /\ i + 1 \in DOMAIN reports => reports'[i] = reports[i + 1]
              /\ i + 1 \notin DOMAIN reports => i + 1 = n + 1 /\ reports'[i] = e
    <3> SUFFICES ASSUME NEW i \in DOMAIN reports', NEW j, j = i + 1
                 PROVE  /\ i \in Nat
                        /\ j \in DOMAIN reports => reports'[i] = reports[j]
                        /\ j \notin DOMAIN reports => j = n + 1 /\ reports'[i] = e
      OBVIOUS
    <3>1. j \in DOMAIN made /\ reports'[i] = made[j]
      BY <2>2, <2>3
    <3>2. i \in Nat
      BY <2>2, <2>3
    <3>3. QED
      BY <1>1, <1>3, <3>1, <3>2
  <2>5. QED
    BY <2>2, <2>3, <2>4 DEF n
<1>6. CASE ~(Len(made) > Capacity)
  <2>1. reports' = made
    BY <1>2, <1>6
  <2>2. \A i \in DOMAIN reports' :
              /\ i \in Nat
              /\ i + 0 \in DOMAIN reports => reports'[i] = reports[i + 0]
              /\ i + 0 \notin DOMAIN reports => i + 0 = n + 1 /\ reports'[i] = e
    <3> SUFFICES ASSUME NEW i \in DOMAIN reports', NEW j, j = i + 0
                 PROVE  /\ i \in Nat
                        /\ j \in DOMAIN reports => reports'[i] = reports[j]
                        /\ j \notin DOMAIN reports => j = n + 1 /\ reports'[i] = e
      OBVIOUS
    <3>1. i \in Nat /\ i \in 1..n + 1
      BY <1>1, <2>1
    <3>2. j = i
      BY <3>1
    <3>3. QED
      BY <1>1, <1>3, <2>1, <3>1, <3>2
  <2>3. QED
    BY <1>1, <2>1, <2>2 DEF n
<1>7. QED
  BY <1>5, <1>6

LEMMA ReportKeeps == IInv /\ OnReportHit => IInv'
<1> SUFFICES ASSUME IInv, OnReportHit PROVE IInv'
  OBVIOUS
<1>1. Types /\ World /\ Loose
  BY DEF IInv
<1>2. PICK h : h = Head(wire)
  OBVIOUS
<1>3. PICK e : e = [cmd |-> h.cmd, age |-> 0]
  OBVIOUS
<1>4. /\ game = Idle /\ wire # <<>> /\ h.kind = "report" /\ wire' = Tail(wire)
      /\ reports' = Bounded(Append(reports, e))
      /\ UNCHANGED <<records, game, rounds, firing, history>>
  BY <1>2, <1>3 DEF OnReportHit, Told
<1>5. UNCHANGED <<records, game, rounds, firing, verdict, mixed, orphan, tied, misplaced, overlooked>>
  BY <1>4 DEF history
<1>6. Worldly
  BY <1>1 DEF World, Worldly
<1>7. /\ wire' \in Seq(Events) /\ Worldly'
      /\ h \in Events /\ h.cmd \in DOMAIN rounds /\ h.victim = rounds[h.cmd].hit
      /\ Coming(h.cmd, h.kind) /\ Awaited(h.cmd)
      /\ Before(h.cmd)' /\ \A c : Before(c) => Before(c)'
      /\ \A c, k : Coming(c, k)' => Coming(c, k)
      /\ \A c, k : Coming(c, k) => Coming(c, k)' \/ (c = h.cmd /\ k = h.kind)
      /\ \A c : Unfired(c)' <=> Unfired(c)
      /\ \A c : Awaited(c)' => Awaited(c)
      /\ Even(h.cmd) => /\ \A k \in Kinds : Coming(h.cmd, k)' => Rank(h.kind) < Rank(k)
                        /\ IF h.victim = None THEN h.kind = "impact" ELSE Coming(h.cmd, "hurt")
  BY <1>1, <1>2, <1>4, <1>5, <1>6, WireMoves
<1>8. h.cmd \in Rounds /\ h.cmd # None /\ e \in Hits /\ e.cmd = h.cmd
  BY <1>1, <1>3, <1>7, Positions, Consts DEF Hits
<1>9. PICK o \in {0, 1} : \A i \in DOMAIN reports' :
        /\ i \in Nat
        /\ i + o \in DOMAIN reports => reports'[i] = reports[i + o]
        /\ i + o \notin DOMAIN reports => i + o = Len(reports) + 1 /\ reports'[i] = e
  BY <1>1, <1>4, <1>8, ReportMade
<1>10. reports' \in Seq(Hits)
  BY <1>1, <1>4, <1>8, ReportMade
<1>11. \A i \in DOMAIN reports' : reports'[i] = e \/ \E j \in DOMAIN reports : reports'[i] = reports[j]
  BY <1>9
<1>12. Types'
  BY <1>1, <1>5, <1>7, <1>10 DEF Types
<1>13. World'
  <2>1. \A r \in Range(records) : Before(r.of)'
    BY <1>1, <1>7 DEF World, ToldBefore
  <2>2. \A i \in DOMAIN reports' : \A d : d = reports'[i].cmd => d # None /\ Before(d)'
    BY <1>1, <1>7, <1>8, <1>11 DEF World, ToldBefore
  <2>3. \A d : d = game'.cmd => Before(d)'
    BY <1>1, <1>5, <1>7 DEF World, ToldBefore
  <2>4. QED
    BY <1>5, <1>7, <2>1, <2>2, <2>3 DEF World, Worldly, ToldBefore, Before
<1>14. Loose'
  <2>1. InOrder'
    BY <1>1, <1>5, <1>7 DEF Loose, InOrder
  <2>2. Unsaid'
    BY <1>1, <1>5 DEF Loose, Unsaid
  <2>3. Reported'
    <3>1. ASSUME NEW j \in DOMAIN reports, reports[j].cmd = h.cmd, Even(h.cmd) PROVE FALSE
      <4>1. PICK i \in DOMAIN wire : wire[i].cmd = h.cmd /\ wire[i].kind = "report"
        BY <1>4, <1>7 DEF Coming
      <4>2. QED
        BY <1>1, <3>1, <4>1 DEF Loose, Reported
    <3>2. ASSUME NEW i \in DOMAIN reports', NEW j \in DOMAIN reports', reports'[i].cmd = reports'[j].cmd, Even(reports'[i].cmd)
          PROVE  i = j
      <4>0. PICK a, b : a = i + o /\ b = j + o
        OBVIOUS
      <4>1. a = b => i = j
        BY <1>9, <4>0
      <4>2. CASE a \in DOMAIN reports /\ b \in DOMAIN reports
        BY <1>1, <1>9, <3>2, <4>0, <4>1, <4>2 DEF Loose, Reported
      <4>3. CASE a \notin DOMAIN reports /\ b \in DOMAIN reports
        BY <1>8, <1>9, <3>1, <3>2, <4>0, <4>3
      <4>4. CASE a \in DOMAIN reports /\ b \notin DOMAIN reports
        BY <1>8, <1>9, <3>1, <3>2, <4>0, <4>4
      <4>5. CASE a \notin DOMAIN reports /\ b \notin DOMAIN reports
        BY <1>9, <4>0, <4>1, <4>5
      <4>6. QED
        BY <4>2, <4>3, <4>4, <4>5
    <3>3. ASSUME NEW i \in DOMAIN reports', NEW j \in DOMAIN wire', reports'[i].cmd = wire'[j].cmd, Even(reports'[i].cmd)
          PROVE  wire'[j].kind = "hurt"
      <4>1. PICK d, k : d = wire'[j].cmd /\ k = wire'[j].kind
        OBVIOUS
      <4>2. Coming(d, k)' /\ Even(d)
        BY <3>3, <4>1 DEF Coming
      <4>3. CASE reports'[i] = e
        <5>1. d = h.cmd
          BY <1>8, <3>3, <4>1, <4>3
        <5>2. k \in Kinds
          <6>1. wire'[j] \in Events
            BY <1>7, LenProperties, ElementOfSeq
          <6>2. QED
            BY <4>1, <6>1 DEF Events
        <5>3. Rank(h.kind) < Rank(k) /\ Rank(h.kind) = 2 /\ Rank(k) \in 1..3 /\ (Rank(k) = 3 <=> k = "hurt")
          <6>1. Rank(h.kind) < Rank(k)
            BY <1>7, <4>2, <5>1, <5>2
          <6>2. Rank(h.kind) = 2
            BY <1>4 DEF Rank
          <6>3. QED
            BY <5>2, <6>1, <6>2, KindsAre
        <5>4. QED
          BY <4>1, <5>3
      <4>4. CASE \E m \in DOMAIN reports : reports'[i] = reports[m]
        <5>1. PICK m \in DOMAIN reports : reports'[i] = reports[m]
          BY <4>4
        <5>2. Coming(d, k)
          BY <1>7, <4>2
        <5>3. PICK l \in DOMAIN wire : wire[l].cmd = d /\ wire[l].kind = k
          BY <5>2 DEF Coming
        <5>4. wire[l].kind = "hurt"
          BY <1>1, <3>3, <4>1, <5>1, <5>3 DEF Loose, Reported
        <5>5. QED
          BY <4>1, <5>3, <5>4
      <4>5. QED
        BY <1>11, <4>3, <4>4
    <3>4. QED
      BY <1>5, <3>2, <3>3 DEF Reported, Even
  <2>4. ImpactAtHand'
    BY <1>1, <1>5 DEF Loose, ImpactAtHand, WithImpact
  <2>5. Alone'
    <3>1. \A r \in Range(records') : Live(r.cmd)
      BY <1>5 DEF Live
    <3>2. \A i \in DOMAIN reports' : reports'[i].age <= ReportWindow => Live(reports'[i].cmd)
      BY <1>7, <1>8, <1>11 DEF Live, Range
    <3>3. game'.cmd \in DOMAIN rounds => Live(game'.cmd)
      BY <1>5 DEF Live
    <3>4. QED
      BY <1>1, <1>5, <1>7, <3>1, <3>2, <3>3, AloneStays DEF Loose
  <2>6. QED
    BY <2>1, <2>2, <2>3, <2>4, <2>5 DEF Loose
<1>15. ASSUME Clean' PROVE Strict'
  <2>1. Strict
    BY <1>5, <1>15 DEF IInv, Clean
  <2>2. \A c : (Coming(c, "impact")' <=> Coming(c, "impact")) /\ (Coming(c, "hurt")' <=> Coming(c, "hurt"))
    BY <1>4, <1>7
  <2>3. OwnImpacts'
    BY <1>5, <1>7, <2>1, <2>2 DEF Strict, OwnImpacts, Even
  <2>4. Expected'
    BY <1>5, <1>7, <2>1 DEF Strict, Expected, Even
  <2>5. HitsResolve'
    BY <1>5, <2>1, <2>2 DEF Strict, HitsResolve, Even
  <2>6. SaidTruly'
    BY <1>5, <2>1 DEF Strict, SaidTruly, Truth, Even
  <2>7. Balanced'
    BY <1>5, <2>1, <2>2, SameHits DEF Strict, Even
  <2>8. Marks'
    <3>1. ASSUME NEW i \in DOMAIN reports', reports'[i].age < ReportWindow, Even(reports'[i].cmd), NEW d, d = reports'[i].cmd
          PROVE  Coming(d, "hurt")'
      <4>1. CASE reports'[i] = e
        <5>1. Coming(h.cmd, "hurt")
          BY <1>4, <1>7, <1>8, <3>1, <4>1
        <5>2. QED
          BY <1>8, <2>2, <3>1, <4>1, <5>1
      <4>2. CASE \E j \in DOMAIN reports : reports'[i] = reports[j]
        <5>1. PICK j \in DOMAIN reports : reports'[i] = reports[j]
          BY <4>2
        <5>2. reports[j].cmd # None /\ game.cmd = None
          BY <1>1, <1>4 DEF World, ToldBefore, Idle
        <5>3. Coming(reports[j].cmd, "hurt")
          BY <2>1, <3>1, <5>1, <5>2 DEF Strict, Marks
        <5>4. QED
          BY <2>2, <3>1, <5>1, <5>3
      <4>3. QED
        BY <1>11, <4>1, <4>2
    <3>2. ~misplaced' /\ game'.pc # "hurt"
      BY <1>4, <1>5, <2>1 DEF Strict, Marks, Idle
    <3>3. \A i \in DOMAIN reports' : reports'[i].age < ReportWindow /\ ~rounds'[reports'[i].cmd].odd =>
             \E j \in DOMAIN wire' : wire'[j].cmd = reports'[i].cmd /\ wire'[j].kind = "hurt"
      BY <1>5, <3>1 DEF Coming, Even
    <3>4. QED
      BY <3>2, <3>3 DEF Marks, Coming, Even
  <2>9. QED
    BY <2>3, <2>4, <2>5, <2>6, <2>7, <2>8 DEF Strict
<1>16. QED
  BY <1>12, <1>13, <1>14, <1>15 DEF IInv

\* A hurt resolves one record of the victim, if there is one: F is the set of it, or empty.
Settled(F) == {[s EXCEPT !.resolved = TRUE] : s \in F}

Resolves(F, v) ==
  /\ F \in SUBSET Range(records)
  /\ F = IF Candidates(v) = {} THEN {} ELSE {records[Resolvable(v)]}
  /\ \A s \in F : ~s.resolved /\ s.victim = v
  /\ Range(records') = (Range(records) \ F) \cup Settled(F)
  /\ \A c \in Rounds : verdict'[c] = IF \E s \in F : s.cmd = c THEN "hit" ELSE verdict[c]

LEMMA HurtDoes ==
  ASSUME Types, Loose, ParseEvent, NEW h, h = Head(wire), h \in Events, h.victim \in Players
  PROVE  /\ records' \in Seq(Shots) /\ Sorted(records') /\ verdict' \in [Rounds -> Verdicts] /\ game' \in Games
         /\ game'.pc = "hurt" /\ game'.cmd = h.cmd /\ game'.victim = h.victim
         /\ DOMAIN records' = DOMAIN records
         /\ \A i \in DOMAIN records :
              /\ records'[i].cmd = records[i].cmd /\ records'[i].victim = records[i].victim
              /\ records'[i].of = records[i].of /\ records'[i].impact = records[i].impact
         /\ game'.impact => WithImpact(h.victim) # {}
         /\ \E F : Resolves(F, h.victim)
<1> DEFINE v == h.victim
<1>1. records \in Seq(Shots) /\ Sorted(records) /\ verdict \in [Rounds -> Verdicts]
  BY DEF Types, Loose, InOrder
<1>2. h.cmd \in Rounds
  BY DEF Events
<1>3. CASE Candidates(v) = {}
  <2>1. records' = records /\ verdict' = verdict /\ game' = [Idle EXCEPT !.pc = "hurt", !.cmd = h.cmd, !.victim = v]
    BY <1>3 DEF ParseEvent
  <2>2. /\ game' \in Games /\ game'.pc = "hurt" /\ game'.cmd = h.cmd /\ game'.victim = h.victim /\ ~game'.impact
    BY <1>2, <2>1 DEF Games, Idle
  <2>3. PICK F : F = {}
    OBVIOUS
  <2>4. Resolves(F, h.victim)
    BY <1>3, <2>1, <2>3 DEF Resolves, Settled
  <2>5. records' \in Seq(Shots) /\ Sorted(records') /\ verdict' \in [Rounds -> Verdicts]
    BY <1>1, <2>1
  <2>6. QED
    BY <2>1, <2>2, <2>4, <2>5
<1>4. CASE Candidates(v) # {}
  <2>1. PICK f : f = Resolvable(v)
    OBVIOUS
  <2>2. f \in Candidates(v)
    <3>1. Candidates(v) \subseteq DOMAIN records /\ DOMAIN records \subseteq Nat
      BY Positions DEF Candidates
    <3>2. CASE Latest(v) = {}
      BY <1>4, <2>1, <3>1, <3>2, MinIs DEF Resolvable
    <3>3. CASE Latest(v) # {}
      <4>1. Latest(v) \subseteq Candidates(v)
        BY DEF Latest
      <4>2. Min(Latest(v)) \in Latest(v)
        BY <3>1, <3>3, <4>1, MinIs
      <4>3. QED
        BY <2>1, <3>3, <4>1, <4>2 DEF Resolvable
    <3>4. QED
      BY <3>2, <3>3
  <2>3. f \in DOMAIN records /\ records[f].victim = v /\ ~records[f].resolved
    BY <2>2 DEF Candidates
  <2>4. /\ records' = [records EXCEPT ![f].resolved = TRUE]
        /\ verdict' = [verdict EXCEPT ![records[f].cmd] = "hit"]
        /\ game' = [pc |-> "hurt", cmd |-> h.cmd, victim |-> v, impact |-> Usable(records[f]), polled |-> FALSE]
    BY <1>4, <2>1 DEF ParseEvent, Resolve
  <2>5. PICK s : s = records[f]
    OBVIOUS
  <2>6. s \in Shots /\ s \in Range(records) /\ s.cmd \in Rounds
    BY <2>3, <2>5, Positions DEF Shots
  <2>7. PICK x : x = [s EXCEPT !.resolved = TRUE]
    OBVIOUS
  <2>8. x \in Shots /\ x.cmd = s.cmd /\ x.victim = s.victim /\ x.of = s.of /\ x.impact = s.impact
    BY <2>6, <2>7 DEF Shots
  <2>9. records' = Put(records, f, x)
    BY <2>4, <2>5, <2>7 DEF Put
  <2>10. /\ records' \in Seq(Shots) /\ Sorted(records') /\ DOMAIN records' = DOMAIN records
         /\ records'[f] = x /\ \A i \in DOMAIN records : i # f => records'[i] = records[i]
         /\ Range(records') = (Range(records) \ {records[f]}) \cup {x}
    BY <1>1, <2>3, <2>5, <2>8, <2>9, Edited
  <2>11. \A i \in DOMAIN records :
           /\ records'[i].cmd = records[i].cmd /\ records'[i].victim = records[i].victim
           /\ records'[i].of = records[i].of /\ records'[i].impact = records[i].impact
    BY <2>5, <2>8, <2>10
  <2>12. Usable(records[f]) \in BOOLEAN
    BY DEF Usable
  <2>13. PICK b : b = Usable(records[f])
    OBVIOUS
  <2>14. /\ game' \in Games /\ game'.pc = "hurt" /\ game'.cmd = h.cmd /\ game'.victim = h.victim
         /\ game'.impact = b
    <3>1. b \in BOOLEAN
      BY <2>12, <2>13
    <3>2. game' = [pc |-> "hurt", cmd |-> h.cmd, victim |-> v, impact |-> b, polled |-> FALSE]
      BY <2>4, <2>13
    <3>3. QED
      BY <1>2, <3>1, <3>2 DEF Games
  <2>15. game'.impact => WithImpact(v) # {}
    BY <2>3, <2>13, <2>14 DEF WithImpact
  <2>16. /\ verdict' \in [Rounds -> Verdicts]
         /\ \A c \in Rounds : verdict'[c] = IF s.cmd = c THEN "hit" ELSE verdict[c]
    BY <1>1, <2>4, <2>5, <2>6 DEF Verdicts
  <2>17. PICK F : F = {s}
    OBVIOUS
  <2>18. Settled(F) = {x}
    BY <2>7, <2>17 DEF Settled
  <2>19. Resolves(F, h.victim)
    <3>1. F \in SUBSET Range(records) /\ \A t \in F : ~t.resolved /\ t.victim = h.victim
      BY <2>3, <2>5, <2>6, <2>17
    <3>2. F = IF Candidates(h.victim) = {} THEN {} ELSE {records[Resolvable(h.victim)]}
      BY <1>4, <2>1, <2>5, <2>17
    <3>3. Range(records') = (Range(records) \ F) \cup Settled(F)
      BY <2>5, <2>10, <2>17, <2>18
    <3>4. \A c \in Rounds : verdict'[c] = IF \E t \in F : t.cmd = c THEN "hit" ELSE verdict[c]
      BY <2>16, <2>17
    <3>5. QED
      BY <3>1, <3>2, <3>3, <3>4 DEF Resolves
  <2>20. QED
    BY <2>10, <2>11, <2>14, <2>15, <2>16, <2>19
<1>5. QED
  BY <1>3, <1>4

LEMMA HurtKeeps == IInv /\ ParseEvent => IInv'
<1> SUFFICES ASSUME IInv, ParseEvent PROVE IInv'
  OBVIOUS
<1>1. Types /\ World /\ Loose /\ Worldly
  BY DEF IInv, World, Worldly
<1>2. PICK h : h = Head(wire)
  OBVIOUS
<1>3. /\ game = Idle /\ wire # <<>> /\ h.kind = "hurt" /\ wire' = Tail(wire)
      /\ tied' = (tied \/ Cardinality(Latest(h.victim)) > 1)
      /\ UNCHANGED <<reports, rounds, firing, mixed, orphan, misplaced, overlooked>>
  BY <1>2 DEF ParseEvent, Told
<1>4. /\ wire' \in Seq(Events) /\ Worldly'
      /\ h \in Events /\ h.cmd \in DOMAIN rounds /\ h.victim = rounds[h.cmd].hit /\ h.victim \in Players
      /\ Coming(h.cmd, h.kind) /\ Awaited(h.cmd) /\ ~Unfired(h.cmd)
      /\ Before(h.cmd)' /\ \A c : Before(c) => Before(c)' /\ c <= h.cmd
      /\ \A c, k : Coming(c, k) => h.cmd <= c
      /\ \A c, k : Coming(c, k)' => Coming(c, k)
      /\ \A c, k : Coming(c, k) => Coming(c, k)' \/ (c = h.cmd /\ k = h.kind)
      /\ \A c : Unfired(c)' <=> Unfired(c)
      /\ \A c : Unfired(c) => h.cmd < c
      /\ \A c : Awaited(c)' => Awaited(c)
      /\ Even(h.cmd) => ~Awaited(h.cmd)'
  BY <1>1, <1>2, <1>3, WireMoves
<1> DEFINE F == IF Candidates(h.victim) = {} THEN {} ELSE {records[Resolvable(h.victim)]}
<1>5. /\ F \in SUBSET Range(records)
      /\ F = IF Candidates(h.victim) = {} THEN {} ELSE {records[Resolvable(h.victim)]}
      /\ \A s \in F : ~s.resolved /\ s.victim = h.victim
      /\ Range(records') = (Range(records) \ F) \cup Settled(F)
      /\ \A c \in Rounds : verdict'[c] = IF \E s \in F : s.cmd = c THEN "hit" ELSE verdict[c]
  <2>1. PICK G : Resolves(G, h.victim)
    BY <1>1, <1>2, <1>4, HurtDoes
  <2>2. G = F
    BY <2>1 DEF Resolves
  <2>3. QED
    BY <2>1, <2>2 DEF Resolves
<1> HIDE DEF F
<1>6. /\ records' \in Seq(Shots) /\ Sorted(records') /\ verdict' \in [Rounds -> Verdicts] /\ game' \in Games
      /\ game'.pc = "hurt" /\ game'.cmd = h.cmd /\ game'.victim = h.victim
      /\ DOMAIN records' = DOMAIN records
      /\ \A i \in DOMAIN records :
           /\ records'[i].cmd = records[i].cmd /\ records'[i].victim = records[i].victim
           /\ records'[i].of = records[i].of /\ records'[i].impact = records[i].impact
      /\ game'.impact => WithImpact(h.victim) # {}
  BY <1>1, <1>2, <1>4, HurtDoes
<1>7. \A r \in Range(records) : r \in Shots /\ r.cmd \in Rounds /\ r.cmd \in DOMAIN rounds
  BY <1>1, Positions DEF Loose, InOrder
<1>8. \A r, s \in Range(records) : r.cmd = s.cmd => r = s
  BY <1>1, SortedIs DEF Types, Loose, InOrder
<1>9. \A r \in Range(records') : \E s \in Range(records) :
        /\ r.cmd = s.cmd /\ r.victim = s.victim /\ r.age = s.age /\ r.impact = s.impact
        /\ r.of = s.of /\ r.confirmed = s.confirmed
        /\ IF s \in F THEN r.resolved ELSE r = s
  <2>1. ASSUME NEW s \in F, NEW r, r = [s EXCEPT !.resolved = TRUE]
        PROVE  /\ r.cmd = s.cmd /\ r.victim = s.victim /\ r.age = s.age /\ r.impact = s.impact
               /\ r.of = s.of /\ r.confirmed = s.confirmed /\ r.resolved
    BY <1>7, <2>1 DEF Shots
  <2>2. ASSUME NEW r \in Range(records') PROVE (r \in Range(records) /\ r \notin F) \/ \E s \in F : r = [s EXCEPT !.resolved = TRUE]
    BY <1>5, <2>2 DEF Settled
  <2>3. ASSUME NEW r \in Range(records')
        PROVE \E s \in Range(records) :
                /\ r.cmd = s.cmd /\ r.victim = s.victim /\ r.age = s.age /\ r.impact = s.impact
                /\ r.of = s.of /\ r.confirmed = s.confirmed
                /\ IF s \in F THEN r.resolved ELSE r = s
    <3>1. CASE r \in Range(records) /\ r \notin F
      BY <3>1
    <3>2. CASE \E s \in F : r = [s EXCEPT !.resolved = TRUE]
      <4>1. PICK s \in F : r = [s EXCEPT !.resolved = TRUE]
        BY <3>2
      <4>2. /\ r.cmd = s.cmd /\ r.victim = s.victim /\ r.age = s.age /\ r.impact = s.impact
            /\ r.of = s.of /\ r.confirmed = s.confirmed /\ r.resolved
        BY <2>1, <4>1
      <4>3. s \in Range(records)
        BY <1>5, <4>1
      <4>4. QED
        BY <4>1, <4>2, <4>3
    <3>3. QED
      BY <2>2, <3>1, <3>2
  <2>4. QED
    BY <2>3
<1>10. Types'
  BY <1>1, <1>3, <1>4, <1>6 DEF Types
<1>11. World'
  <2>1. \A r \in Range(records') : Before(r.of)'
    BY <1>1, <1>4, <1>9 DEF World, ToldBefore
  <2>2. \A i \in DOMAIN reports : \A d : d = reports[i].cmd => d # None /\ Before(d)'
    BY <1>1, <1>4 DEF World, ToldBefore
  <2>3. \A d : d = game'.cmd => Before(d)'
    BY <1>4, <1>6
  <2>4. QED
    BY <1>3, <1>4, <2>1, <2>2, <2>3 DEF World, Worldly, ToldBefore, Before
<1>12. Loose'
  <2>1. InOrder'
    BY <1>1, <1>3, <1>4, <1>6, <1>9 DEF Loose, InOrder, HasImpact
  <2>2. Unsaid'
    <3>1. \A r \in Range(records') : verdict'[r.cmd] = IF r.resolved THEN "hit" ELSE "none"
      <4> SUFFICES ASSUME NEW r \in Range(records') PROVE verdict'[r.cmd] = IF r.resolved THEN "hit" ELSE "none"
        OBVIOUS
      <4>1. PICK s \in Range(records) : r.cmd = s.cmd /\ IF s \in F THEN r.resolved ELSE r = s
        BY <1>9
      <4>2. CASE s \in F
        BY <1>5, <1>7, <4>1, <4>2
      <4>3. CASE s \notin F
        <5>1. ~\E t \in F : t.cmd = s.cmd
          BY <1>5, <1>8, <4>1, <4>3
        <5>2. QED
          BY <1>1, <1>5, <1>7, <4>1, <4>3, <5>1 DEF Loose, Unsaid
      <4>4. QED
        BY <4>2, <4>3
    <3>2. \A c \in Rounds \ DOMAIN rounds : verdict'[c] = "none"
      BY <1>1, <1>5, <1>7 DEF Loose, Unsaid
    <3>3. QED
      BY <1>3, <3>1, <3>2 DEF Unsaid
  <2>3. Reported'
    <3>1. \A i \in DOMAIN reports, j \in DOMAIN wire' :
            reports[i].cmd = wire'[j].cmd /\ Even(reports[i].cmd) => wire'[j].kind = "hurt"
      <4> SUFFICES ASSUME NEW i \in DOMAIN reports, NEW j \in DOMAIN wire', NEW d, d = reports[i].cmd, NEW k, k = wire'[j].kind,
                          d = wire'[j].cmd, Even(d) PROVE k = "hurt"
        OBVIOUS
      <4>1. Coming(d, k)'
        BY DEF Coming
      <4>2. Coming(d, k)
        BY <1>4, <4>1
      <4>3. QED
        BY <1>1, <4>2 DEF Loose, Reported, Coming
    <3>2. QED
      BY <1>1, <1>3, <3>1 DEF Loose, Reported, Even
  <2>4. ImpactAtHand'
    <3>1. game'.impact => {i \in DOMAIN records' : records'[i].victim = game'.victim /\ Usable(records'[i])} # {}
      BY <1>6 DEF WithImpact, Usable, HasImpact
    <3>2. game'.impact => WithImpact(game.victim)' # {}
      BY <3>1 DEF WithImpact, Usable, HasImpact
    <3>3. QED
      BY <1>1, <1>3, <1>4, <1>6, <3>2 DEF Loose, ImpactAtHand
  <2>5. Alone'
    <3>1. \A r \in Range(records') : Live(r.cmd)
      BY <1>9 DEF Live
    <3>2. \A i \in DOMAIN reports' : reports'[i].age <= ReportWindow => Live(reports'[i].cmd)
      BY <1>3 DEF Live, Range
    <3>3. game'.cmd \in DOMAIN rounds => Live(game'.cmd)
      BY <1>4, <1>6 DEF Live
    <3>4. QED
      BY <1>1, <1>3, <1>4, <3>1, <3>2, <3>3, AloneStays DEF Loose
  <2>6. QED
    BY <2>1, <2>2, <2>3, <2>4, <2>5 DEF Loose
<1>13. ASSUME Clean' PROVE Strict'
  <2>1. Strict /\ ~mixed
    BY <1>3, <1>13 DEF IInv, Clean
  <2>2. /\ \A c : Coming(c, "impact")' <=> Coming(c, "impact")
        /\ \A c : c # h.cmd => (Coming(c, "hurt")' <=> Coming(c, "hurt"))
        /\ h.cmd \in Nat
    BY <1>1, <1>3, <1>4, Positions, Consts
  <2>3. \A r \in Range(records) : r.cmd = h.cmd \/ (Even(h.cmd) /\ Even(r.cmd))
    BY <1>1, <1>4, <2>1, Beside
  <2>4. ASSUME Even(h.cmd)
        PROVE  /\ h.victim = rounds[h.cmd].target
               /\ \E s \in Range(records), u \in Range(records) :
                    /\ F = {s} /\ HasImpact(s) /\ Even(s.cmd) /\ s.cmd <= h.cmd /\ ~Awaited(s.cmd)'
                    /\ u.cmd = h.cmd /\ u.victim = h.victim /\ HasImpact(u) /\ Usable(u) /\ ~u.resolved
                    /\ s = u \/ tied'
    <3>1. /\ Candidates(h.victim) # {} /\ Resolvable(h.victim) \in Candidates(h.victim)
          /\ HasImpact(records[Resolvable(h.victim)]) /\ Even(records[Resolvable(h.victim)].cmd)
          /\ records[Resolvable(h.victim)].cmd <= h.cmd
          /\ h.victim = rounds[h.cmd].target
          /\ \E k \in DOMAIN records :
               /\ records[k].cmd = h.cmd /\ records[k].victim = h.victim
               /\ HasImpact(records[k]) /\ Usable(records[k]) /\ ~records[k].resolved
               /\ Resolvable(h.victim) = k \/ Cardinality(Latest(h.victim)) > 1
      BY <1>1, <1>2, <1>3, <2>1, <2>4, OwnHurt
    <3>2. PICK k \in DOMAIN records :
               /\ records[k].cmd = h.cmd /\ records[k].victim = h.victim
               /\ HasImpact(records[k]) /\ Usable(records[k]) /\ ~records[k].resolved
               /\ Resolvable(h.victim) = k \/ Cardinality(Latest(h.victim)) > 1
      BY <3>1
    <3>3. PICK s : s = records[Resolvable(h.victim)]
      OBVIOUS
    <3>4. PICK u : u = records[k]
      OBVIOUS
    <3>5. s \in Range(records) /\ u \in Range(records)
      BY <1>1, <3>1, <3>2, <3>3, <3>4, Positions DEF Candidates
    <3>6. F = {s} /\ HasImpact(s) /\ Even(s.cmd) /\ s.cmd <= h.cmd /\ (s = u \/ tied')
      BY <1>3, <1>5, <3>1, <3>2, <3>3, <3>4
    <3>7. ~Awaited(s.cmd)'
      <4>1. CASE s.cmd = h.cmd
        BY <1>4, <2>4, <4>1
      <4>2. CASE s.cmd # h.cmd
        <5>1. s.cmd < h.cmd /\ s.cmd \in Nat
          BY <1>7, <2>2, <3>5, <3>6, <4>2, Consts
        <5>2. ~Unfired(s.cmd) /\ \A k2 : ~Coming(s.cmd, k2)
          BY <1>4, <2>2, <5>1
        <5>3. ~Awaited(s.cmd)
          BY <5>2, AwaitedIs DEF Coming
        <5>4. QED
          BY <1>4, <5>3
      <4>3. QED
        BY <4>1, <4>2
    <3>8. QED
      BY <3>1, <3>2, <3>4, <3>5, <3>6, <3>7
  <2>5. OwnImpacts'
    <3>1. ASSUME NEW r \in Range(records'), NEW s \in Range(records'), r.cmd < s.cmd, HasImpact(r), HasImpact(s)
          PROVE  s.impact <= r.impact
      BY <1>9, <2>1, <3>1 DEF Strict, OwnImpacts, HasImpact
    <3>2. ASSUME NEW r \in Range(records')
          PROVE  /\ r.of \in {None, r.cmd}
                 /\ Even(r.cmd) => (HasImpact(r) <=> ~Unfired(r.cmd) /\ ~Coming(r.cmd, "impact"))
                 /\ r.confirmed <=> rounds[r.cmd].aimed /\ ~Unfired(r.cmd)
                 /\ HasImpact(r) => rounds[r.cmd].aimed
      BY <1>9, <2>1 DEF Strict, OwnImpacts, HasImpact
    <3>3. QED
      BY <1>3, <1>4, <2>2, <3>1, <3>2 DEF OwnImpacts, HasImpact, Even
  <2>6. Expected'
    <3>1. ASSUME NEW c \in DOMAIN rounds, Even(c), Awaited(c)'
          PROVE  \E r \in Range(records') : r.cmd = c /\ ~r.resolved
      <4>1. PICK r \in Range(records) : r.cmd = c /\ ~r.resolved
        BY <1>4, <2>1, <3>1 DEF Strict, Expected
      <4>2. r \notin F
        <5>1. CASE Even(h.cmd)
          BY <2>4, <3>1, <4>1, <5>1
        <5>2. CASE ~Even(h.cmd)
          BY <2>3, <3>1, <4>1, <5>2
        <5>3. QED
          BY <5>1, <5>2
      <4>3. QED
        BY <1>5, <4>1, <4>2
    <3>2. ASSUME NEW r \in Range(records'), ~r.resolved, Gone(r) PROVE ~Awaited(r.cmd)'
      <4>1. r \in Range(records)
        BY <1>9, <3>2
      <4>2. QED
        BY <1>4, <2>1, <3>2, <4>1 DEF Strict, Expected
    <3>3. QED
      BY <1>3, <3>1, <3>2 DEF Expected, Even
  <2>7. HitsResolve'
    <3>1. ASSUME NEW r \in Range(records'), rounds[r.cmd].aimed, rounds[r.cmd].hit = r.victim, ~r.resolved
          PROVE  Coming(r.cmd, "hurt")' \/ (tied' /\ Even(r.cmd))
      <4>1. r \in Range(records) /\ r \notin F
        BY <1>9, <3>1
      <4>2. Coming(r.cmd, "hurt") \/ (tied' /\ Even(r.cmd))
        BY <1>3, <2>1, <3>1, <4>1 DEF Strict, HitsResolve
      <4>3. CASE r.cmd # h.cmd
        BY <2>2, <4>2, <4>3
      <4>4. CASE r.cmd = h.cmd /\ Even(h.cmd)
        <5>1. PICK s \in Range(records), u \in Range(records) : F = {s} /\ u.cmd = h.cmd /\ (s = u \/ tied')
          BY <2>4, <4>4
        <5>2. u = r
          BY <1>8, <4>1, <4>4, <5>1
        <5>3. QED
          BY <4>1, <4>4, <5>1, <5>2
      <4>5. CASE r.cmd = h.cmd /\ ~Even(h.cmd)
        <5>1. r.victim = h.victim
          BY <1>4, <3>1, <4>5
        <5>2. PICK i \in DOMAIN records : records[i] = r
          BY <1>1, <4>1, Positions
        <5>3. Candidates(h.victim) # {}
          BY <3>1, <5>1, <5>2 DEF Candidates
        <5>4. F # {} /\ \A s \in F : s \in Range(records) /\ s.cmd = h.cmd
          BY <1>5, <2>3, <4>5, <5>3
        <5>5. QED
          BY <1>8, <4>1, <4>5, <5>4
      <4>6. QED
        BY <4>3, <4>4, <4>5
    <3>2. QED
      BY <1>3, <3>1 DEF HitsResolve, Even
  <2>8. ASSUME NEW s \in F
        PROVE  /\ s \in Range(records) /\ verdict[s.cmd] = "none" /\ rounds[s.cmd].aimed
               /\ rounds[s.cmd].target = h.victim
               /\ Even(s.cmd) <=> Even(h.cmd)
               /\ (tied' => ~Even(s.cmd)) => Truth(s.cmd) = "hit"
    <3>1. s \in Range(records) /\ verdict[s.cmd] = "none" /\ rounds[s.cmd].target = s.victim /\ s.victim = h.victim
      BY <1>1, <1>5, <2>8 DEF Loose, Unsaid, InOrder
    <3>2. CASE Even(h.cmd)
      <4>1. PICK t \in Range(records), u \in Range(records) :
              /\ F = {t} /\ HasImpact(t) /\ Even(t.cmd) /\ u.cmd = h.cmd /\ (t = u \/ tied')
        BY <2>4, <3>2
      <4>2. s = t
        BY <2>8, <4>1
      <4>3. rounds[s.cmd].aimed
        BY <2>1, <3>1, <4>1, <4>2 DEF Strict, OwnImpacts
      <4>4. ~tied' => Truth(s.cmd) = "hit"
        BY <1>4, <3>1, <4>1, <4>2, <4>3 DEF Truth
      <4>5. QED
        BY <3>1, <3>2, <4>1, <4>2, <4>3, <4>4
    <3>3. CASE ~Even(h.cmd)
      <4>1. s.cmd = h.cmd
        BY <2>3, <3>1, <3>3
      <4>2. rounds[s.cmd].aimed
        BY <1>1, <1>4, <3>1, <4>1 DEF Loose, InOrder
      <4>3. Truth(s.cmd) = "hit"
        BY <1>4, <3>1, <4>1, <4>2 DEF Truth
      <4>4. QED
        BY <3>1, <4>1, <4>2, <4>3
    <3>4. QED
      BY <3>2, <3>3
  <2>9. SaidTruly'
    <3>1. ASSUME NEW c \in DOMAIN rounds
          PROVE  /\ verdict'[c] = "discarded" => ~rounds[c].aimed
                 /\ verdict'[c] \in HitOrMiss => rounds[c].aimed
                 /\ verdict'[c] \in HitOrMiss /\ (tied' => ~Even(c)) => verdict'[c] = Truth(c)
      <4>1. c \in Rounds
        BY <1>1, Positions
      <4>2. CASE \E s \in F : s.cmd = c
        BY <1>5, <2>8, <4>1, <4>2 DEF HitOrMiss
      <4>3. CASE ~\E s \in F : s.cmd = c
        BY <1>3, <1>5, <2>1, <4>1, <4>3 DEF Strict, SaidTruly
      <4>4. QED
        BY <4>2, <4>3
    <3>2. \A c : Truth(c)' = Truth(c)
      BY <1>3 DEF Truth
    <3>3. QED
      BY <1>3, <3>1, <3>2 DEF SaidTruly, Even
  <2>10. Balanced'
    <3>0. DOMAIN rounds \subseteq Rounds /\ DOMAIN rounds = 1..Len(rounds) /\ Len(rounds) \in Nat
      BY <1>1, Positions
    <3>1. CASE ~Even(h.cmd)
      <4>1. \A d \in DOMAIN rounds : Even(d) => verdict'[d] = verdict[d] /\ (Coming(d, "hurt")' <=> Coming(d, "hurt"))
        BY <1>5, <2>2, <2>8, <3>0, <3>1
      <4>2. QED
        BY <1>3, <2>1, <4>1, SameHits DEF Strict, Even
    <3>2. CASE Even(h.cmd)
      <4>1. PICK s \in Range(records) : F = {s} /\ Even(s.cmd) /\ h.victim = rounds[h.cmd].target
        BY <2>4, <3>2
      <4>2. s.cmd \in DOMAIN rounds /\ verdict[s.cmd] = "none" /\ rounds[s.cmd].target = h.victim
        BY <1>7, <2>8, <4>1
      <4>3. \A d \in DOMAIN rounds : verdict'[d] = IF d = s.cmd THEN "hit" ELSE verdict[d]
        BY <1>5, <3>0, <4>1
      <4>4. ~Coming(h.cmd, "hurt")'
        <5>1. ~Awaited(h.cmd)'
          BY <1>4, <3>2
        <5>2. \A d : Coming(d, "hurt")' => Awaited(d)'
          BY DEF Coming, Awaited, Range
        <5>3. QED
          BY <5>1, <5>2
      <4>5. Coming(h.cmd, "hurt")
        BY <1>3, <1>4
      <4> SUFFICES ASSUME NEW v \in Players PROVE Cardinality(HitsSaid(v)') = Cardinality(HitsTold(v)')
        BY DEF Balanced
      <4>6. PICK A, B, X, Y : A = HitsSaid(v) /\ B = HitsTold(v) /\ X = HitsSaid(v)' /\ Y = HitsTold(v)'
        OBVIOUS
      <4>7. Cardinality(A) = Cardinality(B)
        BY <2>1, <4>6 DEF Strict, Balanced
      <4>8. IsFiniteSet(A) /\ IsFiniteSet(B)
        BY <3>0, <4>6, FiniteUpTo DEF HitsSaid, HitsTold
      <4>9. CASE v = h.victim
        <5>1. X = A \cup {s.cmd} /\ s.cmd \notin A
          BY <1>3, <4>1, <4>2, <4>3, <4>6, <4>9 DEF HitsSaid, Even
        <5>2. Y = B \cup {h.cmd} /\ h.cmd \notin B
          <6>1. B = {d \in DOMAIN rounds : Even(d) /\ rounds[d].target = v /\ rounds[d].hit = v /\ ~Coming(d, "hurt")}
            BY <4>6 DEF HitsTold
          <6>2. Y = {d \in DOMAIN rounds : Even(d) /\ rounds[d].target = v /\ rounds[d].hit = v /\ ~Coming(d, "hurt")'}
            BY <1>3, <4>6 DEF HitsTold, Even
          <6>3. QED
            BY <1>4, <2>2, <3>2, <4>1, <4>4, <4>5, <4>9, <6>1, <6>2
        <5>3. Cardinality(X) = Cardinality(A) + 1 /\ Cardinality(Y) = Cardinality(B) + 1
          BY <4>8, <5>1, <5>2, FS_AddElement
        <5>4. QED
          BY <4>6, <4>7, <5>3
      <4>10. CASE v # h.victim
        <5>1. X = A
          BY <1>3, <4>2, <4>3, <4>6, <4>10 DEF HitsSaid, Even
        <5>2. Y = B
          <6>1. B = {d \in DOMAIN rounds : Even(d) /\ rounds[d].target = v /\ rounds[d].hit = v /\ ~Coming(d, "hurt")}
            BY <4>6 DEF HitsTold
          <6>2. Y = {d \in DOMAIN rounds : Even(d) /\ rounds[d].target = v /\ rounds[d].hit = v /\ ~Coming(d, "hurt")'}
            BY <1>3, <4>6 DEF HitsTold, Even
          <6>3. \A d : d # h.cmd => (Coming(d, "hurt")' <=> Coming(d, "hurt"))
            BY <2>2
          <6>4. QED
            BY <1>4, <4>10, <6>1, <6>2, <6>3
        <5>3. QED
          BY <4>6, <4>7, <5>1, <5>2
      <4>11. QED
        BY <4>9, <4>10
    <3>3. QED
      BY <3>1, <3>2
  <2>11. Marks'
    <3>1. game.cmd = None /\ \A i \in DOMAIN reports : reports[i].cmd # None /\ Before(reports[i].cmd)
      BY <1>1, <1>3 DEF Idle, World, ToldBefore
    <3>2. ASSUME NEW i \in DOMAIN reports, reports[i].age < ReportWindow, NEW d, d = reports[i].cmd
          PROVE  d = h.cmd
      <4>1. d <= h.cmd /\ d \in DOMAIN rounds /\ d \in Nat
        <5>1. Before(d) /\ d # None
          BY <3>1, <3>2
        <5>2. d \in DOMAIN rounds
          BY <5>1 DEF Before
        <5>3. d \in Nat
          BY <1>1, <5>2, Positions, Consts
        <5>4. QED
          BY <1>4, <5>1, <5>2, <5>3
      <4>2. reports[i].age <= ReportWindow
        BY <1>1, <3>2, Positions, Consts DEF Hits
      <4>3. CASE Even(d)
        <5>1. Coming(d, "hurt")
          BY <2>1, <3>1, <3>2, <4>3 DEF Strict, Marks
        <5>2. h.cmd <= d
          BY <1>4, <5>1
        <5>3. QED
          BY <2>2, <4>1, <5>2
      <4>4. CASE ~Even(d)
        <5>1. \A j \in DOMAIN reports : reports[j].age <= ReportWindow => reports[j].cmd = h.cmd \/ Even(reports[j].cmd)
          BY <1>1, <1>4, <2>1, Beside
        <5>2. QED
          BY <3>2, <4>2, <4>4, <5>1
      <4>5. QED
        BY <4>3, <4>4
    <3>3. PICK W : W = {i \in DOMAIN records : records[i].victim = h.victim /\ Usable(records[i])}
      OBVIOUS
    <3>4. ASSUME W # {} PROVE Max(W) \in W /\ records[Max(W)].of = h.cmd
      <4>1. W \subseteq 1..Len(records) /\ Len(records) \in Nat
        BY <1>1, <3>3, Positions
      <4>2. PICK m : m = Max(W)
        OBVIOUS
      <4>3. m \in W /\ \A i \in W : i <= m
        BY <3>4, <4>1, <4>2, MaxIs
      <4>4. PICK r \in Range(records) : r = records[m]
        BY <1>1, <3>3, <4>3, Positions
      <4>5. HasImpact(r) /\ r.of = r.cmd /\ r.of <= h.cmd /\ r.cmd \in Nat /\ r.cmd <= h.cmd
        <5>1. HasImpact(r)
          BY <3>3, <4>3, <4>4 DEF Usable
        <5>2. r.of = r.cmd /\ Before(r.of)
          BY <1>1, <2>1, <4>4, <5>1 DEF Strict, OwnImpacts, HasImpact, World, ToldBefore
        <5>3. QED
          BY <1>4, <1>7, <5>1, <5>2, <4>4, Consts
      <4>6. CASE ~Even(h.cmd)
        BY <2>3, <4>2, <4>3, <4>4, <4>5, <4>6
      <4>7. CASE Even(h.cmd)
        <5>1. PICK u \in Range(records) : u.cmd = h.cmd /\ u.victim = h.victim /\ Usable(u)
          BY <2>4, <4>7
        <5>2. PICK k \in DOMAIN records : records[k] = u
          BY <1>1, Positions
        <5>3. k \in W /\ k <= m /\ m \in DOMAIN records
          BY <3>3, <4>3, <5>1, <5>2
        <5>4. k = m \/ k < m
          BY <1>1, <5>3, Positions
        <5>5. h.cmd <= r.cmd
          <6>1. CASE k = m
            BY <2>2, <4>4, <5>1, <5>2, <6>1
          <6>2. CASE k < m
            <7>1. records[k].cmd < records[m].cmd
              BY <1>1, <5>2, <5>3, <6>2 DEF Loose, InOrder, Sorted
            <7>2. QED
              BY <2>2, <4>4, <4>5, <5>1, <5>2, <7>1
          <6>3. QED
            BY <5>4, <6>1, <6>2
        <5>6. QED
          BY <2>2, <4>2, <4>3, <4>4, <4>5, <5>5
      <4>8. QED
        BY <4>6, <4>7
    <3>5. {i \in DOMAIN records' : records'[i].victim = game'.victim /\ Usable(records'[i])} = W
      BY <1>6, <3>3 DEF Usable, HasImpact
    <3>6. WithImpact(game.victim)' = W
      BY <3>5 DEF WithImpact, Usable, HasImpact
    <3>7. W # {} => records'[Max(W)].of = h.cmd
      BY <1>6, <3>3, <3>4
    <3>8. ~misplaced'
      BY <1>3, <2>1 DEF Strict, Marks
    <3>9. QED
      BY <1>3, <1>6, <3>2, <3>6, <3>7, <3>8 DEF Marks
  <2>12. QED
    BY <2>5, <2>6, <2>7, <2>9, <2>10, <2>11 DEF Strict
<1>14. QED
  BY <1>10, <1>11, <1>12, <1>13 DEF IInv

\* An impact is matched with one record, or with none, and then misses are looked for: F is
\* the set of the record that is matched, or empty.
Hitting(F, c) == {[s EXCEPT !.impact = 0, !.of = c] : s \in F}

Matches(F, rs, c) ==
  /\ rs \in Seq(Shots) /\ Sorted(rs) /\ CheckMisses(rs)
  /\ F \in SUBSET Range(records)
  /\ Range(rs) = (Range(records) \ F) \cup Hitting(F, c)
  /\ \A s \in F : ~s.resolved /\ ~Expired(s)
  /\ F = {} => None \in FirstMatches(c)
  /\ \A s \in F : None \in FirstMatches(c) \/ \E i \in FirstMatches(c) : i # None /\ s = records[i]

LEMMA ImpactDoes ==
  ASSUME Types, Loose, OnBulletImpact, NEW c \in Rounds, c = Head(wire).cmd
  PROVE  \E F, rs : Matches(F, rs, c)
<1>1. records \in Seq(Shots) /\ Sorted(records)
  BY DEF Types, Loose, InOrder
<1>2. ASSUME NEW i \in DOMAIN records, CheckMisses(Strike(i, c)), ~records[i].resolved, ~Expired(records[i]),
             None \in FirstMatches(c) \/ (i \in FirstMatches(c) /\ i # None)
      PROVE  \E F, rs : Matches(F, rs, c)
  <2>1. PICK s : s = records[i]
    OBVIOUS
  <2>2. s \in Shots /\ s \in Range(records)
    BY <2>1, Positions
  <2>3. PICK x : x = [s EXCEPT !.impact = 0, !.of = c]
    OBVIOUS
  <2>4. x \in Shots /\ x.cmd = s.cmd
    <3>1. 0 \in 0..Never
      BY Consts
    <3>2. QED
      BY <2>2, <2>3, <3>1 DEF Shots
  <2>5. PICK rs : rs = Strike(i, c)
    OBVIOUS
  <2>6. rs = Put(records, i, x)
    BY <2>1, <2>3, <2>5 DEF Put, Strike
  <2>7. /\ rs \in Seq(Shots) /\ Sorted(rs)
        /\ Range(rs) = (Range(records) \ {s}) \cup {x}
    BY <1>1, <2>1, <2>4, <2>6, Edited
  <2>8. PICK F : F = {s}
    OBVIOUS
  <2>9. Hitting(F, c) = {x}
    BY <2>3, <2>8 DEF Hitting
  <2>10. \A t \in F : ~t.resolved /\ ~Expired(t)
    BY <1>2, <2>1, <2>8
  <2>11. CheckMisses(rs)
    BY <1>2, <2>5
  <2>12. \A t \in F : None \in FirstMatches(c) \/ \E j \in FirstMatches(c) : j # None /\ t = records[j]
    BY <1>2, <2>1, <2>8
  <2>13. Range(rs) = (Range(records) \ F) \cup Hitting(F, c) /\ F \in SUBSET Range(records) /\ F # {}
    BY <2>2, <2>7, <2>8, <2>9
  <2>14. Matches(F, rs, c)
    BY <2>7, <2>10, <2>11, <2>12, <2>13 DEF Matches
  <2>15. QED
    BY <2>14
<1>3. ASSUME CheckMisses(records), None \in FirstMatches(c) PROVE \E F, rs : Matches(F, rs, c)
  <2>1. PICK F : F = {}
    OBVIOUS
  <2>2. Matches(F, records, c)
    BY <1>1, <1>3, <2>1 DEF Matches, Hitting
  <2>3. QED
    BY <2>2
<1>4. PICK i \in FirstMatches(c) :
          \/ i # None /\ CheckMisses(Strike(i, c))
          \/ i = None /\ CheckMisses(records)
          \/ i = None /\ \E j \in FurtherMatches : CheckMisses(Strike(j, c))
  BY DEF OnBulletImpact
<1>5. CASE i # None /\ CheckMisses(Strike(i, c))
  <2>1. i \in DOMAIN records /\ Waiting(records[i])
    BY <1>5 DEF FirstMatches
  <2>2. QED
    BY <1>2, <1>5, <2>1 DEF Waiting
<1>6. CASE i = None /\ CheckMisses(records)
  BY <1>3, <1>6
<1>7. CASE i = None /\ \E j \in FurtherMatches : CheckMisses(Strike(j, c))
  BY <1>2, <1>7 DEF FurtherMatches, Struck
<1>8. QED
  BY <1>4, <1>5, <1>6, <1>7

LEMMA ImpactKeeps == IInv /\ OnBulletImpact => IInv'
<1> SUFFICES ASSUME IInv, OnBulletImpact PROVE IInv'
  OBVIOUS
<1>1. Types /\ World /\ Loose /\ Worldly
  BY DEF IInv, World, Worldly
<1>2. PICK h : h = Head(wire)
  OBVIOUS
<1>3. /\ game = Idle /\ wire # <<>> /\ h.kind = "impact" /\ wire' = Tail(wire)
      /\ UNCHANGED <<reports, game, rounds, firing, mixed, orphan, tied, misplaced, overlooked>>
  BY <1>2 DEF OnBulletImpact, Told
<1>4. /\ wire' \in Seq(Events) /\ Worldly'
      /\ h \in Events /\ h.cmd \in DOMAIN rounds
      /\ Coming(h.cmd, h.kind) /\ Awaited(h.cmd) /\ ~Unfired(h.cmd)
      /\ Before(h.cmd)' /\ \A c : Before(c) => Before(c)' /\ c <= h.cmd
      /\ \A c, k : Coming(c, k)' => Coming(c, k)
      /\ \A c, k : Coming(c, k) => Coming(c, k)' \/ (c = h.cmd /\ k = h.kind)
      /\ \A c : Unfired(c)' <=> Unfired(c)
      /\ \A c : Awaited(c)' => Awaited(c)
      /\ Even(h.cmd) => \A k \in Kinds : Coming(h.cmd, k)' => Rank(h.kind) < Rank(k)
  BY <1>1, <1>2, <1>3, WireMoves
<1>5. h.cmd \in Rounds
  BY <1>1, <1>4, Positions
<1>6. PICK F, rs : Matches(F, rs, h.cmd)
  BY <1>1, <1>2, <1>5, ImpactDoes
<1>7. /\ rs \in Seq(Shots) /\ Sorted(rs) /\ CheckMisses(rs)
      /\ F \in SUBSET Range(records)
      /\ Range(rs) = (Range(records) \ F) \cup Hitting(F, h.cmd)
      /\ \A s \in F : ~s.resolved /\ ~Expired(s)
  BY <1>6 DEF Matches
<1>8. \A r \in Range(records) : r \in Shots /\ r.cmd \in DOMAIN rounds /\ r.cmd \in Nat /\ r.age \in Nat /\ r.impact \in Nat
  <2>1. 0..Never \subseteq Nat /\ Rounds \subseteq Nat
    BY Consts
  <2>2. QED
    BY <1>1, <2>1, Positions DEF Loose, InOrder, Shots
<1>9. \A s \in F : \A r : r = [s EXCEPT !.impact = 0, !.of = h.cmd] =>
        /\ r.cmd = s.cmd /\ r.victim = s.victim /\ r.age = s.age /\ r.impact = 0
        /\ r.of = h.cmd /\ r.confirmed = s.confirmed /\ r.resolved = s.resolved
  BY <1>7, <1>8 DEF Shots
<1>10. ASSUME NEW r \in Range(rs), ~(r \in Range(records) /\ r \notin F)
       PROVE  \E s \in F : /\ r.cmd = s.cmd /\ r.victim = s.victim /\ r.age = s.age /\ r.impact = 0
                           /\ r.of = h.cmd /\ r.confirmed = s.confirmed /\ r.resolved = s.resolved
                           /\ ~Gone(r) /\ HasImpact(r) /\ s \in Range(records)
  <2>1. r \in Hitting(F, h.cmd)
    BY <1>7, <1>10
  <2>2. PICK s \in F : r = [s EXCEPT !.impact = 0, !.of = h.cmd]
    BY <2>1 DEF Hitting
  <2>3. /\ r.cmd = s.cmd /\ r.victim = s.victim /\ r.age = s.age /\ r.impact = 0
        /\ r.of = h.cmd /\ r.confirmed = s.confirmed /\ r.resolved = s.resolved
    BY <1>9, <2>2
  <2>4. ~Gone(r) /\ HasImpact(r)
    <3>1. ~(0 > Grace) /\ h.cmd # None
      BY <1>5, Consts
    <3>2. QED
      BY <1>7, <2>3, <3>1 DEF Gone, Stale, Expired, HasImpact
  <2>5. QED
    BY <1>7, <2>3, <2>4
<1>11. \A s \in F : \E r \in Range(rs) :
         /\ r.cmd = s.cmd /\ r.resolved = s.resolved /\ ~Gone(r)
  <2> SUFFICES ASSUME NEW s \in F PROVE \E r \in Range(rs) : r.cmd = s.cmd /\ r.resolved = s.resolved /\ ~Gone(r)
    OBVIOUS
  <2>1. PICK r : r = [s EXCEPT !.impact = 0, !.of = h.cmd]
    OBVIOUS
  <2>2. r \in Range(rs)
    BY <1>7, <2>1 DEF Hitting
  <2>3. /\ r.cmd = s.cmd /\ r.age = s.age /\ r.impact = 0 /\ r.resolved = s.resolved
    BY <1>9, <2>1
  <2>4. ~(0 > Grace)
    BY Consts
  <2>5. ~Gone(r)
    BY <1>7, <2>3, <2>4 DEF Gone, Stale, Expired
  <2>6. QED
    BY <2>2, <2>3, <2>5
<1>12. /\ records' \in Seq(Shots) /\ Sorted(records')
       /\ Range(records') = {r \in Range(rs) : ~Gone(r)}
       /\ verdict' \in [Rounds -> Verdicts]
       /\ \A r \in Range(rs) : verdict'[r.cmd] = IF Gone(r) /\ ~r.resolved THEN Said(r) ELSE verdict[r.cmd]
       /\ \A c \in Rounds : (\A r \in Range(rs) : r.cmd # c) => verdict'[c] = verdict[c]
  BY <1>1, <1>7, CheckMissesDoes DEF Types
<1>13. \A r \in Range(rs) : \E s \in Range(records) :
         r.cmd = s.cmd /\ r.victim = s.victim /\ r.age = s.age /\ r.confirmed = s.confirmed /\ r.resolved = s.resolved
  BY <1>10
<1>14. Types'
  BY <1>1, <1>3, <1>4, <1>12 DEF Types
<1>15. World'
  <2>1. \A r \in Range(records') : \A d : d = r.of => Before(d)'
    BY <1>1, <1>4, <1>10, <1>12 DEF World, ToldBefore
  <2>2. \A i \in DOMAIN reports : \A d : d = reports[i].cmd => d # None /\ Before(d)'
    BY <1>1, <1>4 DEF World, ToldBefore
  <2>3. \A d : d = game'.cmd => Before(d)'
    BY <1>1, <1>3, <1>4 DEF World, ToldBefore
  <2>4. QED
    BY <1>3, <1>4, <2>1, <2>2, <2>3 DEF World, Worldly, ToldBefore, Before
<1>16. Loose'
  <2>1. InOrder'
    <3>1. ASSUME NEW r \in Range(records')
          PROVE  /\ r.cmd \in DOMAIN rounds /\ rounds[r.cmd].target = r.victim
                 /\ HasImpact(r) => r.impact <= r.age
                 /\ ~rounds[r.cmd].aimed => ~Awaited(r.cmd)
      <4>1. CASE r \in Range(records)
        BY <1>1, <4>1 DEF Loose, InOrder
      <4>2. CASE r \notin Range(records)
        <5>1. PICK s \in Range(records) : r.cmd = s.cmd /\ r.victim = s.victim /\ r.age = s.age /\ r.impact = 0
          BY <1>10, <1>12, <4>2
        <5>2. 0 <= s.age
          BY <1>8
        <5>3. QED
          BY <1>1, <5>1, <5>2 DEF Loose, InOrder
      <4>3. QED
        BY <4>1, <4>2
    <3>2. QED
      BY <1>3, <1>4, <1>12, <3>1 DEF InOrder, HasImpact
  <2>2. Unsaid'
    <3>1. \A r \in Range(records') : ~r.resolved /\ verdict'[r.cmd] = "none"
      <4> SUFFICES ASSUME NEW r \in Range(records') PROVE ~r.resolved /\ verdict'[r.cmd] = "none"
        OBVIOUS
      <4>1. r \in Range(rs) /\ ~r.resolved /\ verdict'[r.cmd] = verdict[r.cmd]
        BY <1>12 DEF Gone
      <4>2. PICK s \in Range(records) : r.cmd = s.cmd /\ r.resolved = s.resolved
        BY <1>13, <4>1
      <4>3. QED
        BY <1>1, <4>1, <4>2 DEF Loose, Unsaid
    <3>2. ASSUME NEW c \in Rounds \ DOMAIN rounds PROVE verdict'[c] = "none"
      <4>1. \A r \in Range(rs) : r.cmd # c
        BY <1>8, <1>13
      <4>2. QED
        BY <1>1, <1>12, <4>1 DEF Loose, Unsaid
    <3>3. QED
      BY <1>3, <3>1, <3>2 DEF Unsaid
  <2>3. Reported'
    <3>1. \A i \in DOMAIN reports, j \in DOMAIN wire' :
            reports[i].cmd = wire'[j].cmd /\ Even(reports[i].cmd) => wire'[j].kind = "hurt"
      <4> SUFFICES ASSUME NEW i \in DOMAIN reports, NEW j \in DOMAIN wire', NEW d, d = reports[i].cmd, NEW k, k = wire'[j].kind,
                          d = wire'[j].cmd, Even(d) PROVE k = "hurt"
        OBVIOUS
      <4>1. Coming(d, k)'
        BY DEF Coming
      <4>2. Coming(d, k)
        BY <1>4, <4>1
      <4>3. QED
        BY <1>1, <4>2 DEF Loose, Reported, Coming
    <3>2. QED
      BY <1>1, <1>3, <3>1 DEF Loose, Reported, Even
  <2>4. ImpactAtHand'
    BY <1>1, <1>3 DEF Loose, ImpactAtHand, Idle
  <2>5. Alone'
    <3>1. \A r \in Range(records') : Live(r.cmd)
      BY <1>12, <1>13 DEF Live
    <3>2. \A i \in DOMAIN reports' : reports'[i].age <= ReportWindow => Live(reports'[i].cmd)
      BY <1>3 DEF Live, Range
    <3>3. game'.cmd \in DOMAIN rounds => Live(game'.cmd)
      BY <1>3 DEF Live
    <3>4. QED
      BY <1>1, <1>3, <1>4, <3>1, <3>2, <3>3, AloneStays DEF Loose
  <2>6. QED
    BY <2>1, <2>2, <2>3, <2>4, <2>5 DEF Loose
<1>17. ASSUME Clean' PROVE Strict'
  <2>1. Strict /\ ~mixed
    BY <1>3, <1>17 DEF IInv, Clean
  <2>2. /\ \A c : Coming(c, "hurt")' <=> Coming(c, "hurt")
        /\ \A c : c # h.cmd => (Coming(c, "impact")' <=> Coming(c, "impact"))
        /\ Even(h.cmd) => ~Coming(h.cmd, "impact")'
        /\ h.cmd \in Nat
    <3>1. "impact" \in Kinds /\ ~(Rank("impact") < Rank("impact"))
      BY DEF Kinds, Rank
    <3>2. QED
      BY <1>3, <1>4, <1>5, <3>1, Consts
  <2>3. \A r \in Range(records) : r.cmd = h.cmd \/ (Even(h.cmd) /\ Even(r.cmd))
    BY <1>1, <1>4, <2>1, Beside
  <2>4. (\A s \in F : s.cmd = h.cmd) /\ (Even(h.cmd) => F # {})
    <3>1. \A i \in FirstMatches(h.cmd) :
              /\ i # None => i \in DOMAIN records /\ records[i].cmd = h.cmd
              /\ Even(h.cmd) => i # None
      BY <1>1, <1>2, <1>3, <2>1, OwnMatch
    <3>2. /\ F = {} => None \in FirstMatches(h.cmd)
          /\ \A s \in F : None \in FirstMatches(h.cmd) \/ \E i \in FirstMatches(h.cmd) : i # None /\ s = records[i]
      BY <1>6 DEF Matches
    <3>3. QED
      BY <1>7, <2>3, <3>1, <3>2
  <2>5. OwnImpacts'
    <3>1. ASSUME NEW r \in Range(records')
          PROVE  /\ r.of \in {None, r.cmd}
                 /\ Even(r.cmd) => (HasImpact(r) <=> ~Unfired(r.cmd) /\ ~Coming(r.cmd, "impact")')
                 /\ r.confirmed <=> rounds[r.cmd].aimed /\ ~Unfired(r.cmd)
                 /\ HasImpact(r) => rounds[r.cmd].aimed
      <4>1. CASE r \in Range(records) /\ r \notin F
        <5>1. Even(r.cmd) => r.cmd # h.cmd
          <6> SUFFICES ASSUME Even(r.cmd), r.cmd = h.cmd PROVE FALSE
            OBVIOUS
          <6>1. PICK s \in F : s.cmd = h.cmd
            BY <2>4
          <6>2. s = r
            <7>1. \A a, b \in Range(records) : a.cmd = b.cmd => a = b
              BY <1>1, SortedIs DEF Types, Loose, InOrder
            <7>2. QED
              BY <1>7, <4>1, <6>1, <7>1
          <6>3. QED
            BY <4>1, <6>2
        <5>2. QED
          BY <2>1, <2>2, <4>1, <5>1 DEF Strict, OwnImpacts
      <4>2. CASE ~(r \in Range(records) /\ r \notin F)
        <5>1. PICK s \in F : /\ r.cmd = s.cmd /\ r.of = h.cmd /\ r.confirmed = s.confirmed
                             /\ HasImpact(r) /\ s \in Range(records)
          BY <1>10, <1>12, <4>2
        <5>2. r.cmd = h.cmd
          BY <2>4, <5>1
        <5>3. rounds[h.cmd].aimed
          BY <1>1, <1>4, <5>1, <5>2 DEF Loose, InOrder
        <5>4. r.confirmed <=> rounds[r.cmd].aimed /\ ~Unfired(r.cmd)
          BY <2>1, <5>1 DEF Strict, OwnImpacts
        <5>5. QED
          BY <1>4, <2>2, <5>1, <5>2, <5>3, <5>4
      <4>3. QED
        BY <4>1, <4>2
    <3>2. ASSUME NEW r \in Range(records'), NEW s \in Range(records'), r.cmd < s.cmd, HasImpact(r), HasImpact(s)
          PROVE  s.impact <= r.impact
      <4>0. r \in Range(rs) /\ s \in Range(rs)
        BY <1>12
      <4>1. CASE (r \in Range(records) /\ r \notin F) /\ (s \in Range(records) /\ s \notin F)
        BY <2>1, <3>2, <4>1 DEF Strict, OwnImpacts
      <4>2. CASE ~(s \in Range(records) /\ s \notin F)
        <5>1. s.impact = 0 /\ r.impact \in Nat
          BY <1>8, <1>10, <4>0, <4>2
        <5>2. QED
          BY <5>1
      <4>3. CASE ~(r \in Range(records) /\ r \notin F) /\ (s \in Range(records) /\ s \notin F)
        <5>1. r.cmd = h.cmd
          BY <1>10, <2>4, <4>0, <4>3
        <5>2. s.of = s.cmd /\ Before(s.of) /\ s.cmd \in Nat
          BY <1>1, <1>8, <2>1, <3>2, <4>3 DEF Strict, OwnImpacts, HasImpact, World, ToldBefore
        <5>3. s.cmd <= h.cmd
          BY <1>4, <5>2
        <5>4. QED
          BY <2>2, <3>2, <5>1, <5>2, <5>3
      <4>4. QED
        BY <4>1, <4>2, <4>3
    <3>3. QED
      BY <1>3, <1>4, <3>1, <3>2 DEF OwnImpacts, HasImpact, Even
  <2>6. Expected'
    <3>1. ASSUME NEW c \in DOMAIN rounds, Even(c), Awaited(c)'
          PROVE  \E r \in Range(records') : r.cmd = c /\ ~r.resolved
      <4>1. PICK r \in Range(records) : r.cmd = c /\ ~r.resolved
        BY <1>4, <2>1, <3>1 DEF Strict, Expected
      <4>2. ~Gone(r)
        BY <1>4, <2>1, <3>1, <4>1 DEF Strict, Expected
      <4>3. CASE r \in F
        BY <1>11, <1>12, <4>1, <4>3
      <4>4. CASE r \notin F
        BY <1>7, <1>12, <4>1, <4>2, <4>4
      <4>5. QED
        BY <4>3, <4>4
    <3>2. \A r \in Range(records') : ~Gone(r)
      BY <1>12
    <3>3. QED
      BY <1>3, <3>1, <3>2 DEF Expected, Even
  <2>7. HitsResolve'
    <3>1. ASSUME NEW r \in Range(records'), rounds[r.cmd].aimed, rounds[r.cmd].hit = r.victim, ~r.resolved
          PROVE  Coming(r.cmd, "hurt") \/ (tied /\ Even(r.cmd))
      <4>1. PICK s \in Range(records) : r.cmd = s.cmd /\ r.victim = s.victim /\ r.resolved = s.resolved
        BY <1>12, <1>13
      <4>2. QED
        BY <2>1, <3>1, <4>1 DEF Strict, HitsResolve
    <3>2. QED
      BY <1>3, <2>2, <3>1 DEF HitsResolve, Even
  <2>8. /\ \A c \in Rounds : verdict'[c] = verdict[c] \/ (verdict[c] = "none" /\ verdict'[c] \in {"miss", "discarded"})
        /\ SaidTruly'
    <3>1. ASSUME NEW r \in Range(rs), ~r.resolved, Gone(r) PROVE r \in Range(records) /\ ~Awaited(r.cmd)
      <4>1. r \in Range(records)
        BY <1>10, <3>1
      <4>2. QED
        BY <2>1, <3>1, <4>1 DEF Strict, Expected
    <3>2. \A r \in Range(rs) : r.cmd \in DOMAIN rounds
      BY <1>8, <1>13
    <3>3. rounds' = rounds /\ tied' = tied
      BY <1>3
    <3>4. QED
      BY <1>1, <1>7, <2>1, <3>1, <3>2, <3>3, Looked
  <2>9. Balanced'
    <3>1. \A d \in DOMAIN rounds : verdict'[d] = "hit" <=> verdict[d] = "hit"
      BY <1>1, <2>8, Positions
    <3>2. QED
      BY <1>3, <2>1, <2>2, <3>1, SameHits DEF Strict, Even
  <2>10. Marks'
    BY <1>3, <2>1, <2>2 DEF Strict, Marks, Idle, Even
  <2>11. QED
    BY <2>5, <2>6, <2>7, <2>8, <2>9, <2>10 DEF Strict
<1>18. QED
  BY <1>14, <1>15, <1>16, <1>17 DEF IInv

----------------------------------------------------------------------------
(* A shot is commanded and fired                                             *)

\* What is spoken of is of rounds there are.
LEMMA Spoken ==
  ASSUME Types, World
  PROVE  /\ \A d : Unfired(d) => d \in DOMAIN rounds
         /\ \A d, k : Coming(d, k) => d \in DOMAIN rounds
         /\ \A d : Awaited(d) => d \in DOMAIN rounds
         /\ \A i \in DOMAIN reports : reports[i].cmd \in DOMAIN rounds
  BY AwaitedIs DEF World, FiringInOrder, WireInOrder, ToldBefore, Before, Unfired, Coming

LEMMA BoomKeeps == IInv /\ (\E v \in Players, fires \in BOOLEAN : OnBoom(v, fires)) => IInv'
<1> SUFFICES ASSUME IInv, NEW v \in Players, \E fires \in BOOLEAN : OnBoom(v, fires) PROVE IInv'
  OBVIOUS
<1>1. Types /\ World /\ Loose
  BY DEF IInv
<1>2. \A r \in Range(records) : r \in Shots /\ r.cmd \in Rounds /\ r.cmd \in DOMAIN rounds
  BY <1>1, Positions DEF Loose, InOrder
<1>3. PICK c : c = Len(rounds) + 1
  OBVIOUS
<1>4. /\ Types' /\ Worldly' /\ game = Idle /\ game' = game /\ reports' = reports
      /\ c \in Rounds /\ c \notin DOMAIN rounds /\ \A d \in DOMAIN rounds : d < c
      /\ DOMAIN rounds' = DOMAIN rounds \cup {c} /\ \A d \in DOMAIN rounds : rounds'[d] = rounds[d]
      /\ rounds'[c].target = v /\ rounds'[c].hit = None /\ (rounds'[c].aimed <=> ~rounds'[c].odd)
      /\ \A d : Before(d) => Before(d)'
      /\ \A d : Unfired(d)' <=> Unfired(d) \/ (rounds'[c].aimed /\ d = c)
      /\ \A d, k : Coming(d, k)' <=> Coming(d, k)
      /\ \A d : Awaited(d)' <=> Awaited(d) \/ (rounds'[c].aimed /\ d = c)
      /\ Record(c, v) \in Shots /\ Sorted(records')
      /\ \E lost : Loses(lost, c, v)
      /\ ~mixed' => ~mixed /\ \A d \in DOMAIN rounds : Live(d) => rounds'[c].aimed /\ Even(d)
      /\ UNCHANGED <<tied, misplaced, overlooked>>
  <2>1. Sorted(records) /\ \A r \in Range(records) : r.cmd \in DOMAIN rounds
    BY <1>1, <1>2 DEF Loose, InOrder
  <2>2. Types /\ World /\ \E fires \in BOOLEAN : OnBoom(v, fires)
    BY <1>1
  <2>3. /\ Types' /\ Worldly' /\ game = Idle /\ game' = game /\ reports' = reports
        /\ c \in Rounds /\ c \notin DOMAIN rounds /\ \A d \in DOMAIN rounds : d < c
        /\ DOMAIN rounds' = DOMAIN rounds \cup {c} /\ \A d \in DOMAIN rounds : rounds'[d] = rounds[d]
    BY <1>3, <2>1, <2>2, BoomDoes
  <2>4. /\ rounds'[c].target = v /\ rounds'[c].hit = None /\ (rounds'[c].aimed <=> ~rounds'[c].odd)
        /\ \A d : Before(d) => Before(d)'
        /\ \A d : Unfired(d)' <=> Unfired(d) \/ (rounds'[c].aimed /\ d = c)
        /\ \A d, k : Coming(d, k)' <=> Coming(d, k)
        /\ \A d : Awaited(d)' <=> Awaited(d) \/ (rounds'[c].aimed /\ d = c)
        /\ Record(c, v) \in Shots /\ Sorted(records')
    BY <1>3, <2>1, <2>2, BoomDoes
  <2>5. \E lost : Loses(lost, c, v)
    BY <1>3, <2>1, <2>2, BoomDoes
  <2>6. /\ ~mixed' => ~mixed /\ \A d \in DOMAIN rounds : Live(d) => rounds'[c].aimed /\ Even(d)
        /\ UNCHANGED <<tied, misplaced, overlooked>>
    BY <1>3, <2>1, <2>2, BoomDoes
  <2>7. QED
    BY <2>3, <2>4, <2>5, <2>6
<1>5. PICK lost \in SUBSET Range(records) :
        /\ Range(records') = (Range(records) \ lost) \cup {Record(c, v)}
        /\ \A d \in Rounds : verdict'[d] = IF \E r \in lost : r.cmd = d /\ ~r.resolved
                                             THEN "dropped" ELSE verdict[d]
        /\ ~orphan' => ~orphan /\ \A r \in lost : ~Awaited(r.cmd)
  <2>1. PICK lost : Loses(lost, c, v)
    BY <1>4
  <2>2. QED
    BY <2>1 DEF Loses
<1>6. PICK x : x = Record(c, v)
  OBVIOUS
<1>7. /\ x.cmd = c /\ x.victim = v /\ x.age = 0 /\ x.of = None /\ ~HasImpact(x)
      /\ ~x.confirmed /\ ~x.resolved /\ ~Gone(x) /\ v # None
  <2>1. x.cmd = c /\ x.victim = v /\ x.age = 0 /\ x.of = None /\ ~x.confirmed /\ ~x.resolved
    BY <1>6 DEF Record
  <2>2. ~HasImpact(x) /\ ~(x.age > Timeout) /\ v # None
    BY <2>1, Consts DEF HasImpact
  <2>3. QED
    BY <2>1, <2>2 DEF Gone, Stale, Expired
<1>8. \A r \in Range(records') : r = x \/ (r \in Range(records) /\ r \notin lost)
  BY <1>5, <1>6
<1>9. x \in Range(records') /\ \A r \in Range(records) : r \notin lost => r \in Range(records')
  BY <1>5, <1>6
<1>11. /\ Even(c)' <=> rounds'[c].aimed
       /\ \A d \in DOMAIN rounds : Even(d)' <=> Even(d)
  BY <1>4 DEF Even
<1>12. ~Unfired(c) /\ ~Awaited(c) /\ \A k : ~Coming(c, k)
  BY <1>1, <1>4, Spoken
<1>13. /\ verdict[c] = "none" /\ verdict'[c] = "none"
       /\ \A d \in Rounds : verdict'[d] = verdict[d] \/ (verdict[d] = "none" /\ verdict'[d] = "dropped")
  <2>1. \A r \in lost : r.cmd \in DOMAIN rounds /\ (~r.resolved => verdict[r.cmd] = "none")
    BY <1>1, <1>2, <1>5 DEF Loose, Unsaid
  <2>2. verdict[c] = "none"
    BY <1>1, <1>4 DEF Loose, Unsaid
  <2>3. QED
    BY <1>4, <1>5, <2>1, <2>2
<1>14. World'
  <2>1. \A r \in Range(records') : \A d : d = r.of => Before(d)'
    <3>1. Before(None)
      BY <1>1, Consts, Positions, KindsAre DEF Before
    <3>2. QED
      BY <1>1, <1>4, <1>7, <1>8, <3>1 DEF World, ToldBefore
  <2>2. \A i \in DOMAIN reports : reports[i].cmd # None /\ \A d : d = reports[i].cmd => Before(d)'
    BY <1>1, <1>4 DEF World, ToldBefore
  <2>3. \A d : d = game'.cmd => Before(d)'
    BY <1>1, <1>4 DEF World, ToldBefore
  <2>4. QED
    BY <1>4, <2>1, <2>2, <2>3 DEF World, Worldly, ToldBefore, Before
<1>15. Loose'
  <2>1. InOrder'
    <3>1. ASSUME NEW r \in Range(records')
          PROVE  /\ r.cmd \in DOMAIN rounds' /\ rounds'[r.cmd].target = r.victim
                 /\ HasImpact(r) => r.impact <= r.age
                 /\ ~rounds'[r.cmd].aimed => \A d : d = r.cmd => ~Awaited(d)'
      <4>1. CASE r = x
        BY <1>4, <1>7, <1>12, <4>1
      <4>2. CASE r \in Range(records)
        BY <1>1, <1>2, <1>4, <4>2 DEF Loose, InOrder
      <4>3. QED
        BY <1>8, <4>1, <4>2
    <3>2. QED
      BY <1>4, <3>1 DEF InOrder, HasImpact
  <2>2. Unsaid'
    <3>1. ASSUME NEW r \in Range(records') PROVE verdict'[r.cmd] = IF r.resolved THEN "hit" ELSE "none"
      <4>1. CASE r = x
        BY <1>7, <1>13, <4>1
      <4>2. CASE r \in Range(records) /\ r \notin lost
        <5>1. ~\E s \in lost : s.cmd = r.cmd
          BY <1>1, <4>2, SortedIs DEF Types, Loose, InOrder
        <5>2. QED
          BY <1>1, <1>2, <1>5, <4>2, <5>1 DEF Loose, Unsaid
      <4>3. QED
        BY <1>8, <4>1, <4>2
    <3>2. \A d \in Rounds \ DOMAIN rounds' : verdict'[d] = "none"
      <4>1. \A r \in lost : r.cmd \in DOMAIN rounds'
        BY <1>2, <1>4
      <4>2. QED
        BY <1>1, <1>4, <1>5, <4>1 DEF Loose, Unsaid
    <3>3. QED
      BY <3>1, <3>2 DEF Unsaid
  <2>3. Reported'
    <3>1. \A i \in DOMAIN reports : Even(reports[i].cmd)' <=> Even(reports[i].cmd)
      BY <1>1, <1>4, <1>11, Spoken
    <3>2. ASSUME NEW i \in DOMAIN reports, NEW j \in DOMAIN wire', NEW d, d = reports[i].cmd, NEW k, k = wire'[j].kind,
                 d = wire'[j].cmd, Even(d) PROVE k = "hurt"
      <4>1. Coming(d, k)'
        BY <3>2 DEF Coming
      <4>2. Coming(d, k)
        BY <1>4, <4>1
      <4>3. QED
        BY <1>1, <3>2, <4>2 DEF Loose, Reported, Coming
    <3>3. \A i \in DOMAIN reports : ~rounds'[reports[i].cmd].odd <=> Even(reports[i].cmd)
      BY <1>1, <1>4, Spoken DEF Even
    <3>4. QED
      BY <1>1, <1>4, <3>2, <3>3 DEF Loose, Reported, Even
  <2>4. ImpactAtHand'
    BY <1>1, <1>4 DEF Loose, ImpactAtHand, Idle
  <2>5. Alone'
    <3>1. ASSUME NEW d \in DOMAIN rounds, Live(d)' PROVE Live(d)
      <4>1. \/ Awaited(d)' \/ game'.cmd = d
            \/ \E r \in Range(records') : r.cmd = d
            \/ \E i \in DOMAIN reports' : reports'[i].cmd = d /\ reports'[i].age <= ReportWindow
        BY <3>1 DEF Live, Range
      <4>2. Awaited(d) \/ game.cmd = d \/ (\E r \in Range(records) : r.cmd = d)
            \/ \E i \in DOMAIN reports : reports[i].cmd = d /\ reports[i].age <= ReportWindow
        BY <1>4, <1>7, <1>8, <3>1, <4>1
      <4>3. QED
        BY <4>2 DEF Live, Range
    <3>2. ASSUME ~mixed', NEW a \in DOMAIN rounds', NEW b \in DOMAIN rounds', a # b, Live(a)', Live(b)'
          PROVE  Even(a)'
      <4>1. CASE a \in DOMAIN rounds
        BY <1>4, <1>11, <3>1, <3>2, <4>1
      <4>2. CASE a = c
        <5>1. b \in DOMAIN rounds
          BY <1>4, <3>2, <4>2
        <5>2. rounds'[c].aimed
          BY <1>4, <3>1, <3>2, <5>1
        <5>3. QED
          BY <1>11, <4>2, <5>2
      <4>3. QED
        BY <1>4, <4>1, <4>2
    <3>3. QED
      BY <3>2 DEF Alone
  <2>6. QED
    BY <2>1, <2>2, <2>3, <2>4, <2>5 DEF Loose
<1>16. ASSUME Clean' PROVE Strict'
  <2>1. Strict /\ \A r \in lost : ~Awaited(r.cmd)
    BY <1>4, <1>5, <1>16 DEF IInv, Clean
  <2>2. OwnImpacts'
    <3>1. ASSUME NEW r \in Range(records')
          PROVE  /\ r.of \in {None, r.cmd}
                 /\ ~rounds'[r.cmd].odd => \A d : d = r.cmd => (HasImpact(r) <=> ~Unfired(d)' /\ ~Coming(d, "impact")')
                 /\ \A d : d = r.cmd => (r.confirmed <=> rounds'[d].aimed /\ ~Unfired(d)')
                 /\ HasImpact(r) => rounds'[r.cmd].aimed
      <4>1. CASE r = x
        BY <1>4, <1>7, <4>1
      <4>2. CASE r \in Range(records)
        BY <1>2, <1>4, <2>1, <4>2 DEF Strict, OwnImpacts, Even
      <4>3. QED
        BY <1>8, <4>1, <4>2
    <3>2. ASSUME NEW r \in Range(records'), NEW s \in Range(records'), r.cmd < s.cmd, HasImpact(r), HasImpact(s)
          PROVE  s.impact <= r.impact
      BY <1>7, <1>8, <2>1, <3>2 DEF Strict, OwnImpacts
    <3>3. QED
      BY <3>1, <3>2 DEF OwnImpacts, HasImpact, Even
  <2>3. Expected'
    <3>1. ASSUME NEW d \in DOMAIN rounds', Even(d)', Awaited(d)'
          PROVE  \E r \in Range(records') : r.cmd = d /\ ~r.resolved
      <4>1. CASE d = c
        BY <1>7, <1>9, <4>1
      <4>2. CASE d # c
        <5>1. d \in DOMAIN rounds /\ Even(d) /\ Awaited(d)
          BY <1>4, <1>11, <3>1, <4>2
        <5>2. PICK r \in Range(records) : r.cmd = d /\ ~r.resolved
          BY <2>1, <5>1 DEF Strict, Expected
        <5>3. QED
          BY <1>9, <2>1, <5>1, <5>2
      <4>3. QED
        BY <4>1, <4>2
    <3>2. ASSUME NEW r \in Range(records'), ~r.resolved, Gone(r), NEW d, d = r.cmd PROVE ~Awaited(d)'
      <4>1. r \in Range(records)
        BY <1>7, <1>8, <3>2
      <4>2. QED
        BY <1>2, <1>4, <2>1, <3>2, <4>1 DEF Strict, Expected
    <3>3. QED
      BY <3>1, <3>2 DEF Expected, Gone, Stale, Expired, HasImpact
  <2>4. HitsResolve'
    <3>1. ASSUME NEW r \in Range(records'), rounds'[r.cmd].aimed, rounds'[r.cmd].hit = r.victim, ~r.resolved
          PROVE  \A d : d = r.cmd => Coming(d, "hurt")' \/ (tied' /\ Even(d)')
      <4>1. CASE r = x
        BY <1>4, <1>7, <3>1, <4>1
      <4>2. CASE r \in Range(records)
        <5>1. Coming(r.cmd, "hurt") \/ (tied /\ Even(r.cmd))
          BY <1>2, <1>4, <2>1, <3>1, <4>2 DEF Strict, HitsResolve
        <5>2. QED
          BY <1>2, <1>4, <1>11, <4>2, <5>1
      <4>3. QED
        BY <1>8, <4>1, <4>2
    <3>2. QED
      BY <3>1 DEF HitsResolve
  <2>5. SaidTruly'
    <3>1. ASSUME NEW d \in DOMAIN rounds'
          PROVE  /\ verdict'[d] = "discarded" => ~rounds'[d].aimed
                 /\ verdict'[d] \in HitOrMiss => rounds'[d].aimed
                 /\ verdict'[d] \in HitOrMiss /\ (tied' => ~Even(d)') => verdict'[d] = Truth(d)'
      <4>1. CASE d = c
        BY <1>13, <4>1 DEF HitOrMiss
      <4>2. CASE d # c
        <5>1. d \in DOMAIN rounds /\ d \in Rounds
          BY <1>1, <1>4, <4>2, Positions
        <5>2. Truth(d)' = Truth(d) /\ (Even(d)' <=> Even(d)) /\ rounds'[d] = rounds[d] /\ tied' = tied
          BY <1>4, <1>11, <5>1 DEF Truth
        <5>3. verdict'[d] = verdict[d] \/ verdict'[d] = "dropped"
          BY <1>13, <5>1
        <5>4. QED
          BY <2>1, <5>1, <5>2, <5>3 DEF Strict, SaidTruly, HitOrMiss
      <4>3. QED
        BY <4>1, <4>2
    <3>2. QED
      BY <3>1 DEF SaidTruly, HitOrMiss
  <2>6. Balanced'
    <3>1. \A d \in DOMAIN rounds : verdict'[d] = "hit" <=> verdict[d] = "hit"
      BY <1>1, <1>13, Positions
    <3>2. \A d \in DOMAIN rounds :
            /\ rounds'[d].target = rounds[d].target
            /\ ~rounds'[d].odd /\ verdict'[d] = "hit" <=> Even(d) /\ verdict[d] = "hit"
            /\ ~rounds'[d].odd /\ rounds'[d].hit = rounds[d].target /\ ~Coming(d, "hurt")'
                 <=> Even(d) /\ rounds[d].hit = rounds[d].target /\ ~Coming(d, "hurt")
      BY <1>4, <3>1 DEF Even
    <3>3. \A d \in DOMAIN rounds' \ DOMAIN rounds :
            ~rounds'[d].odd => verdict'[d] # "hit" /\ rounds'[d].hit # rounds'[d].target
      BY <1>4, <1>7, <1>13
    <3>4. Balanced /\ DOMAIN rounds \subseteq DOMAIN rounds'
      BY <1>4, <2>1 DEF Strict
    <3>5. QED
      BY <3>2, <3>3, <3>4, SameHits
  <2>7. Marks'
    <3>1. ~misplaced' /\ game'.pc # "hurt"
      BY <1>4, <2>1 DEF Strict, Marks, Idle
    <3>2. ASSUME NEW i \in DOMAIN reports, reports[i].age < ReportWindow, NEW d, d = reports[i].cmd, Even(d)'
          PROVE  Coming(d, "hurt")' \/ game'.cmd = d
      <4>1. Even(d)
        BY <1>1, <1>11, <3>2, Spoken
      <4>2. QED
        BY <1>4, <2>1, <3>2, <4>1 DEF Strict, Marks
    <3>3. QED
      BY <1>4, <3>1, <3>2 DEF Marks, Even, Coming
  <2>8. QED
    BY <2>2, <2>3, <2>4, <2>5, <2>6, <2>7 DEF Strict
<1>17. QED
  BY <1>4, <1>14, <1>15, <1>16 DEF IInv

\* Confirming changes no record but in that it is confirmed.
LEMMA ConfirmedIs ==
  ASSUME Types, Confirmed
  PROVE  /\ \A r \in Range(records') : \E s \in Range(records) :
              /\ r.cmd = s.cmd /\ r.victim = s.victim /\ r.age = s.age /\ r.impact = s.impact
              /\ r.of = s.of /\ r.resolved = s.resolved
         /\ \A s \in Range(records) : \E r \in Range(records') :
              r.cmd = s.cmd /\ r.resolved = s.resolved
<1>1. CASE records' = records
  BY <1>1
<1>2. CASE records' # records
  <2>1. PICK e \in Range(records) : Range(records') = (Range(records) \ {e}) \cup {[e EXCEPT !.confirmed = TRUE]}
    BY <1>2 DEF Confirmed
  <2>2. PICK x : x = [e EXCEPT !.confirmed = TRUE]
    OBVIOUS
  <2>3. e \in Shots
    BY <2>1, Positions
  <2>4. /\ x.cmd = e.cmd /\ x.victim = e.victim /\ x.age = e.age /\ x.impact = e.impact
        /\ x.of = e.of /\ x.resolved = e.resolved
    BY <2>2, <2>3 DEF Shots
  <2>5. Range(records') = (Range(records) \ {e}) \cup {x}
    BY <2>1, <2>2
  <2>6. QED
    BY <2>4, <2>5
<1>3. QED
  BY <1>1, <1>2

LEMMA FireKeeps ==
  ASSUME IInv, NEW p, NEW v, Fire(p, v)
  PROVE  IInv'
<1>1. Types /\ World /\ Loose
  BY DEF IInv
<1>2. \A r \in Range(records) : r \in Shots /\ r.cmd \in Rounds /\ r.cmd \in Nat /\ r.cmd \in DOMAIN rounds
  BY <1>1, Positions, Consts DEF Loose, InOrder
<1>3. PICK c : c = Head(firing)
  OBVIOUS
<1>4. /\ Types' /\ Worldly' /\ game = Idle /\ game' = game /\ reports' = reports /\ verdict' = verdict
      /\ c \in DOMAIN rounds /\ Unfired(c) /\ \A d : Unfired(d) => c <= d
      /\ Even(c) /\ rounds[c].aimed /\ rounds[c].hit = None
      /\ DOMAIN rounds' = DOMAIN rounds /\ \A d \in DOMAIN rounds : d # c => rounds'[d] = rounds[d]
      /\ rounds'[c].aimed /\ rounds'[c].target = rounds[c].target /\ rounds'[c].hit = v
  <2>1. Sorted(records)
    BY <1>1 DEF Loose, InOrder
  <2>2. QED
    BY <1>1, <1>3, <2>1, FireDoes
<1>5. /\ Even(c)' => p \in RegularPatterns /\ v \in {None, rounds[c].target}
      /\ \A d : Before(d) => Before(d)' /\ d < c
      /\ \A d : Unfired(d)' <=> Unfired(d) /\ d # c
      /\ \A d, k : Coming(d, k) => d < c
      /\ \A d, k : Coming(d, k)' <=> Coming(d, k) \/ (d = c /\ k \in Range(p))
      /\ \A d : Awaited(d)' => Awaited(d)
      /\ \A d : d # c => (Awaited(d)' <=> Awaited(d))
      /\ "hurt" \in Range(p) <=> v # None
      /\ Confirmed
      /\ ~mixed' => ~mixed /\ \A d \in DOMAIN rounds : d # c /\ Live(d) => Even(c)' /\ Even(d)
      /\ UNCHANGED <<orphan, tied, misplaced, overlooked>>
  <2>1. Sorted(records)
    BY <1>1 DEF Loose, InOrder
  <2>2. QED
    BY <1>1, <1>3, <2>1, FireDoes
<1>6. /\ \A r \in Range(records') : \E s \in Range(records) :
           /\ r.cmd = s.cmd /\ r.victim = s.victim /\ r.age = s.age /\ r.impact = s.impact
           /\ r.of = s.of /\ r.resolved = s.resolved
      /\ \A s \in Range(records) : \E r \in Range(records') :
           r.cmd = s.cmd /\ r.resolved = s.resolved
  BY <1>1, <1>5, ConfirmedIs
<1>7. c \in Nat /\ c \in Rounds /\ Awaited(c) /\ ~(c < c)
  BY <1>1, <1>4, Positions, Consts, AwaitedIs
<1>8. \A d \in DOMAIN rounds : rounds'[d].target = rounds[d].target /\ (rounds'[d].aimed <=> rounds[d].aimed)
  BY <1>4
<1>9. \A d \in DOMAIN rounds : d # c => (Even(d)' <=> Even(d))
  BY <1>4 DEF Even
<1>10. \A i \in DOMAIN reports : reports[i].cmd \in DOMAIN rounds /\ reports[i].cmd # c
  BY <1>1, <1>5, <1>7, Spoken DEF World, ToldBefore
<1>11. World'
  <2>1. \A r \in Range(records') : \A d : d = r.of => Before(d)'
    BY <1>1, <1>5, <1>6 DEF World, ToldBefore
  <2>2. \A i \in DOMAIN reports : reports[i].cmd # None /\ \A d : d = reports[i].cmd => Before(d)'
    BY <1>1, <1>5 DEF World, ToldBefore
  <2>3. \A d : d = game'.cmd => Before(d)'
    BY <1>1, <1>4, <1>5 DEF World, ToldBefore
  <2>4. QED
    BY <1>4, <2>1, <2>2, <2>3 DEF World, Worldly, ToldBefore, Before
<1>12. Loose'
  <2>1. InOrder'
    <3>1. ASSUME NEW r \in Range(records')
          PROVE  /\ r.cmd \in DOMAIN rounds' /\ rounds'[r.cmd].target = r.victim
                 /\ HasImpact(r) => r.impact <= r.age
                 /\ ~rounds'[r.cmd].aimed => \A d : d = r.cmd => ~Awaited(d)'
      <4>1. PICK s \in Range(records) :
              r.cmd = s.cmd /\ r.victim = s.victim /\ r.age = s.age /\ r.impact = s.impact /\ r.of = s.of
        BY <1>6
      <4>2. QED
        BY <1>1, <1>2, <1>4, <1>5, <1>8, <4>1 DEF Loose, InOrder, HasImpact
    <3>2. Sorted(records')
      BY <1>5 DEF Confirmed
    <3>3. QED
      BY <3>1, <3>2 DEF InOrder, HasImpact
  <2>2. Unsaid'
    BY <1>1, <1>4, <1>6 DEF Loose, Unsaid
  <2>3. Reported'
    <3>1. ASSUME NEW i \in DOMAIN reports, NEW j \in DOMAIN wire', NEW d, d = reports[i].cmd, NEW k, k = wire'[j].kind,
                 d = wire'[j].cmd, Even(d) PROVE k = "hurt"
      <4>1. Coming(d, k)'
        BY <3>1 DEF Coming
      <4>2. Coming(d, k)
        BY <1>5, <1>10, <3>1, <4>1
      <4>3. QED
        BY <1>1, <3>1, <4>2 DEF Loose, Reported, Coming
    <3>2. \A i \in DOMAIN reports : ~rounds'[reports[i].cmd].odd <=> Even(reports[i].cmd)
      BY <1>4, <1>10 DEF Even
    <3>3. QED
      BY <1>1, <1>4, <3>1, <3>2 DEF Loose, Reported, Even
  <2>4. ImpactAtHand'
    BY <1>1, <1>4, <1>5 DEF Loose, ImpactAtHand, Idle
  <2>5. Alone'
    <3>1. ASSUME NEW d \in DOMAIN rounds, Live(d)' PROVE Live(d)
      <4>1. \/ Awaited(d)' \/ game'.cmd = d
            \/ \E r \in Range(records') : r.cmd = d
            \/ \E i \in DOMAIN reports' : reports'[i].cmd = d /\ reports'[i].age <= ReportWindow
        BY <3>1 DEF Live, Range
      <4>2. Awaited(d) \/ game.cmd = d \/ (\E r \in Range(records) : r.cmd = d)
            \/ \E i \in DOMAIN reports : reports[i].cmd = d /\ reports[i].age <= ReportWindow
        BY <1>4, <1>5, <1>6, <4>1
      <4>3. QED
        BY <4>2 DEF Live, Range
    <3>2. ASSUME ~mixed', NEW a \in DOMAIN rounds, NEW b \in DOMAIN rounds, a # b, Live(a)', Live(b)'
          PROVE  Even(a)'
      <4>1. CASE a = c
        BY <1>5, <3>1, <3>2, <4>1
      <4>2. CASE a # c
        BY <1>5, <1>9, <3>1, <3>2, <4>2
      <4>3. QED
        BY <4>1, <4>2
    <3>3. QED
      BY <1>4, <3>2 DEF Alone
  <2>6. QED
    BY <2>1, <2>2, <2>3, <2>4, <2>5 DEF Loose
<1>13. ASSUME Clean' PROVE Strict'
  <2>1. Strict /\ ~mixed
    BY <1>5, <1>13 DEF IInv, Clean
  <2>2. PICK u \in Range(records) : u.cmd = c /\ ~u.resolved
    BY <1>4, <1>7, <2>1 DEF Strict, Expected
  <2>3. ~u.confirmed /\ ~HasImpact(u) /\ verdict[c] = "none"
    BY <1>1, <1>4, <2>1, <2>2 DEF Strict, OwnImpacts, Loose, Unsaid
  <2>4. \A s \in Range(records) : s.cmd < c => s.confirmed
    <3> SUFFICES ASSUME NEW s \in Range(records), s.cmd < c PROVE s.confirmed
      OBVIOUS
    <3>1. ~Unfired(s.cmd) /\ s.cmd # c
      BY <1>2, <1>4, <1>7
    <3>2. Even(s.cmd)
      BY <1>1, <1>4, <1>7, <2>1, <3>1, Beside
    <3>3. rounds[s.cmd].aimed
      BY <1>1, <1>2, <3>2 DEF World, Aiming
    <3>4. QED
      BY <2>1, <3>1, <3>3 DEF Strict, OwnImpacts
  <2>5. \A r \in Range(records') : IF r.cmd = c THEN r.confirmed ELSE r \in Range(records)
    <3>1. PICK e \in Range(records) :
            /\ ~e.confirmed /\ \A r \in Range(records) : r.cmd < e.cmd => r.confirmed
            /\ Range(records') = (Range(records) \ {e}) \cup {[e EXCEPT !.confirmed = TRUE]}
      BY <1>5, <2>2, <2>3 DEF Confirmed
    <3>2. e.cmd = c
      <4>1. ~(e.cmd < c) /\ ~(c < e.cmd)
        BY <2>2, <2>3, <2>4, <3>1
      <4>2. QED
        BY <1>2, <1>7, <3>1, <4>1
    <3>3. \A r \in Range(records) : r.cmd = c => r = e
      BY <1>1, <3>1, <3>2, SortedIs DEF Types, Loose, InOrder
    <3>4. PICK x : x = [e EXCEPT !.confirmed = TRUE]
      OBVIOUS
    <3>5. x.confirmed /\ x.cmd = c
      BY <1>2, <3>1, <3>2, <3>4 DEF Shots
    <3>6. \A r \in Range(records') : r = x \/ (r \in Range(records) /\ r # e)
      BY <3>1, <3>4
    <3>7. QED
      BY <3>3, <3>5, <3>6
  <2>6. \A s \in Range(records) : s.cmd = c => s = u
    BY <1>1, <2>2, SortedIs DEF Types, Loose, InOrder
  <2>7. OwnImpacts'
    <3>1. ASSUME NEW r \in Range(records'), NEW d, d = r.cmd
          PROVE  /\ r.of \in {None, d}
                 /\ Even(d)' => (HasImpact(r) <=> ~Unfired(d)' /\ ~Coming(d, "impact")')
                 /\ r.confirmed <=> rounds'[d].aimed /\ ~Unfired(d)'
                 /\ HasImpact(r) => rounds'[d].aimed
      <4>1. CASE d = c
        <5>1. PICK s \in Range(records) : r.cmd = s.cmd /\ r.of = s.of
          BY <1>6
        <5>2. s = u
          BY <2>6, <3>1, <4>1, <5>1
        <5>3. r.of \in {None, c} /\ ~HasImpact(r)
          BY <2>1, <2>3, <5>1, <5>2 DEF Strict, OwnImpacts, HasImpact
        <5>4. Even(c)' => Coming(c, "impact")'
          <6>1. p \in RegularPatterns => "impact" \in Range(p)
            BY Regular
          <6>2. QED
            BY <1>5, <6>1
        <5>5. r.confirmed /\ rounds'[c].aimed /\ ~Unfired(c)'
          BY <1>4, <1>5, <2>5, <3>1, <4>1
        <5>6. QED
          BY <4>1, <5>3, <5>4, <5>5
      <4>2. CASE d # c
        <5>1. r \in Range(records) /\ d \in DOMAIN rounds
          BY <1>2, <2>5, <3>1, <4>2
        <5>2. /\ r.of \in {None, d}
              /\ Even(d) => (HasImpact(r) <=> ~Unfired(d) /\ ~Coming(d, "impact"))
              /\ r.confirmed <=> rounds[d].aimed /\ ~Unfired(d)
              /\ HasImpact(r) => rounds[d].aimed
          BY <2>1, <3>1, <5>1 DEF Strict, OwnImpacts
        <5>3. QED
          BY <1>5, <1>8, <1>9, <4>2, <5>1, <5>2
      <4>3. QED
        BY <4>1, <4>2
    <3>2. ASSUME NEW r \in Range(records'), NEW s \in Range(records'), r.cmd < s.cmd, HasImpact(r), HasImpact(s)
          PROVE  s.impact <= r.impact
      <4>1. PICK r0 \in Range(records) : r.cmd = r0.cmd /\ r.impact = r0.impact /\ r.of = r0.of
        BY <1>6
      <4>2. PICK s0 \in Range(records) : s.cmd = s0.cmd /\ s.impact = s0.impact /\ s.of = s0.of
        BY <1>6
      <4>3. r0.cmd < s0.cmd /\ HasImpact(r0) /\ HasImpact(s0)
        BY <3>2, <4>1, <4>2 DEF HasImpact
      <4>4. s0.impact <= r0.impact
        BY <2>1, <4>3 DEF Strict, OwnImpacts
      <4>5. QED
        BY <4>1, <4>2, <4>4
    <3>3. QED
      BY <3>1, <3>2 DEF OwnImpacts, HasImpact
  <2>8. Expected'
    <3>1. ASSUME NEW d \in DOMAIN rounds, Even(d)', Awaited(d)'
          PROVE  \E r \in Range(records') : r.cmd = d /\ ~r.resolved
      <4>1. Even(d) /\ Awaited(d)
        BY <1>4, <1>5, <1>9, <3>1
      <4>2. PICK s \in Range(records) : s.cmd = d /\ ~s.resolved
        BY <2>1, <4>1 DEF Strict, Expected
      <4>3. QED
        BY <1>6, <4>2
    <3>2. ASSUME NEW r \in Range(records'), ~r.resolved, Gone(r), NEW d, d = r.cmd PROVE ~Awaited(d)'
      <4>1. PICK s \in Range(records) : r.cmd = s.cmd /\ r.age = s.age /\ r.impact = s.impact /\ r.of = s.of
                                        /\ r.resolved = s.resolved
        BY <1>6
      <4>2. ~s.resolved /\ Gone(s)
        BY <3>2, <4>1 DEF Gone, Stale, Expired, HasImpact
      <4>3. QED
        BY <1>5, <2>1, <3>2, <4>1, <4>2 DEF Strict, Expected
    <3>3. QED
      BY <1>4, <3>1, <3>2 DEF Expected, Gone, Stale, Expired, HasImpact
  <2>9. HitsResolve'
    <3>1. ASSUME NEW r \in Range(records'), NEW d, d = r.cmd, rounds'[d].aimed, rounds'[d].hit = r.victim, ~r.resolved
          PROVE  Coming(d, "hurt")' \/ (tied' /\ Even(d)')
      <4>1. CASE d = c
        <5>1. r.victim \in Players
          BY <1>2, <1>6 DEF Shots
        <5>2. v # None
          BY <1>4, <3>1, <4>1, <5>1, Consts
        <5>3. QED
          BY <1>5, <4>1, <5>2
      <4>2. CASE d # c
        <5>1. r \in Range(records) /\ d \in DOMAIN rounds /\ rounds'[d] = rounds[d]
          BY <1>2, <1>4, <2>5, <3>1, <4>2
        <5>2. Coming(d, "hurt") \/ (tied /\ Even(d))
          BY <2>1, <3>1, <5>1 DEF Strict, HitsResolve
        <5>3. QED
          BY <1>5, <1>9, <4>2, <5>1, <5>2
      <4>3. QED
        BY <4>1, <4>2
    <3>2. QED
      BY <3>1 DEF HitsResolve
  <2>10. SaidTruly'
    <3>1. ASSUME NEW d \in DOMAIN rounds
          PROVE  /\ verdict'[d] = "discarded" => ~rounds'[d].aimed
                 /\ verdict'[d] \in HitOrMiss => rounds'[d].aimed
                 /\ verdict'[d] \in HitOrMiss /\ (tied' => ~Even(d)') => verdict'[d] = Truth(d)'
      <4>1. CASE d = c
        BY <1>4, <2>3, <4>1 DEF HitOrMiss
      <4>2. CASE d # c
        <5>1. Truth(d)' = Truth(d) /\ (Even(d)' <=> Even(d)) /\ rounds'[d] = rounds[d] /\ tied' = tied
          BY <1>4, <1>5, <1>9, <4>2 DEF Truth
        <5>2. QED
          BY <1>4, <2>1, <5>1 DEF Strict, SaidTruly, HitOrMiss
      <4>3. QED
        BY <4>1, <4>2
    <3>2. QED
      BY <1>4, <3>1 DEF SaidTruly, HitOrMiss
  <2>11. Balanced'
    <3>1. ASSUME NEW d \in DOMAIN rounds
          PROVE  /\ rounds'[d].target = rounds[d].target
                 /\ ~rounds'[d].odd /\ verdict'[d] = "hit" <=> Even(d) /\ verdict[d] = "hit"
                 /\ ~rounds'[d].odd /\ rounds'[d].hit = rounds[d].target /\ ~Coming(d, "hurt")'
                      <=> Even(d) /\ rounds[d].hit = rounds[d].target /\ ~Coming(d, "hurt")
      <4>1. CASE d = c
        <5>1. rounds[c].target # None
          BY <1>1, <1>4, Consts DEF World, Aiming
        <5>2. v = rounds[c].target => Coming(c, "hurt")'
          BY <1>5, <5>1
        <5>3. QED
          BY <1>4, <1>8, <2>3, <4>1, <5>1, <5>2
      <4>2. CASE d # c
        BY <1>4, <1>5, <4>2 DEF Even
      <4>3. QED
        BY <4>1, <4>2
    <3>2. Balanced /\ DOMAIN rounds \subseteq DOMAIN rounds' /\ DOMAIN rounds' \ DOMAIN rounds = {}
      BY <1>4, <2>1 DEF Strict
    <3>3. QED
      BY <3>1, <3>2, SameHits
  <2>12. Marks'
    <3>1. ~misplaced' /\ game'.pc # "hurt"
      BY <1>4, <1>5, <2>1 DEF Strict, Marks, Idle
    <3>2. ASSUME NEW i \in DOMAIN reports, reports[i].age < ReportWindow, NEW d, d = reports[i].cmd, Even(d)'
          PROVE  Coming(d, "hurt")' \/ game'.cmd = d
      <4>1. Even(d)
        BY <1>9, <1>10, <3>2
      <4>2. QED
        BY <1>4, <1>5, <2>1, <3>2, <4>1 DEF Strict, Marks
    <3>3. QED
      BY <1>4, <3>1, <3>2 DEF Marks, Even, Coming
  <2>13. QED
    BY <2>7, <2>8, <2>9, <2>10, <2>11, <2>12 DEF Strict
<1>14. QED
  BY <1>4, <1>11, <1>12, <1>13 DEF IInv

LEMMA HandKeeps ==
  ASSUME IInv, NEW p, NEW v, FireByHand(p, v)
  PROVE  IInv'
<1>1. Types /\ World /\ Loose /\ Sorted(records)
  BY DEF IInv, Loose, InOrder
<1>2. \A r \in Range(records) : r \in Shots /\ r.cmd \in Rounds /\ r.cmd \in DOMAIN rounds
  BY <1>1, Positions DEF Loose, InOrder
<1>3. PICK c : c = Len(rounds) + 1
  OBVIOUS
<1>4. /\ Types' /\ Worldly' /\ game = Idle /\ game' = game /\ reports' = reports /\ verdict' = verdict
      /\ c \in Rounds /\ c \notin DOMAIN rounds
      /\ DOMAIN rounds' = DOMAIN rounds \cup {c} /\ \A d \in DOMAIN rounds : rounds'[d] = rounds[d]
      /\ rounds'[c].target = None /\ ~rounds'[c].aimed /\ ~Even(c)'
  BY <1>1, <1>3, HandDoes
<1>5. /\ \A d : Before(d) => Before(d)'
      /\ \A d, k : Coming(d, k) => d < c
      /\ \A d, k : Coming(d, k)' <=> Coming(d, k) \/ (d = c /\ k \in Range(p))
      /\ \A d : d # c => (Awaited(d)' <=> Awaited(d))
      /\ Confirmed
      /\ ~mixed' => ~mixed /\ \A d \in DOMAIN rounds : ~Live(d)
      /\ UNCHANGED <<orphan, tied, misplaced, overlooked>>
  BY <1>1, <1>3, HandDoes
<1>6. /\ \A r \in Range(records') : \E s \in Range(records) :
           /\ r.cmd = s.cmd /\ r.victim = s.victim /\ r.age = s.age /\ r.impact = s.impact
           /\ r.of = s.of /\ r.resolved = s.resolved
      /\ \A s \in Range(records) : \E r \in Range(records') :
           r.cmd = s.cmd /\ r.resolved = s.resolved
  BY <1>1, <1>5, ConfirmedIs
<1>7. \A d \in DOMAIN rounds : d # c /\ (Even(d)' <=> Even(d))
  BY <1>4 DEF Even
<1>8. \A i \in DOMAIN reports : reports[i].cmd \in DOMAIN rounds
  BY <1>1, Spoken
<1>9. World'
  <2>1. \A r \in Range(records') : \A d : d = r.of => Before(d)'
    BY <1>1, <1>5, <1>6 DEF World, ToldBefore
  <2>2. \A i \in DOMAIN reports : reports[i].cmd # None /\ \A d : d = reports[i].cmd => Before(d)'
    BY <1>1, <1>5 DEF World, ToldBefore
  <2>3. \A d : d = game'.cmd => Before(d)'
    BY <1>1, <1>4, <1>5 DEF World, ToldBefore
  <2>4. QED
    BY <1>4, <2>1, <2>2, <2>3 DEF World, Worldly, ToldBefore, Before
<1>10. ASSUME NEW d \in DOMAIN rounds, Live(d)' PROVE Live(d)
  <2>1. \/ Awaited(d)' \/ game'.cmd = d
        \/ \E r \in Range(records') : r.cmd = d
        \/ \E i \in DOMAIN reports' : reports'[i].cmd = d /\ reports'[i].age <= ReportWindow
    BY <1>10 DEF Live, Range
  <2>2. Awaited(d) \/ game.cmd = d \/ (\E r \in Range(records) : r.cmd = d)
        \/ \E i \in DOMAIN reports : reports[i].cmd = d /\ reports[i].age <= ReportWindow
    BY <1>4, <1>5, <1>6, <1>7, <2>1
  <2>3. QED
    BY <2>2 DEF Live, Range
<1>11. Loose'
  <2>1. InOrder'
    <3>1. ASSUME NEW r \in Range(records')
          PROVE  /\ r.cmd \in DOMAIN rounds' /\ rounds'[r.cmd].target = r.victim
                 /\ HasImpact(r) => r.impact <= r.age
                 /\ ~rounds'[r.cmd].aimed => \A d : d = r.cmd => ~Awaited(d)'
      <4>1. PICK s \in Range(records) :
              r.cmd = s.cmd /\ r.victim = s.victim /\ r.age = s.age /\ r.impact = s.impact /\ r.of = s.of
        BY <1>6
      <4>2. QED
        BY <1>1, <1>2, <1>4, <1>5, <1>7, <4>1 DEF Loose, InOrder, HasImpact
    <3>2. Sorted(records')
      BY <1>5 DEF Confirmed
    <3>3. QED
      BY <3>1, <3>2 DEF InOrder, HasImpact
  <2>2. Unsaid'
    BY <1>1, <1>4, <1>6 DEF Loose, Unsaid
  <2>3. Reported'
    <3>1. ASSUME NEW i \in DOMAIN reports, NEW j \in DOMAIN wire', NEW d, d = reports[i].cmd, NEW k, k = wire'[j].kind,
                 d = wire'[j].cmd, Even(d) PROVE k = "hurt"
      <4>1. Coming(d, k)'
        BY <3>1 DEF Coming
      <4>2. Coming(d, k)
        BY <1>5, <1>7, <1>8, <3>1, <4>1
      <4>3. QED
        BY <1>1, <3>1, <4>2 DEF Loose, Reported, Coming
    <3>2. \A i \in DOMAIN reports : ~rounds'[reports[i].cmd].odd <=> Even(reports[i].cmd)
      BY <1>4, <1>8 DEF Even
    <3>3. QED
      BY <1>1, <1>4, <3>1, <3>2 DEF Loose, Reported, Even
  <2>4. ImpactAtHand'
    BY <1>1, <1>4, <1>5 DEF Loose, ImpactAtHand, Idle
  <2>5. Alone'
    BY <1>4, <1>5, <1>10 DEF Alone
  <2>6. QED
    BY <2>1, <2>2, <2>3, <2>4, <2>5 DEF Loose
<1>12. ASSUME Clean' PROVE Strict'
  <2>1. Strict /\ \A d \in DOMAIN rounds : ~Live(d) /\ ~Awaited(d)
    BY <1>5, <1>12 DEF IInv, Clean, Live
  <2>2. Range(records) = {}
    BY <1>2, <2>1 DEF Live
  <2>3. Range(records') = {}
    BY <1>6, <2>2
  <2>4. OwnImpacts' /\ HitsResolve'
    BY <2>3 DEF OwnImpacts, HitsResolve
  <2>5. Expected'
    <3>1. \A d \in DOMAIN rounds' : ~(Even(d)' /\ Awaited(d)')
      BY <1>4, <1>5, <1>7, <2>1
    <3>2. QED
      BY <2>3, <3>1 DEF Expected
  <2>6. verdict[c] = "none"
    BY <1>1, <1>4 DEF Loose, Unsaid
  <2>7. SaidTruly'
    <3>1. ASSUME NEW d \in DOMAIN rounds'
          PROVE  /\ verdict'[d] = "discarded" => ~rounds'[d].aimed
                 /\ verdict'[d] \in HitOrMiss => rounds'[d].aimed
                 /\ verdict'[d] \in HitOrMiss /\ (tied' => ~Even(d)') => verdict'[d] = Truth(d)'
      <4>1. CASE d = c
        BY <1>4, <2>6, <4>1 DEF HitOrMiss
      <4>2. CASE d \in DOMAIN rounds
        <5>1. Truth(d)' = Truth(d) /\ (Even(d)' <=> Even(d)) /\ rounds'[d] = rounds[d] /\ tied' = tied
          BY <1>4, <1>5, <1>7, <4>2 DEF Truth
        <5>2. QED
          BY <1>4, <2>1, <4>2, <5>1 DEF Strict, SaidTruly, HitOrMiss
      <4>3. QED
        BY <1>4, <4>1, <4>2
    <3>2. QED
      BY <3>1 DEF SaidTruly, HitOrMiss
  <2>8. Balanced'
    <3>1. \A d \in DOMAIN rounds :
            /\ rounds'[d].target = rounds[d].target
            /\ ~rounds'[d].odd /\ verdict'[d] = "hit" <=> Even(d) /\ verdict[d] = "hit"
            /\ ~rounds'[d].odd /\ rounds'[d].hit = rounds[d].target /\ ~Coming(d, "hurt")'
                 <=> Even(d) /\ rounds[d].hit = rounds[d].target /\ ~Coming(d, "hurt")
      BY <1>4, <1>5, <1>7 DEF Even
    <3>2. \A d \in DOMAIN rounds' \ DOMAIN rounds :
            ~rounds'[d].odd => verdict'[d] # "hit" /\ rounds'[d].hit # rounds'[d].target
      BY <1>4 DEF Even
    <3>3. Balanced /\ DOMAIN rounds \subseteq DOMAIN rounds'
      BY <1>4, <2>1 DEF Strict
    <3>4. QED
      BY <3>1, <3>2, <3>3, SameHits
  <2>9. Marks'
    <3>1. ~misplaced' /\ game'.pc # "hurt"
      BY <1>4, <1>5, <2>1 DEF Strict, Marks, Idle
    <3>2. ASSUME NEW i \in DOMAIN reports, reports[i].age < ReportWindow, NEW d, d = reports[i].cmd, Even(d)'
          PROVE  Coming(d, "hurt")' \/ game'.cmd = d
      <4>1. Even(d)
        BY <1>7, <1>8, <3>2
      <4>2. QED
        BY <1>4, <1>5, <2>1, <3>2, <4>1 DEF Strict, Marks
    <3>3. QED
      BY <1>4, <3>1, <3>2 DEF Marks, Even, Coming
  <2>10. QED
    BY <2>4, <2>5, <2>7, <2>8, <2>9 DEF Strict
<1>13. QED
  BY <1>4, <1>9, <1>11, <1>12 DEF IInv

----------------------------------------------------------------------------
(* Every step                                                                *)

LEMMA StutterKeeps == IInv /\ UNCHANGED vars => IInv'
<1> SUFFICES ASSUME IInv, UNCHANGED vars PROVE IInv'
  OBVIOUS
<1>1. /\ UNCHANGED world
      /\ UNCHANGED <<records, reports, game, verdict, mixed, orphan, tied, misplaced, overlooked>>
      /\ rounds' = rounds /\ firing' = firing /\ wire' = wire
  BY DEF vars, world
<1>2. /\ \A d : Before(d)' <=> Before(d)
      /\ \A d : Unfired(d)' <=> Unfired(d)
      /\ \A d, k : Coming(d, k)' <=> Coming(d, k)
      /\ \A d : Awaited(d)' <=> Awaited(d)
      /\ \A d : Even(d)' <=> Even(d)
      /\ World => Worldly'
  BY <1>1, SameWorld
<1>3. Types /\ World /\ Loose
  BY DEF IInv
<1>4. Types'
  BY <1>1, <1>3 DEF Types
<1>5. World'
  <2>1. \A d : d = game'.cmd => Before(d)'
    BY <1>1, <1>2, <1>3 DEF World, ToldBefore
  <2>2. QED
    BY <1>1, <1>2, <1>3, <2>1 DEF World, Worldly, ToldBefore, Before
<1>6. Loose'
  <2>1. InOrder' /\ Unsaid' /\ Reported' /\ ImpactAtHand'
    BY <1>1, <1>2, <1>3 DEF Loose, InOrder, Unsaid, Reported, ImpactAtHand, WithImpact, Even, Usable
  <2>2. Alone'
    <3>1. game'.cmd \in DOMAIN rounds => Live(game'.cmd)
      BY <1>1 DEF Live
    <3>2. \A r \in Range(records') : Live(r.cmd)
      BY <1>1 DEF Live
    <3>3. \A i \in DOMAIN reports' : reports'[i].age <= ReportWindow => Live(reports'[i].cmd)
      BY <1>1 DEF Live, Range
    <3>4. QED
      BY <1>1, <1>2, <1>3, <3>1, <3>2, <3>3, AloneStays DEF Loose
  <2>3. QED
    BY <2>1, <2>2 DEF Loose
<1>7. ASSUME Clean' PROVE Strict'
  <2>1. Strict
    BY <1>1, <1>7 DEF IInv, Clean
  <2>2. OwnImpacts' /\ Expected' /\ HitsResolve' /\ SaidTruly'
    BY <1>1, <1>2, <2>1 DEF Strict, OwnImpacts, Expected, HitsResolve, SaidTruly, Truth
  <2>3. Balanced'
    BY <1>1, <1>2, <2>1, SameHits DEF Strict, Even
  <2>4. Marks'
    BY <1>1, <1>2, <2>1 DEF Strict, Marks, WithImpact, Usable
  <2>5. QED
    BY <2>2, <2>3, <2>4 DEF Strict
<1>8. QED
  BY <1>4, <1>5, <1>6, <1>7 DEF IInv

LEMMA NextKeeps == IInv /\ [Next]_vars => IInv'
<1> SUFFICES ASSUME IInv, [Next]_vars PROVE IInv'
  OBVIOUS
<1>1. CASE \E v \in Players, fires \in BOOLEAN : OnBoom(v, fires)
  BY <1>1, BoomKeeps
<1>2. CASE \E p \in UNION Range(Patterns), v \in Players \cup {None} : Fire(p, v) \/ FireByHand(p, v)
  BY <1>2, FireKeeps, HandKeeps
<1>3. CASE OnBulletImpact
  BY <1>3, ImpactKeeps
<1>4. CASE OnReportHit
  BY <1>4, ReportKeeps
<1>5. CASE ParseEvent
  BY <1>5, HurtKeeps
<1>6. CASE PlaceMarker
  BY <1>6, PlaceKeeps
<1>7. CASE Tick
  BY <1>7, TickKeeps
<1>8. CASE OnRender
  BY <1>8, RenderKeeps
<1>9. CASE OnLevelChange
  BY <1>9, LevelKeeps
<1>10. CASE UNCHANGED vars
  BY <1>10, StutterKeeps
<1>11. QED
  BY <1>1, <1>2, <1>3, <1>4, <1>5, <1>6, <1>7, <1>8, <1>9, <1>10 DEF Next

LEMMA Inductive == Spec => []IInv
<1>1. Init => IInv
  BY InitInv
<1>2. IInv /\ [Next]_vars => IInv'
  BY NextKeeps
<1>3. QED
  BY <1>1, <1>2, PTL DEF Spec

----------------------------------------------------------------------------
(* What was said of a shot                                                   *)

LEMMA LookSaysOnce ==
  ASSUME Types, Loose, NEW rs \in Seq(Shots), Sorted(rs), CheckMisses(rs),
         \A r \in Range(rs) : r.cmd \in Rounds /\ (~r.resolved => verdict[r.cmd] = "none")
  PROVE  \A c \in Rounds : verdict[c] # "none" => verdict'[c] = verdict[c]
<1>1. /\ \A r \in Range(rs) : verdict'[r.cmd] = IF Gone(r) /\ ~r.resolved THEN Said(r) ELSE verdict[r.cmd]
      /\ \A c \in Rounds : (\A r \in Range(rs) : r.cmd # c) => verdict'[c] = verdict[c]
  BY CheckMissesDoes DEF Types
<1>2. QED
  BY <1>1

\* No step takes back, or adds to, what was said of a shot.
LEMMA SaidOnce == IInv /\ [Next]_vars => \A c \in Rounds : verdict[c] # "none" => verdict'[c] = verdict[c]
<1> SUFFICES ASSUME IInv, [Next]_vars, NEW c \in Rounds, verdict[c] # "none" PROVE verdict'[c] = verdict[c]
  OBVIOUS
<1>1. Types /\ World /\ Loose /\ records \in Seq(Shots) /\ Sorted(records)
  BY DEF IInv, Loose, InOrder, Types
<1>2. \A r \in Range(records) : r \in Shots /\ r.cmd \in Rounds /\ r.cmd \in DOMAIN rounds
                                /\ (~r.resolved => verdict[r.cmd] = "none")
  BY <1>1, Positions DEF Loose, InOrder, Unsaid
<1>3. CASE \E v \in Players, fires \in BOOLEAN : OnBoom(v, fires)
  <2>1. PICK v \in Players : \E fires \in BOOLEAN : OnBoom(v, fires)
    BY <1>3
  <2>2. PICK d : d = Len(rounds) + 1
    OBVIOUS
  <2>3. PICK lost : Loses(lost, d, v)
    BY <1>1, <1>2, <2>1, <2>2, BoomDoes
  <2>4. QED
    BY <1>2, <2>3 DEF Loses
<1>4. CASE UNCHANGED verdict
  BY <1>4
<1>5. CASE \E p \in UNION Range(Patterns), v \in Players \cup {None} : Fire(p, v) \/ FireByHand(p, v)
  BY <1>5 DEF Fire, FireByHand
<1>6. CASE OnBulletImpact
  <2>1. PICK d \in Rounds : d = Head(wire).cmd
    BY <1>1, <1>6, HeadIs, Positions DEF OnBulletImpact, Told
  <2>2. PICK F, rs : Matches(F, rs, d)
    BY <1>1, <1>6, <2>1, ImpactDoes
  <2>3. \A s \in F : \A r : r = [s EXCEPT !.impact = 0, !.of = d] => r.cmd = s.cmd /\ r.resolved = s.resolved
    BY <1>2, <2>2 DEF Matches, Shots
  <2>4. \A r \in Range(rs) : \E s \in Range(records) : r.cmd = s.cmd /\ r.resolved = s.resolved
    BY <2>2, <2>3, ZenonT(60) DEF Matches, Hitting
  <2>5. rs \in Seq(Shots) /\ Sorted(rs) /\ CheckMisses(rs)
    BY <2>2 DEF Matches
  <2>6. \A r \in Range(rs) : r.cmd \in Rounds /\ (~r.resolved => verdict[r.cmd] = "none")
    BY <1>2, <2>4
  <2>7. QED
    BY <1>1, <2>5, <2>6, LookSaysOnce
<1>7. CASE OnReportHit
  BY <1>7 DEF OnReportHit, history
<1>8. CASE ParseEvent
  <2>1. PICK h : h = Head(wire)
    OBVIOUS
  <2>2. h \in Events /\ h.victim \in Players
    <3>1. wire # <<>> /\ h.kind = "hurt"
      BY <1>8, <2>1 DEF ParseEvent, Told
    <3>2. h \in Events
      BY <1>1, <2>1, <3>1, Positions
    <3>3. QED
      BY <1>1, <2>1, <3>1, <3>2, HeadIs
  <2>3. PICK F : Resolves(F, h.victim)
    BY <1>1, <1>8, <2>1, <2>2, HurtDoes
  <2>4. QED
    BY <1>2, <2>3 DEF Resolves
<1>9. CASE PlaceMarker
  BY <1>9 DEF PlaceMarker
<1>10. CASE Tick
  BY <1>10 DEF Tick
<1>11. CASE OnRender
  BY <1>1, <1>2, <1>11, LookSaysOnce DEF OnRender
<1>12. CASE OnLevelChange
  BY <1>2, <1>12 DEF OnLevelChange
<1>13. QED
  BY <1>3, <1>4, <1>5, <1>6, <1>7, <1>8, <1>9, <1>10, <1>11, <1>12 DEF Next, vars

\* What the tracker said of a shot stays said: no look for misses, on whichever thread and
\* at whatever moment, reports as a miss what on_player_hurt has reported as a hit, and
\* no hurt resolves a shot that was given up (the resolved flag in parse_event and
\* check_misses).
THEOREM ShotIsToldOnce == Spec => OneVerdict
<1>1. IInv /\ [Next]_vars => [\A c \in Rounds : verdict[c] # "none" => verdict'[c] = verdict[c]]_verdict
  BY SaidOnce
<1>2. QED
  BY <1>1, Inductive, PTL DEF Spec, OneVerdict

----------------------------------------------------------------------------
(* What was said is true                                                     *)

LEMMA SameSize ==
  ASSUME NEW A, NEW B, NEW S, NEW T, IsFiniteSet(S), IsFiniteSet(T), Cardinality(S) = Cardinality(T),
         IsFiniteSet(A), A = B, A \cap S = {}, B \cap T = {}
  PROVE  Cardinality(S \cup A) = Cardinality(T \cup B)
<1>1. Cardinality({}) = 0
  BY FS_EmptySet
<1>2. Cardinality(S) \in Nat /\ Cardinality(T) \in Nat /\ Cardinality(A) \in Nat
  BY FS_CardinalityType
<1>3. Cardinality(S \cup A) = Cardinality(S) + Cardinality(A) - Cardinality(S \cap A)
  BY FS_Union
<1>4. Cardinality(T \cup A) = Cardinality(T) + Cardinality(A) - Cardinality(T \cap A)
  BY FS_Union
<1>5. S \cap A = {} /\ T \cap A = {}
  OBVIOUS
<1>6. QED
  BY <1>1, <1>2, <1>3, <1>4, <1>5

LEMMA SameRest ==
  ASSUME NEW E, IsFiniteSet(E), NEW S \in SUBSET E, NEW T \in SUBSET E, Cardinality(S) = Cardinality(T)
  PROVE  Cardinality(E \ S) = Cardinality(E \ T)
<1>1. /\ Cardinality(E \ S) = Cardinality(E) - Cardinality(E \cap S)
      /\ Cardinality(E \ T) = Cardinality(E) - Cardinality(E \cap T)
  BY FS_Difference
<1>2. E \cap S = S /\ E \cap T = T
  OBVIOUS
<1>3. QED
  BY <1>1, <1>2

\* When all was told and something was said of every round, as many hits and misses were
\* said as there were: in a tie they changed places, but each resolved one record.
LEMMA CountsAreTrue ==
  ASSUME Types, World, Strict, NEW v \in Players,
         \A c \in DOMAIN rounds : verdict[c] \in {"hit", "miss", "discarded"} /\ ~Awaited(c)
  PROVE  Counted(v, "hit") = Actual(v, "hit") /\ Counted(v, "miss") = Actual(v, "miss")
<1> DEFINE E == {c \in DOMAIN rounds : Even(c) /\ rounds[c].target = v}
           Odd(w) == {c \in DOMAIN rounds : ~Even(c) /\ rounds[c].target = v /\ verdict[c] = w}
           OddOnes(w) == {c \in DOMAIN rounds : ~Even(c) /\ rounds[c].target = v /\ Truth(c) = w}
           S == HitsSaid(v)
           T == HitsTold(v)
<1>1. /\ DOMAIN rounds = 1..Len(rounds) /\ Len(rounds) \in Nat
      /\ \A X : X \subseteq DOMAIN rounds => IsFiniteSet(X)
  BY Positions, FiniteUpTo
<1>2. \A c \in DOMAIN rounds : ~Coming(c, "hurt")
  BY AwaitedIs DEF Coming
<1>3. ASSUME NEW c \in DOMAIN rounds, Even(c), rounds[c].target = v
      PROVE  /\ verdict[c] \in HitOrMiss /\ Truth(c) \in HitOrMiss
             /\ Truth(c) = "hit" <=> rounds[c].hit = v
  <2>1. rounds[c].aimed
    BY <1>3 DEF World, Aiming
  <2>2. verdict[c] # "discarded"
    BY <2>1 DEF Strict, SaidTruly
  <2>3. QED
    BY <1>3, <2>1, <2>2 DEF Truth, HitOrMiss
<1>4. ASSUME NEW c \in DOMAIN rounds, ~Even(c) PROVE verdict[c] = Truth(c)
  <2>1. CASE verdict[c] \in HitOrMiss
    BY <1>4, <2>1 DEF Strict, SaidTruly
  <2>2. CASE verdict[c] \notin HitOrMiss
    BY <2>2 DEF Strict, SaidTruly, Truth, HitOrMiss
  <2>3. QED
    BY <2>1, <2>2
<1>5. Odd("hit") = OddOnes("hit") /\ Odd("miss") = OddOnes("miss")
  BY <1>4
<1>6. Cardinality(S) = Cardinality(T)
  BY DEF Strict, Balanced
<1>7. S = {c \in E : verdict[c] = "hit"} /\ T = {c \in E : Truth(c) = "hit"}
  BY <1>2, <1>3 DEF HitsSaid, HitsTold
<1> HIDE DEF S, T
<1>8. /\ {c \in DOMAIN rounds : rounds[c].target = v /\ verdict[c] = "hit"} = S \cup Odd("hit")
      /\ {c \in DOMAIN rounds : rounds[c].target = v /\ Truth(c) = "hit"} = T \cup OddOnes("hit")
  BY <1>7
<1>9. /\ {c \in DOMAIN rounds : rounds[c].target = v /\ verdict[c] = "miss"} = (E \ S) \cup Odd("miss")
      /\ {c \in DOMAIN rounds : rounds[c].target = v /\ Truth(c) = "miss"} = (E \ T) \cup OddOnes("miss")
  BY <1>3, <1>7 DEF HitOrMiss
<1>10. /\ \A w : Odd(w) \cap E = {} /\ OddOnes(w) \cap E = {}
       /\ \A w : Odd(w) \subseteq DOMAIN rounds
       /\ S \subseteq E /\ T \subseteq E /\ E \subseteq DOMAIN rounds
  BY <1>7
<1> HIDE DEF E, Odd, OddOnes
<1>11. /\ IsFiniteSet(E) /\ IsFiniteSet(S) /\ IsFiniteSet(T)
       /\ IsFiniteSet(Odd("hit")) /\ IsFiniteSet(Odd("miss"))
       /\ IsFiniteSet(E \ S) /\ IsFiniteSet(E \ T)
  <2>1. S \subseteq DOMAIN rounds /\ T \subseteq DOMAIN rounds /\ E \ S \subseteq DOMAIN rounds /\ E \ T \subseteq DOMAIN rounds
    BY <1>10
  <2>2. QED
    BY <1>1, <1>10, <2>1
<1>12. Cardinality(S \cup Odd("hit")) = Cardinality(T \cup OddOnes("hit"))
  <2>1. Odd("hit") \cap S = {} /\ OddOnes("hit") \cap T = {}
    BY <1>10
  <2>2. PICK A, B : A = Odd("hit") /\ B = OddOnes("hit")
    OBVIOUS
  <2>3. A = B /\ IsFiniteSet(A) /\ A \cap S = {} /\ B \cap T = {}
    BY <1>5, <1>11, <2>1, <2>2
  <2>4. Cardinality(S \cup A) = Cardinality(T \cup B)
    BY <1>6, <1>11, <2>3, SameSize
  <2>5. QED
    BY <2>2, <2>4
<1>13. Cardinality((E \ S) \cup Odd("miss")) = Cardinality((E \ T) \cup OddOnes("miss"))
  <2>1. Odd("miss") \cap (E \ S) = {} /\ OddOnes("miss") \cap (E \ T) = {}
    BY <1>10
  <2>2. Cardinality(E \ S) = Cardinality(E \ T)
    BY <1>6, <1>10, <1>11, SameRest
  <2>3. PICK M, N : M = E \ S /\ N = E \ T
    OBVIOUS
  <2>4. Cardinality(M \cup Odd("miss")) = Cardinality(N \cup OddOnes("miss"))
    BY <1>5, <1>11, <2>1, <2>2, <2>3, SameSize
  <2>5. QED
    BY <2>3, <2>4
<1>14. QED
  BY <1>8, <1>9, <1>12, <1>13 DEF Counted, Actual

\* Several rounds in flight are told apart, though nothing the host tells names one: for
\* any players, rounds, capacity and periods, what the tracker says of a shot is what became
\* of it, and in a tie the hits and misses of each player are still as many as there were
\* (on_bullet_impact, parse_event and check_misses, with rounds that are regular while
\* another is in flight and records that live until all of their round was told).
THEOREM VerdictsAlwaysTrue == Spec => []VerdictsAreTrue
<1>1. IInv => VerdictsAreTrue
  <2> SUFFICES ASSUME IInv, ~mixed, ~orphan
               PROVE  /\ \A r \in Range(records) : r.of \in {None, r.cmd}
                      /\ tied \/ \A c \in DOMAIN rounds :
                                   verdict[c] \in {"hit", "miss", "discarded"} => verdict[c] = Truth(c)
                      /\ (\A c \in DOMAIN rounds : verdict[c] \in {"hit", "miss", "discarded"} /\ ~Awaited(c)) =>
                           \A v \in Players : Counted(v, "hit") = Actual(v, "hit") /\ Counted(v, "miss") = Actual(v, "miss")
    BY DEF VerdictsAreTrue
  <2>1. Types /\ World /\ Strict
    BY DEF IInv, Clean
  <2>2. \A r \in Range(records) : r.of \in {None, r.cmd}
    BY <2>1 DEF Strict, OwnImpacts
  <2>3. ASSUME ~tied, NEW c \in DOMAIN rounds, verdict[c] \in {"hit", "miss", "discarded"} PROVE verdict[c] = Truth(c)
    BY <2>1, <2>3 DEF Strict, SaidTruly, Truth, HitOrMiss
  <2>4. QED
    BY <2>1, <2>2, <2>3, CountsAreTrue
<1>2. QED
  BY <1>1, Inductive, PTL

\* A marker is placed by the contact or the impact of its own round, and at the victim only
\* if that round has no recent impact, or the render thread removed the record in between
\* (the second part of on_player_hurt, which takes the mutex anew).
THEOREM MarkersAlwaysShowTheirRound == Spec => []MarkersShowTheirRound
<1>1. IInv => MarkersShowTheirRound
  BY DEF IInv, Clean, Strict, Marks, Loose, ImpactAtHand, MarkersShowTheirRound
<1>2. QED
  BY <1>1, Inductive, PTL
=============================================================================
