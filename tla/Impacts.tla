------------------------------ MODULE Impacts ------------------------------
(***************************************************************************)
(* features::misc::impacts: which shot was a hit and which one a miss.     *)
(* A record is made when a shot is commanded.  What the host tells of it   *)
(* later -- the weapon fires, bullets strike, the contact is reported, a   *)
(* player is hurt -- names no shot: it is matched with the records by age  *)
(* and order.  A record that stays unmatched for too long is a miss, or    *)
(* was no shot.  All this happens on the game thread; the render thread    *)
(* looks for misses too, once in a frame, and both take one mutex.         *)
(*                                                                         *)
(* The clock counts in steps of the three periods that matter; the host    *)
(* moves it between frames.  Whether an impact lies in the direction of a  *)
(* shot is a choice, except that it does for the shot it comes from, and   *)
(* so is whether it is nearer to the target than the one before.  Logs,    *)
(* sounds, particles and the overlay of impacts, which only show what is   *)
(* decided here, are left out; the settings that switch markers and logs   *)
(* are on.                                                                 *)
(***************************************************************************)
EXTENDS Naturals, Sequences, SequencesExt

CONSTANTS
  Players,       \* players that can be shot at
  MaxRounds,     \* bound: rounds, and commands for one, in a session
  Patterns,      \* bound: what the host may tell of each round, in order
  Capacity,      \* records, and reports, that are kept
  Grace,         \* hurt_grace_period: age of an impact after which no hurt will follow
  ReportWindow,  \* age up to which a contact report goes with a hurt
  Timeout        \* absolute_timeout: age after which a record has expired

ASSUME ImpactsAssumption ==
  /\ MaxRounds \in Nat /\ Capacity \in Nat \ {0} /\ 0 \notin Players
  /\ Patterns \in [1..MaxRounds -> SUBSET Seq({"impact", "report", "hurt"})]
  /\ Grace \in Nat /\ ReportWindow \in Nat /\ Timeout \in Nat

None == 0
Rounds == 1..MaxRounds
Never == Timeout + 1      \* ages are not counted further; also the age of an impact not seen

VARIABLES
  records,     \* m_pending_shots
  reports,     \* m_pending_hits: the round of each, and its age
  game,        \* where the game thread is in on_player_hurt
  rounds,      \* the world: what has been commanded or fired
  firing,      \* the world: commands whose weapon is still to fire
  wire,        \* the world: what the host has still to tell
  verdict,     \* history: what was said of each command
  mixed,       \* history: an irregular round overlapped another one
  orphan,      \* history: a record was due, or removed, before the host had told all of its round
  tied,        \* history: a hurt had a choice of records struck at the same time
  misplaced,   \* history: a marker took the contact or impact of another round
  overlooked   \* history: a marker took the victim's position with the impact at hand

world == <<rounds, firing, wire>>
history == <<verdict, mixed, orphan, tied, misplaced, overlooked>>
vars == <<records, reports, game, rounds, firing, wire, verdict, mixed, orphan,
          tied, misplaced, overlooked>>

----------------------------------------------------------------------------
(* What is to come, and what makes a round irregular                         *)

Idle == [pc |-> "idle", cmd |-> None, victim |-> None, impact |-> FALSE, polled |-> FALSE]

Init ==
  /\ records = <<>> /\ reports = <<>> /\ game = Idle
  /\ rounds = <<>> /\ firing = <<>> /\ wire = <<>>
  /\ verdict = [c \in Rounds |-> "none"]
  /\ mixed = FALSE /\ orphan = FALSE
  /\ tied = FALSE /\ misplaced = FALSE /\ overlooked = FALSE

Awaited(c) == \E e \in Range(firing) \cup {x.cmd : x \in Range(wire)} : e = c

Live(c) ==
  \/ Awaited(c) \/ game.cmd = c
  \/ \E r \in Range(records) : r.cmd = c
  \/ \E h \in Range(reports) : h.cmd = c /\ h.age <= ReportWindow

\* A round as expected: commanded and fired, one impact, and if it hurts a player, then
\* the one it was aimed at, after the impact and after the report of the contact.
RegularPatterns == {<<"impact">>, <<"impact", "hurt">>, <<"impact", "report", "hurt">>}

\* Round c, commanded or fired now, meets another one, and one of the two is irregular.
Overlap(c, odd) == \E d \in DOMAIN rounds \ {c} : Live(d) /\ (odd \/ rounds[d].odd)

----------------------------------------------------------------------------
(* The records                                                               *)

Record(c, v) ==
  [cmd |-> c, victim |-> v, age |-> 0, impact |-> Never, of |-> None,
   confirmed |-> FALSE, resolved |-> FALSE]

Bounded(s) == IF Len(s) > Capacity THEN Tail(s) ELSE s

HasImpact(r) == r.of # None
Stale(r) == HasImpact(r) /\ r.impact > Grace
Expired(r) == r.age > Timeout

\* The next look for misses removes the record.
Gone(r) == r.resolved \/ Stale(r) \/ Expired(r)

\* A command that neither fired nor struck was no shot.
Said(r) == IF r.confirmed \/ HasImpact(r) THEN "miss" ELSE "discarded"

\* std::erase_if, and the loop that erases: what is in S stays, in its order. (A function,
\* not SelectSeq, because the prover knows nothing of the latter.)
Only(s, S) ==
  LET kept[n \in 0..Len(s)] ==
        IF n = 0 THEN <<>>
        ELSE IF s[n] \in S THEN Append(kept[n - 1], s[n]) ELSE kept[n - 1]
  IN kept[Len(s)]

Remaining(rs) == Only(rs, {r \in Range(rs) : ~Gone(r)})

\* Wrong variant: a record that a hurt has resolved is judged like any other.
CheckAll(rs) ==
  /\ records' = Remaining(rs)
  /\ verdict' = [c \in Rounds |->
       IF \E r \in Range(rs) : r.cmd = c /\ Gone(r)
         THEN Said(CHOOSE r \in Range(rs) : r.cmd = c) ELSE verdict[c]]

CheckMisses(rs) ==
  /\ records' = Remaining(rs)
  /\ verdict' = [c \in Rounds |->
       IF \E r \in Range(rs) : r.cmd = c /\ Gone(r) /\ ~r.resolved
         THEN Said(CHOOSE r \in Range(rs) : r.cmd = c) ELSE verdict[c]]

----------------------------------------------------------------------------
(* The game thread: a shot is commanded and fired                            *)

\* A trigger command is sent. Whether the weapon will fire is not known yet.
OnBoom(v, fires) ==
  LET c == Len(rounds) + 1
      made == Append(records, Record(c, v))
      lost == IF Len(made) > Capacity THEN {Head(made)} ELSE {}
  IN /\ game = Idle /\ c \in Rounds
     /\ records' = Bounded(made)
     /\ rounds' = Append(rounds, [aimed |-> fires, target |-> v, hit |-> None, odd |-> ~fires])
     /\ firing' = IF fires THEN Append(firing, c) ELSE firing
     /\ verdict' = [d \in Rounds |-> IF \E r \in lost : r.cmd = d /\ ~r.resolved
                                       THEN "dropped" ELSE verdict[d]]
     /\ orphan' = (orphan \/ \E r \in lost : Awaited(r.cmd))
     /\ UNCHANGED <<reports, game, wire, tied, misplaced, overlooked>>
     /\ mixed' = (mixed \/ Overlap(c, ~fires))

\* on_base_fire_guns_get_inaccuracy: the oldest record that has not been confirmed.
ConfirmFirst ==
  LET open == {i \in DOMAIN records : ~records[i].confirmed}
  IN IF open = {} THEN records ELSE [records EXCEPT ![Min(open)].confirmed = TRUE]

\* Round c is fired; what the host will tell of it follows pattern p.
Emit(c, p, v) == wire' = wire \o [i \in DOMAIN p |-> [kind |-> p[i], cmd |-> c, victim |-> v]]

Victims(p) == IF "hurt" \in Range(p) THEN Players ELSE {None}

\* The weapon fires for the oldest command that makes it fire.
Fire(p, v) ==
  LET c == Head(firing)
      odd == p \notin RegularPatterns \/ v \notin {None, rounds[c].target}
  IN /\ game = Idle /\ firing # <<>> /\ p \in Patterns[c] /\ v \in Victims(p)
     /\ firing' = Tail(firing) /\ Emit(c, p, v)
     /\ records' = ConfirmFirst
     /\ rounds' = [rounds EXCEPT ![c].hit = v, ![c].odd = odd]
     /\ UNCHANGED <<reports, game, verdict, orphan, tied, misplaced, overlooked>>
     /\ mixed' = (mixed \/ Overlap(c, odd))

\* The player fires without a command of ours.
FireByHand(p, v) ==
  LET c == Len(rounds) + 1
  IN /\ game = Idle /\ c \in Rounds /\ firing = <<>> /\ p \in Patterns[c] /\ v \in Victims(p)
     /\ rounds' = Append(rounds, [aimed |-> FALSE, target |-> None, hit |-> v, odd |-> TRUE])
     /\ Emit(c, p, v) /\ records' = ConfirmFirst
     /\ UNCHANGED <<reports, game, firing, verdict, orphan, tied, misplaced, overlooked>>
     /\ mixed' = (mixed \/ Overlap(c, TRUE))

----------------------------------------------------------------------------
(* The game thread: what the host tells                                      *)

Told(kind) == game = Idle /\ wire # <<>> /\ Head(wire).kind = kind /\ wire' = Tail(wire)

\* Wrong variant: the oldest record is matched although it has an impact.
Unstruck(r) == ~r.resolved /\ ~Expired(r)

\* Records that wait for their first impact.
Waiting(r) == ~r.resolved /\ ~HasImpact(r) /\ ~Expired(r)

Struck(r) == ~r.resolved /\ HasImpact(r) /\ ~Expired(r)

\* The oldest record in whose direction the impact lies; the one it comes from is one.
FirstMatches(c) ==
  LET waiting == {i \in DOMAIN records : Waiting(records[i])}
      own == {i \in waiting : records[i].cmd = c}
  IN {i \in waiting : \A j \in own : i <= j} \cup (IF own = {} THEN {None} ELSE {})

\* An impact that starts no record may be a further one of a record that has one.
FurtherMatches == {i \in DOMAIN records : Struck(records[i])}

Strike(i, c) == [records EXCEPT ![i].impact = 0, ![i].of = c]

\* on_bullet_impact: the impact is matched, and then misses are looked for.
OnBulletImpact ==
  LET c == Head(wire).cmd
  IN /\ Told("impact")
     /\ UNCHANGED <<reports, game, rounds, firing, mixed, orphan, tied, misplaced, overlooked>>
     /\ \E i \in FirstMatches(c) :
          \/ i # None /\ CheckMisses(Strike(i, c))
          \/ i = None /\ CheckMisses(records)       \* no record, or no nearer to the target
          \/ i = None /\ \E j \in FurtherMatches : CheckMisses(Strike(j, c))

OnReportHit ==
  /\ Told("report")
  /\ reports' = Bounded(Append(reports, [cmd |-> Head(wire).cmd, age |-> 0]))
  /\ UNCHANGED <<records, game, rounds, firing, history>>

\* Its impact is recent enough to place a marker at.
Usable(r) == HasImpact(r) /\ r.impact <= Timeout

Candidates(v) == {i \in DOMAIN records : records[i].victim = v /\ ~records[i].resolved}

\* The records of v that were struck last: one, unless two were in the same frame.
Latest(v) ==
  LET struck == {i \in Candidates(v) : HasImpact(records[i])}
  IN {i \in struck : \A j \in struck : records[i].impact <= records[j].impact}

\* The record with the latest impact, or the oldest if none has one.
Resolvable(v) == IF Latest(v) = {} THEN Min(Candidates(v)) ELSE Min(Latest(v))

\* Wrong variant: the record is removed here, where it is matched.
Erase(i) ==
  /\ records' = RemoveAt(records, i)
  /\ verdict' = [verdict EXCEPT ![records[i].cmd] = "hit"]

\* The record is resolved; the next look for misses removes it.
Resolve(i) ==
  /\ records' = [records EXCEPT ![i].resolved = TRUE]
  /\ verdict' = [verdict EXCEPT ![records[i].cmd] = "hit"]

\* on_player_hurt starts with parse_event, which lets the mutex go at its end.
ParseEvent ==
  LET e == Head(wire)
  IN /\ Told("hurt")
     /\ IF Candidates(e.victim) = {}
          THEN /\ UNCHANGED <<records, verdict>>
               /\ game' = [Idle EXCEPT !.pc = "hurt", !.cmd = e.cmd, !.victim = e.victim]
          ELSE /\ Resolve(Resolvable(e.victim))
               /\ game' = [pc |-> "hurt", cmd |-> e.cmd, victim |-> e.victim,
                           impact |-> Usable(records[Resolvable(e.victim)]), polled |-> FALSE]
     /\ tied' = (tied \/ Cardinality(Latest(e.victim)) > 1)
     /\ UNCHANGED <<reports, rounds, firing, mixed, orphan, misplaced, overlooked>>

Near == {i \in DOMAIN reports : reports[i].age < ReportWindow}

Nearest == Min({i \in Near : \A j \in Near : reports[i].age <= reports[j].age})

\* Records whose impact can stand in for the report; the newest one does.
WithImpact(v) == {i \in DOMAIN records : records[i].victim = v /\ Usable(records[i])}

KeepRecent(hs) == Only(hs, {h \in Range(hs) : h.age <= ReportWindow})

\* The second part of on_player_hurt places the marker, with the mutex taken again: where
\* the contact was reported, else at the impact, else where the victim is.
PlaceMarker ==
  /\ game.pc = "hurt" /\ game' = Idle
  /\ IF Near # {}
       THEN /\ reports' = KeepRecent(RemoveAt(reports, Nearest))
            /\ misplaced' = (misplaced \/ reports[Nearest].cmd # game.cmd)
            /\ UNCHANGED overlooked
       ELSE /\ reports' = KeepRecent(reports)
            /\ IF WithImpact(game.victim) # {}
                 THEN /\ misplaced' = (misplaced \/ (~game.polled /\ records[Max(WithImpact(game.victim))].of # game.cmd))
                      /\ UNCHANGED overlooked
                 ELSE /\ overlooked' = (overlooked \/ (game.impact /\ ~game.polled))
                      /\ UNCHANGED misplaced
  /\ UNCHANGED <<records, world, verdict, mixed, orphan, tied>>

----------------------------------------------------------------------------
(* Time, the render thread, and the level                                    *)

Older(age) == IF age < Never THEN age + 1 ELSE age

\* The host moves the clock between frames.
Tick ==
  /\ game = Idle
  /\ records' = [i \in DOMAIN records |->
       [records[i] EXCEPT !.age = Older(@), !.impact = Older(@)]]
  /\ reports' = [i \in DOMAIN reports |-> [reports[i] EXCEPT !.age = Older(@)]]
  /\ orphan' = (orphan \/ \E r \in Range(records') : ~r.resolved /\ Gone(r) /\ Awaited(r.cmd))
  /\ UNCHANGED <<game, world, verdict, mixed, tied, misplaced, overlooked>>

\* on_render, on the render thread, between any two sections under the mutex.
OnRender ==
  /\ UNCHANGED world /\ CheckMisses(records)
  /\ game' = IF game = Idle THEN Idle ELSE [game EXCEPT !.polled = TRUE]
  /\ UNCHANGED <<reports, mixed, orphan, tied, misplaced, overlooked>>

\* A level is loaded; what is on its way may still arrive.
OnLevelChange ==
  /\ game = Idle
  /\ records' = <<>> /\ reports' = <<>>
  /\ verdict' = [c \in Rounds |-> IF \E r \in Range(records) : r.cmd = c /\ ~r.resolved
                                    THEN "cleared" ELSE verdict[c]]
  /\ orphan' = (orphan \/ \E r \in Range(records) : Awaited(r.cmd))
  /\ UNCHANGED <<game, world, mixed, tied, misplaced, overlooked>>

----------------------------------------------------------------------------

Next ==
  \/ \E v \in Players, fires \in BOOLEAN : OnBoom(v, fires)
  \/ \E p \in UNION Range(Patterns), v \in Players \cup {None} : Fire(p, v) \/ FireByHand(p, v)
  \/ OnBulletImpact \/ OnReportHit \/ ParseEvent \/ PlaceMarker
  \/ Tick \/ OnRender \/ OnLevelChange

Spec == Init /\ [][Next]_vars

----------------------------------------------------------------------------
(* Properties                                                                *)

\* What is said of a shot is said once: a hit is not reported as a miss as well when the
\* render thread looks for misses between the two parts of on_player_hurt, or after it.
OneVerdict ==
  [][\A c \in Rounds : verdict[c] # "none" => verdict'[c] = verdict[c]]_verdict

Truth(c) ==
  IF ~rounds[c].aimed THEN "discarded"
  ELSE IF rounds[c].hit = rounds[c].target THEN "hit" ELSE "miss"

Counted(v, w) == Cardinality({c \in DOMAIN rounds : rounds[c].target = v /\ verdict[c] = w})
Actual(v, w) == Cardinality({c \in DOMAIN rounds : rounds[c].target = v /\ Truth(c) = w})

\* Several rounds in flight are told apart, though nothing the host tells names one. Unless
\* a round that is irregular overlaps another one, or a record is settled before all was told
\* of it, every impact is matched with its own record, and what is said of each shot is true.
\* If two bullets strike in one frame the hit and the miss may change places, but as many
\* hits and misses are told of each player as there were.
VerdictsAreTrue ==
  ~mixed /\ ~orphan =>
    /\ \A r \in Range(records) : r.of \in {None, r.cmd}
    /\ tied \/ \A c \in DOMAIN rounds :
                 verdict[c] \in {"hit", "miss", "discarded"} => verdict[c] = Truth(c)
    /\ (\A c \in DOMAIN rounds : verdict[c] \in {"hit", "miss", "discarded"} /\ ~Awaited(c)) =>
         \A v \in Players : Counted(v, "hit") = Actual(v, "hit") /\ Counted(v, "miss") = Actual(v, "miss")

\* A marker shows its own round, on the same terms, and it is placed at the victim only if
\* the shot has no recent impact, or the render thread removed the record before it was looked up.
MarkersShowTheirRound ==
  /\ misplaced => mixed \/ orphan
  /\ ~overlooked
============================================================================
