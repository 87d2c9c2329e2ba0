---------------------------- MODULE EntityCache ----------------------------
(***************************************************************************)
(* systems::entities: a cache of the host's entity list.  Hooks on adding  *)
(* and removing an entity keep it up to date, and a frame that finds it    *)
(* empty fills it from the list.  The hooks go live one after another      *)
(* while the host runs, and each may be unavailable.                       *)
(*                                                                         *)
(* The hooks and the frame stage are called on the host's game thread, so  *)
(* a call is one step; an entity is in the list when its addition is       *)
(* announced and still in it when its removal is.                          *)
(***************************************************************************)
EXTENDS Sequences, Naturals

CONSTANTS
  Visited,   \* force_update visits the indices below it: 2048
  Limit,     \* on_add_entity caches the indices below it: 0x4000
  Size,      \* of the host's list: 0x8000
  Entities,  \* addresses of entities
  Known,     \* those whose class classify_entity knows
  None

ASSUME CacheAssumption ==
  /\ Visited \in Nat /\ Limit \in Nat /\ Size \in Nat /\ Visited <= Limit /\ Limit <= Size
  /\ Known \subseteq Entities /\ None \notin Entities

Indices == 0..Size - 1
Hooks == <<"frame_stage", "add", "remove">>

VARIABLES
  list,     \* the host's list: the entity at each index, or None
  cached,   \* m_cached
  tried,    \* how many of the hooks have been tried
  live,     \* those that are in place
  missed,   \* history: indices whose last removal went unseen
  synced    \* history: the cache was filled while both hooks were live

vars == <<list, cached, tried, live, missed, synced>>

----------------------------------------------------------------------------

Init ==
  /\ list \in [Indices -> Entities \cup {None}]
  /\ \A i, j \in Indices : list[i] = list[j] /\ list[i] # None => i = j
  /\ cached = <<>> /\ tried = 0 /\ live = {}
  /\ missed = {} /\ synced = FALSE

Entry(i, e) == [index |-> i, ptr |-> e]
Cacheable(i, e) == i < Limit /\ e \in Known
HasIndex(c, i) == \E k \in DOMAIN c : c[k].index = i

\* Wrong variant: the search for the index is missing.
OnAddAlways(c, i, e) == IF Cacheable(i, e) THEN Append(c, Entry(i, e)) ELSE c

\* on_add_entity: a second entry for an index is refused.
OnAdd(c, i, e) ==
  IF Cacheable(i, e) /\ ~HasIndex(c, i) THEN Append(c, Entry(i, e)) ELSE c

\* Wrong variant: the last entry is dropped instead of taking the removed one's place.
OnRemovePops(c, i) ==
  IF i < Limit /\ HasIndex(c, i) THEN SubSeq(c, 1, Len(c) - 1) ELSE c

\* on_remove_entity: the last entry takes the place of the removed one.
OnRemove(c, i) ==
  IF i < Limit /\ HasIndex(c, i)
  THEN LET at == CHOOSE k \in DOMAIN c : c[k].index = i /\ \A l \in 1..k - 1 : c[l].index # i
       IN  SubSeq([c EXCEPT ![at] = c[Len(c)]], 1, Len(c) - 1)
  ELSE c

\* Wrong variant: the last index is not visited.
FilledShort ==
  LET fill[n \in 0..Visited] == IF n = 0 THEN <<>> ELSE OnAdd(fill[n - 1], n - 1, list[n - 1])
  IN  fill[Visited - 1]

\* force_update: the cache is cleared, then what is in the list is added.
Filled ==
  LET fill[n \in 0..Visited] == IF n = 0 THEN <<>> ELSE OnAdd(fill[n - 1], n - 1, list[n - 1])
  IN  fill[Visited]

----------------------------------------------------------------------------

\* cheat::initialize tries the hooks in their order and skips one it cannot place.
Install ==
  /\ tried < Len(Hooks)
  /\ tried' = tried + 1
  /\ live' = live \/ live' = live \cup {Hooks[tried + 1]}
  /\ UNCHANGED <<list, cached, missed, synced>>

\* The host adds an entity.
Add(i, e) ==
  /\ list[i] = None /\ \A j \in Indices : list[j] # e
  /\ list' = [list EXCEPT ![i] = e]
  /\ cached' = IF "add" \in live THEN OnAdd(cached, i, e) ELSE cached
  /\ UNCHANGED <<tried, live, missed, synced>>

\* The host removes an entity.
Remove(i) ==
  /\ list[i] # None
  /\ list' = [list EXCEPT ![i] = None]
  /\ cached' = IF "remove" \in live THEN OnRemove(cached, i) ELSE cached
  /\ missed' = IF "remove" \in live THEN missed \ {i} ELSE missed \cup {i}
  /\ UNCHANGED <<tried, live, synced>>

\* frame_stage_notify fills an empty cache, and only an empty one.
Frame ==
  /\ "frame_stage" \in live /\ cached = <<>>
  /\ cached' = Filled
  /\ synced' = (synced \/ {"add", "remove"} \subseteq live)
  /\ UNCHANGED <<list, tried, live, missed>>

Next ==
  \/ Install \/ Frame
  \/ \E i \in Indices : Remove(i) \/ \E e \in Entities : Add(i, e)

Spec == Init /\ [][Next]_vars

----------------------------------------------------------------------------
(* Properties                                                                *)

\* An index has one entry, so that removing it removes all of it: a second one
\* would outlive its entity.
OneEntryPerIndex ==
  \A k, l \in DOMAIN cached : cached[k].index = cached[l].index => k = l

\* An entry that does not agree with the list is one whose removal went unseen
\* while the hook was not in place; nothing else makes the cache go stale.
StaleOnlyFromUnseenRemoval ==
  \A k \in DOMAIN cached :
    LET c == cached[k] IN list[c.index] = c.ptr \/ c.index \in missed

\* Once the cache has been filled with both hooks in place it mirrors the list,
\* for the indices that filling visits, whatever was missed before.
MirrorsListOnceSynced ==
  synced =>
    {c \in {cached[k] : k \in DOMAIN cached} : c.index < Visited} =
      {Entry(i, list[i]) : i \in {j \in 0..Visited - 1 : list[j] \in Known}}
============================================================================
