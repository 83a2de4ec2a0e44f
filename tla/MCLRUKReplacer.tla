-------------------------- MODULE MCLRUKReplacer --------------------------
(***************************************************************************)
(* The LRU-K replacer driven directly by any sequence of Pin, Unpin and    *)
(* Victim calls, as its unit tests drive it.                               *)
(***************************************************************************)
EXTENDS LRUKReplacer

vars == <<lruk, rep_ret>>

Init == LRUKInit

Next == LRUKVictimNone \/ LRUKVictimFound \/ LRUKVictimThrows \/ \E f \in Frames : LRUKPin(f) \/ LRUKUnpin(f)

Spec == Init /\ [][Next]_vars

TypeOK == LRUKTypeOK

\* Reference definition of the LRU-K choice (spec 4.1): among evictable
\* frames the largest backward k-distance, fewer than k references counting
\* as infinite; ties go to the smallest oldest recorded timestamp.
Oldest(f) == lruk.store[f].history[1]
Dist(f) ==
  LET h == lruk.store[f].history IN
  IF Len(h) < K THEN Infinity ELSE lruk.ts - h[Len(h) - K + 1]
Beats(f, g) == Dist(f) > Dist(g) \/ (Dist(f) = Dist(g) /\ Oldest(f) <= Oldest(g))
PolicyVictim == CHOOSE f \in LRUKEvictable(lruk) : \A g \in LRUKEvictable(lruk) : Beats(f, g)

\* Every frame Victim returns is the one the LRU-K policy names, computed
\* from the state before the call (the scan in LRUKReplacer::Victim, its
\* running max_dist and its earliest_ts tie-break).
VictimFollowsPolicy ==
  [][rep_ret'.op = "Victim" /\ rep_ret'.frame # NoFrame
       => rep_ret'.frame = PolicyVictim]_vars

\* cur_size_, kept by hand across Pin, Unpin and Victim, always equals the
\* number of evictable nodes; Victim's early return on cur_size_ == 0 and
\* the final "return false" rely on it.
SizeCountsEvictable == lruk.size = Cardinality(LRUKEvictable(lruk))

\* Victim never ends in the runtime_error FetchOldestTimestamp throws on an
\* empty history.  Reached by Unpin after Victim (the victim's history was
\* cleared) or by a node that Victim's node_store_[i] created with k == 0.
VictimNeverThrows == rep_ret.op # "VictimThrew"
=============================================================================
