--------------------------- MODULE MCLRUReplacer ---------------------------
(***************************************************************************)
(* The LRU replacer driven directly by any sequence of Pin, Unpin and      *)
(* Victim calls, as its unit tests and the buffer pool drive it.           *)
(* RepinAllowed says whether Pin may be called on a frame that is already *)
(* pinned; the buffer pool does so when a resident page is fetched a       *)
(* second time before it is unpinned.  unpin_order is a history variable:  *)
(* the evictable frames in the order in which they became evictable.      *)
(***************************************************************************)
EXTENDS LRUReplacer

CONSTANT RepinAllowed

VARIABLE unpin_order

vars == <<lru, rep_ret, unpin_order>>

\* the frame is in the list and not evictable, i.e. currently pinned
Pinned(f) == \E i \in DOMAIN lru.list : lru.list[i].fid = f /\ ~lru.list[i].ev

Init == LRUInit /\ unpin_order = <<>>

TrackUnpinOrder ==
  LET now == LRUEvictable(lru') IN
  unpin_order' = SelectSeq(unpin_order, LAMBDA g : g \in now)
                   \o SetToSeq(now \ LRUEvictable(lru))

Next ==
  /\ \/ LRUVictimFound \/ LRUVictimNone
     \/ \E f \in Frames :
          \/ (RepinAllowed \/ ~Pinned(f)) /\ LRUPin(f)
          \/ LRUUnpin(f)
  /\ TrackUnpinOrder

Spec == Init /\ [][Next]_vars

TypeOK == LRUTypeOK /\ unpin_order \in Seq(Frames)

\* Refinement: the LRU replacer implements the abstract Replacer, the frames
\* it marks evictable being the abstract evictable set.  Broken if cur_size_
\* drifts from the number of evictable nodes, because Victim then refuses
\* (cur_size_ == 0) while a frame is evictable.
Abstract == INSTANCE Replacer WITH evictable <- LRUEvictable(lru)
ReplacerRefinement == Abstract!Spec

\* The order the spec's LRU test states: Victim returns the frame that became
\* evictable (was unpinned) longest ago.  The code orders nodes by when they
\* were pinned: Unpin flips a node in place instead of moving it to the tail.
LeastRecentlyUnpinnedFirst ==
  [][rep_ret'.op = "Victim" /\ rep_ret'.frame \in Frames
       => rep_ret'.frame = Head(unpin_order)]_vars
=============================================================================
