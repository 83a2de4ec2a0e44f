---------------------------- MODULE MCReplacers ----------------------------
(***************************************************************************)
(* Both replacement policies, each driven directly by any sequence of Pin, *)
(* Unpin and Victim calls, as their unit tests drive them.  alg is the     *)
(* policy a behaviour runs, fixed at the start as BufferPoolManager's      *)
(* constructor fixes it; the other policy's state stays at its initial     *)
(* value.  One model so holds the LRU model of MCLRUReplacer and the       *)
(* LRU-K model of MCLRUKReplacer, side by side and not interleaved.        *)
(***************************************************************************)
EXTENDS Naturals, Sequences

CONSTANTS PoolSize, K, MaxTs, NoFrame, RepinAllowed

VARIABLES alg, lru, lruk, rep_ret, unpin_order

vars == <<alg, lru, lruk, rep_ret, unpin_order>>

L == INSTANCE MCLRUReplacer WITH Frames <- 0 .. PoolSize - 1
LK == INSTANCE MCLRUKReplacer

Init ==
  \/ alg = "lru" /\ L!Init /\ lruk = LK!LRUKInitState
  \/ alg = "lruk" /\ LK!Init /\ lru = L!LRUInitState /\ unpin_order = <<>>

Next ==
  \/ alg = "lru" /\ L!Next /\ UNCHANGED <<alg, lruk>>
  \/ alg = "lruk" /\ LK!Next /\ UNCHANGED <<alg, lru, unpin_order>>

Spec == Init /\ [][Next]_vars

TypeOK ==
  /\ alg \in {"lru", "lruk"}
  /\ L!LRUStateOK(lru) /\ unpin_order \in Seq(0 .. PoolSize - 1)
  /\ LK!TypeOK

\* Refinement: under the buffer pool's discipline (Pin only a frame that is
\* not pinned) the LRU replacer implements the abstract Replacer, the frames
\* it marks evictable being the abstract evictable set.  Broken if cur_size_
\* drifts from the number of evictable nodes, because Victim then refuses
\* (cur_size_ == 0) while a frame is evictable.  An LRU-K behaviour maps to
\* the abstract initial state (its own promise is VictimFollowsPolicy).
Abstract == INSTANCE Replacer WITH
  Frames <- 0 .. PoolSize - 1,
  evictable <- IF alg = "lru" THEN L!LRUEvictable(lru) ELSE {},
  rep_ret <- IF alg = "lru" THEN rep_ret ELSE L!Ret("None", NoFrame)
ReplacerRefinement == Abstract!Spec

\* LRU-K: cur_size_, kept by hand across Pin, Unpin and Victim, always
\* equals the number of evictable nodes; Victim's early return on
\* cur_size_ == 0 and its final "return false" rely on it.
SizeCountsEvictable == LK!SizeCountsEvictable

\* LRU-K: every frame Victim returns is the one the LRU-K policy names from
\* the state before the call (the scan in LRUKReplacer::Victim, its running
\* max_dist and its earliest_ts tie-break).
VictimFollowsPolicy ==
  [][alg = "lruk" /\ rep_ret'.op = "Victim" /\ rep_ret'.frame # NoFrame
       => rep_ret'.frame = LK!PolicyVictim]_vars
=============================================================================
