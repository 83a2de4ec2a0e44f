---------------------------- MODULE LRUKReplacer ----------------------------
(***************************************************************************)
(* LRUKReplacer (lru_k_replacer.h, lru_k_replacer.cpp).  The state is      *)
(* store (node_store_: frame -> LRUKNode with its last k reference         *)
(* timestamps, the k it was built with and its evictable flag), ts         *)
(* (cur_ts_, the logical clock every Pin advances) and size (cur_size_,    *)
(* the hand-kept count of evictable nodes).  max_size_ is                   *)
(* BUFFER_POOL_SIZE: Victim scans frame ids 0..PoolSize-1.  Each public    *)
(* method holds latch_ for its whole body; the methods are operators on    *)
(* the state so that the buffer pool can call them inside its own steps.   *)
(***************************************************************************)
EXTENDS Naturals, Sequences, FiniteSets, TLC

CONSTANTS
  PoolSize,  \* BUFFER_POOL_SIZE
  K,         \* replacer_lru_k passed by the buffer pool
  MaxTs,     \* bound on cur_ts_ for model checking
  NoFrame

ASSUME PoolSize \in Nat \ {0} /\ K \in Nat \ {0} /\ MaxTs \in Nat

VARIABLES lruk, rep_ret

Frames == 0 .. PoolSize - 1

Ret(op, f) == [op |-> op, frame |-> f]

\* ULL max, the distance of a node with fewer than k references: any value
\* above every finite distance (which is at most cur_ts_) orders the same.
Infinity == MaxTs + 1

\* LRUKNode(fid, k): empty history, not evictable.  A node that
\* node_store_[i] default-constructs has k == 0.
NewNode(k) == [history |-> <<>>, k |-> k, ev |-> FALSE]

LRUKInitState == [store |-> <<>>, ts |-> 0, size |-> 0]

\* AddHistory: append ts, then erase from the front while size > k
AddHistory(n, ts) ==
  LET h == Append(n.history, ts)
  IN [n EXCEPT !.history = IF Len(h) > n.k THEN SubSeq(h, Len(h) - n.k + 1, Len(h)) ELSE h]

\* LRUKNode::SetEvictable and LRUKNode::ResetTimestampHistory.
SetEvictable(n, b) == [n EXCEPT !.ev = b]
ResetTimestampHistory(n) == [n EXCEPT !.history = <<>>]

\* Plausible fault: the distance to the most recent reference, not the k-th.
BackwardKDistanceMostRecent(n, ts) ==
  IF Len(n.history) < n.k \/ n.k = 0 THEN Infinity
  ELSE ts - n.history[Len(n.history)]

\* GetBackwardKDistance: infinite with fewer than k entries (or k == 0, where
\* the reverse scan never reaches count + 1 == k); else cur_ts_ minus the
\* k-th most recent timestamp.
BackwardKDistance(n, ts) ==
  IF Len(n.history) < n.k \/ n.k = 0 THEN Infinity
  ELSE ts - n.history[Len(n.history) - n.k + 1]

LRUKEvictable(s) == {f \in DOMAIN s.store : s.store[f].ev}

\* node_store_ after node_store_[i] has been evaluated for i in 0..last
WithDefaults(store, last) ==
  [f \in DOMAIN store \cup (0 .. last) |->
     IF f \in DOMAIN store THEN store[f] ELSE NewNode(0)]

(***************************************************************************)
(* The first scan of Victim as a fold over frame ids.  acc.max is          *)
(* max_dist, acc.sel selected_frame, acc.earliest earliest_ts.  An          *)
(* evictable node whose distance is >= max_dist has FetchOldestTimestamp   *)
(* called on it, which throws runtime_error on an empty history: the scan  *)
(* stops there with acc.threw, acc.last being the frame id it reached.     *)
(* The second scan (for an infinite max_dist) repeats the tie-break of the *)
(* first over the same nodes and changes nothing.                          *)
(***************************************************************************)
RECURSIVE VictimScan(_, _, _, _)
VictimScan(store, ts, i, acc) ==
  IF i = PoolSize THEN acc
  ELSE
    LET n == IF i \in DOMAIN store THEN store[i] ELSE NewNode(0)
        d == BackwardKDistance(n, ts)
        next == [acc EXCEPT !.last = i]
    IN IF ~n.ev \/ d < acc.max THEN VictimScan(store, ts, i + 1, next)
       ELSE IF n.history = <<>> THEN [next EXCEPT !.threw = TRUE]
       ELSE IF d > acc.max
         THEN VictimScan(store, ts, i + 1,
                [next EXCEPT !.max = d, !.sel = i, !.found = TRUE, !.earliest = n.history[1]])
       ELSE IF n.history[1] < acc.earliest
         THEN VictimScan(store, ts, i + 1, [next EXCEPT !.sel = i, !.earliest = n.history[1]])
       ELSE VictimScan(store, ts, i + 1, next)

(***************************************************************************)
(* Plausible faults in Pin and Unpin, each a one-line slip from the code;  *)
(* substituted for the real operator they confirm the properties notice.   *)
(***************************************************************************)
\* an existing node keeps its evictable flag
LRUKPinOpKeepsEvictable(s, f) ==
  [store |-> IF f \in DOMAIN s.store
               THEN [s.store EXCEPT ![f] = AddHistory(@, s.ts)]
               ELSE s.store @@ (f :> AddHistory(NewNode(K), s.ts)),
   ts |-> s.ts + 1,
   size |-> s.size]

\* an evictable node is pinned without --cur_size_
LRUKPinOpNoDecrement(s, f) ==
  [store |-> IF f \in DOMAIN s.store
               THEN [s.store EXCEPT ![f] = [AddHistory(@, s.ts) EXCEPT !.ev = FALSE]]
               ELSE s.store @@ (f :> AddHistory(NewNode(K), s.ts)),
   ts |-> s.ts + 1,
   size |-> s.size]

\* ++cur_size_ without the !IsEvictable() check
LRUKUnpinOpAlwaysCounts(s, f) ==
  IF f \in DOMAIN s.store
    THEN [s EXCEPT !.store[f].ev = TRUE, !.size = @ + 1]
    ELSE s

\* the node made evictable without ++cur_size_
LRUKUnpinOpNoCount(s, f) ==
  IF f \in DOMAIN s.store /\ ~s.store[f].ev
    THEN [s EXCEPT !.store[f].ev = TRUE]
    ELSE s

\* Pin (only while the clock is below its bound): a new node gets
\* LRUKNode(frame_id, k_) and the current timestamp; an existing node
\* (whatever its k) gets the timestamp and loses evictability, cur_size_
\* dropping if it was evictable.  cur_ts_ advances on every call.
LRUKCanPin(s) == s.ts < MaxTs

LRUKPinOp(s, f) ==
  [store |-> IF f \in DOMAIN s.store
               THEN [s.store EXCEPT ![f] = SetEvictable(AddHistory(@, s.ts), FALSE)]
               ELSE s.store @@ (f :> AddHistory(NewNode(K), s.ts)),
   ts |-> s.ts + 1,
   size |-> IF f \in LRUKEvictable(s) /\ s.size > 0 THEN s.size - 1 ELSE s.size]

\* Unpin: only a known, non-evictable node changes; an unknown frame is ignored.
LRUKUnpinOp(s, f) ==
  IF f \in DOMAIN s.store /\ ~s.store[f].ev
    THEN [s EXCEPT !.store[f].ev = TRUE, !.size = @ + 1]
    ELSE s

(***************************************************************************)
(* Victim.  cur_size_ == 0 returns false before touching node_store_.      *)
(* A victim found has its history cleared and is made non-evictable (the  *)
(* node stays).  A throw leaves the default nodes created so far.  The     *)
(* final "return false" (cur_size_ > 0 but no evictable node) is not a     *)
(* case of its own: cur_size_ counts the evictable nodes (checked).        *)
(***************************************************************************)
LRUKVictimOp(s) ==
  LET r == VictimScan(s.store, s.ts, 0,
             [max |-> 0, sel |-> NoFrame, earliest |-> Infinity,
              found |-> FALSE, threw |-> FALSE, last |-> 0])
  IN CASE s.size = 0 -> [state |-> s, frame |-> NoFrame, threw |-> FALSE]
       [] r.threw -> [state |-> [s EXCEPT !.store = WithDefaults(s.store, r.last)],
                      frame |-> NoFrame, threw |-> TRUE]
       [] OTHER -> [state |-> [s EXCEPT !.store = [WithDefaults(s.store, PoolSize - 1)
                                  EXCEPT ![r.sel] = SetEvictable(ResetTimestampHistory(@), FALSE)],
                                 !.size = @ - 1],
                    frame |-> r.sel, threw |-> FALSE]

LRUKStateOK(s) ==
  /\ DOMAIN s.store \subseteq Frames
  /\ \A f \in DOMAIN s.store :
       s.store[f] \in [history : Seq(0 .. MaxTs), k : {0, K}, ev : BOOLEAN]
  /\ s.ts \in 0 .. MaxTs
  /\ s.size \in 0 .. PoolSize

(***************************************************************************)
(* The replacer on its own: each call is one step.                         *)
(***************************************************************************)
LRUKInit == lruk = LRUKInitState /\ rep_ret = Ret("None", NoFrame)

LRUKPin(f) == LRUKCanPin(lruk) /\ lruk' = LRUKPinOp(lruk, f) /\ rep_ret' = Ret("Pin", f)

LRUKUnpin(f) == lruk' = LRUKUnpinOp(lruk, f) /\ rep_ret' = Ret("Unpin", f)

LRUKVictimNone ==
  lruk.size = 0 /\ UNCHANGED lruk /\ rep_ret' = Ret("Victim", NoFrame)

LRUKVictimFound ==
  LET r == LRUKVictimOp(lruk) IN
  r.frame # NoFrame /\ lruk' = r.state /\ rep_ret' = Ret("Victim", r.frame)

LRUKVictimThrows ==
  LET r == LRUKVictimOp(lruk) IN
  r.threw /\ lruk' = r.state /\ rep_ret' = Ret("VictimThrew", NoFrame)

LRUKTypeOK ==
  /\ LRUKStateOK(lruk)
  /\ rep_ret \in [op : {"None", "Pin", "Unpin", "Victim", "VictimThrew"},
                  frame : Frames \cup {NoFrame}]
=============================================================================
