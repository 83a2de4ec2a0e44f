---------------------------- MODULE LRUReplacer ----------------------------
(***************************************************************************)
(* LRUReplacer (lru_replacer.cpp).  lru_list_ is a list of                 *)
(* <frame, evictable> pairs and lru_hash_ maps a frame to its list node;   *)
(* every operation updates the two together, so the model keeps the list   *)
(* and finds a frame's node by its position.  size is cur_size_, the count *)
(* of evictable frames the class maintains by hand.  Each public method    *)
(* holds latch_ for its whole body and is one atomic step.  The methods    *)
(* are operators on the replacer's state so that the buffer pool can call  *)
(* them inside its own steps.                                              *)
(***************************************************************************)
EXTENDS Naturals, Sequences, SequencesExt

CONSTANTS Frames, NoFrame

VARIABLES lru, rep_ret

Ret(op, f) == [op |-> op, frame |-> f]

Node(f, ev) == [fid |-> f, ev |-> ev]

LRUInitState == [list |-> <<>>, size |-> 0]

\* lru_hash_.find(frame_id): the list position of the frame's node, 0 if none
PosOf(s, f) == SelectInSeq(s.list, LAMBDA e : e.fid = f)

\* the frames whose node is marked evictable
LRUEvictable(s) == {s.list[i].fid : i \in {j \in DOMAIN s.list : s.list[j].ev}}

\* if (cur_size_ > 0) --cur_size_;
Decrement(n) == IF n > 0 THEN n - 1 ELSE n

(***************************************************************************)
(* Plausible faults in Pin, Unpin and Victim, each a one-line slip from   *)
(* the code; substituted for the real operator, the properties notice.    *)
(***************************************************************************)
\* --cur_size_ outside the found branch and without its guard
LRUPinOpUnguardedDecrement(s, f) ==
  LET i == PosOf(s, f) IN
  [list |-> Append(IF i # 0 THEN RemoveAt(s.list, i) ELSE s.list, Node(f, FALSE)),
   size |-> s.size - 1]

\* the flip of a present node without ++cur_size_
LRUUnpinOpNoCount(s, f) ==
  LET i == PosOf(s, f) IN
  IF i # 0 THEN [list |-> [s.list EXCEPT ![i].ev = TRUE], size |-> s.size]
           ELSE [list |-> Append(s.list, Node(f, TRUE)), size |-> s.size + 1]

\* Pin: drop the frame's node if present (decrementing cur_size_ whether or
\* not that node was evictable), then append a non-evictable node at the tail.
LRUPinOp(s, f) ==
  LET i == PosOf(s, f) IN
  IF i # 0 THEN [list |-> Append(RemoveAt(s.list, i), Node(f, FALSE)), size |-> Decrement(s.size)]
           ELSE [list |-> Append(s.list, Node(f, FALSE)), size |-> s.size]

\* Unpin: flip a present node to evictable in place (its position is kept),
\* or append a new evictable node at the tail.
LRUUnpinOp(s, f) ==
  LET i == PosOf(s, f) IN
  IF i # 0 THEN [list |-> [s.list EXCEPT ![i].ev = TRUE],
                 size |-> IF s.list[i].ev THEN s.size ELSE s.size + 1]
           ELSE [list |-> Append(s.list, Node(f, TRUE)), size |-> s.size + 1]

\* the victim loop without its evictable test: the head node is taken
LRUVictimOpNoEvictableTest(s) ==
  IF s.size = 0 \/ s.list = <<>> THEN [state |-> s, frame |-> NoFrame]
  ELSE [state |-> [list |-> Tail(s.list), size |-> Decrement(s.size)],
        frame |-> Head(s.list).fid]

\* Victim: false when cur_size_ is 0 or no node is evictable; otherwise the
\* evictable node nearest the head is removed and returned.  (The first scan
\* of the code only assigns *frame_id, which the second scan overwrites.)
LRUVictimOp(s) ==
  LET i == SelectInSeq(s.list, LAMBDA e : e.ev) IN
  IF s.size = 0 \/ i = 0 THEN [state |-> s, frame |-> NoFrame]
  ELSE [state |-> [list |-> RemoveAt(s.list, i), size |-> Decrement(s.size)],
        frame |-> s.list[i].fid]

LRUStateOK(s) ==
  /\ s.list \in Seq([fid : Frames, ev : BOOLEAN])
  /\ s.size \in Nat

(***************************************************************************)
(* The replacer on its own: each call is one step.                         *)
(***************************************************************************)
LRUInit == lru = LRUInitState /\ rep_ret = Ret("None", NoFrame)

LRUPin(f) == lru' = LRUPinOp(lru, f) /\ rep_ret' = Ret("Pin", f)

LRUUnpin(f) == lru' = LRUUnpinOp(lru, f) /\ rep_ret' = Ret("Unpin", f)

LRUVictimFound ==
  LET r == LRUVictimOp(lru) IN
  r.frame # NoFrame /\ lru' = r.state /\ rep_ret' = Ret("Victim", r.frame)

LRUVictimNone ==
  LRUVictimOp(lru).frame = NoFrame /\ UNCHANGED lru /\ rep_ret' = Ret("Victim", NoFrame)

LRUTypeOK ==
  /\ LRUStateOK(lru)
  /\ rep_ret \in [op : {"None", "Pin", "Unpin", "Victim"}, frame : Frames \cup {NoFrame}]
=============================================================================
