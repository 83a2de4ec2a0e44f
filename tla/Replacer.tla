------------------------------ MODULE Replacer ------------------------------
(***************************************************************************)
(* What a replacement policy promises the buffer pool (replacer.h and its  *)
(* two implementations): Pin makes a frame non-evictable, Unpin may make   *)
(* it evictable (the LRU-K variant ignores a frame it has never seen),     *)
(* and Victim hands out and forgets one evictable frame, failing only when *)
(* there is none.  rep_ret records what the last call returned, so that a  *)
(* Victim that fails while a frame is evictable is a visible step.         *)
(***************************************************************************)
CONSTANTS Frames, NoFrame

VARIABLES evictable, rep_ret

vars == <<evictable, rep_ret>>

Ret(op, f) == [op |-> op, frame |-> f]

Init ==
  /\ evictable = {}
  /\ rep_ret = Ret("None", NoFrame)

Pin(f) ==
  /\ evictable' = evictable \ {f}
  /\ rep_ret' = Ret("Pin", f)

Unpin(f) ==
  /\ evictable' \in {evictable, evictable \cup {f}}
  /\ rep_ret' = Ret("Unpin", f)

Victim ==
  \/ \E f \in evictable :
       /\ evictable' = evictable \ {f}
       /\ rep_ret' = Ret("Victim", f)
  \/ /\ evictable = {}
     /\ UNCHANGED evictable
     /\ rep_ret' = Ret("Victim", NoFrame)

Next == Victim \/ \E f \in Frames : Pin(f) \/ Unpin(f)

Spec == Init /\ [][Next]_vars
=============================================================================
