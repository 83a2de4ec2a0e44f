------------------------------ MODULE Executors ------------------------------
(***************************************************************************)
(* The pull-based executors over one TableHandle: a query                  *)
(*   Projection(Limit(Filter(SeqScan)))                                    *)
(* whose caller runs `Init; while (!IsEnd) { use GetRecord; Next }` while  *)
(* the table's own calls interleave between the caller's steps.  Each      *)
(* executor method runs its child calls to completion in one step.         *)
(*                                                                         *)
(* A record is <<rid, value>>: the RID the scan read and the bytes         *)
(* GetRecord copied out.  Projection keeps a record's identity (it only    *)
(* changes the schema), and the filter is a set of accepted values.        *)
(*                                                                         *)
(* The caller runs one statement: that query, or an UpdateExecutor over    *)
(* Filter(SeqScan) that sets the record to UpdVal.  UpdateExecutor::Next   *)
(* is one call, but its loop makes one table call per record with no      *)
(* latch, so other callers interleave between its steps.                   *)
(***************************************************************************)
EXTENDS TableHandle

CONSTANTS
  FilterVals,   \* values filter_ accepts
  Limit,        \* limit_
  UpdVal        \* the value updates_ gives a record

VARIABLES
  plan,         \* the executors' state: ProjectionExecutor and its children
  qpc,          \* the caller: "idle", "running", "done", "failed"
  stmt,         \* the statement it runs: "none", "select", "update"
  out,          \* records the caller received
  stable,       \* ghost: records present since the query started
  calls         \* ghost: the caller's calls in the current statement

qvars == <<plan, qpc, stmt, out, stable, calls>>
allvars == <<vars, qvars>>

NULL == <<>>   \* nullptr: no record (a record is a pair)
ReadRec(rid) == <<rid, GetRecord(rid)>>
Present == {<<r, slot_data[r[1]][r[2]]>> : r \in Occupied}
Match(rec) == rec[2] \in FilterVals
\* RIDs whose occupancy or bytes a step changes.
ChangedRIDs ==
  {r \in Pages \X Slots : \/ (r[2] \in bitmap[r[1]]) # (r[2] \in bitmap'[r[1]])
                         \/ slot_data[r[1]][r[2]] # slot_data'[r[1]][r[2]]}

-----------------------------------------------------------------------------
(* SeqScanExecutor: rid_ and record_.                                      *)

SSAt(r) == [rid |-> r, rec |-> IF r # INVALID_RID THEN ReadRec(r) ELSE NULL]
SSInit == SSAt(GetFirstRID)
SSNext(ss) == IF ss.rec # NULL THEN SSAt(GetNextRID(ss.rid)) ELSE ss
SSIsEnd(ss) == ss.rec = NULL

(* FilterExecutor: child_ and record_.                                     *)

\* Plausible fault: the loop gives up at the first record that fails the
\* filter instead of moving on.
FilterSeekStopsAtMismatch(c) ==
  IF SSIsEnd(c) \/ ~Match(c.rec) THEN [child |-> c, rec |-> NULL]
  ELSE [child |-> c, rec |-> c.rec]

\* for (; !child_->IsEnd(); child_->Next()) if filter_(record) { keep; break }
RECURSIVE FilterSeek(_)
FilterSeek(c) ==
  IF SSIsEnd(c) THEN [child |-> c, rec |-> NULL]
  ELSE IF Match(c.rec) THEN [child |-> c, rec |-> c.rec]
  ELSE FilterSeek(SSNext(c))

FilterInit == FilterSeek(SSInit)
FilterNext(f) == FilterSeek(SSNext(f.child))
FilterIsEnd(f) == f.rec = NULL

(* LimitExecutor: child_, count_ and record_.                              *)

\* Plausible fault: Next takes the child's record without count_++.
LimitNextNoCount(l) ==
  IF l.count >= Limit \/ FilterIsEnd(l.child) THEN l
  ELSE LET c == FilterNext(l.child) IN
       IF FilterIsEnd(c) THEN [l EXCEPT !.child = c]
       ELSE [child |-> c, count |-> l.count, rec |-> c.rec]

LimitInit ==
  LET c == FilterInit IN
  IF FilterIsEnd(c) THEN [child |-> c, count |-> 0, rec |-> NULL]
  ELSE [child |-> c, count |-> 1, rec |-> c.rec]

LimitNext(l) ==
  IF l.count >= Limit \/ FilterIsEnd(l.child) THEN l
  ELSE LET c == FilterNext(l.child) IN
       IF FilterIsEnd(c) THEN [l EXCEPT !.child = c]
       ELSE [child |-> c, count |-> l.count + 1, rec |-> c.rec]

LimitIsEnd(l) == l.count >= Limit \/ FilterIsEnd(l.child)

(* ProjectionExecutor: child_ and record_.                                 *)

ProjInit ==
  LET c == LimitInit IN [child |-> c, rec |-> IF LimitIsEnd(c) THEN NULL ELSE c.rec]
ProjNext(p) ==
  LET c == LimitNext(p.child) IN [child |-> c, rec |-> IF LimitIsEnd(c) THEN NULL ELSE c.rec]
ProjIsEnd(p) == LimitIsEnd(p.child) \/ p.rec = NULL

-----------------------------------------------------------------------------
(* The caller's loop.                                                      *)

QueryStart ==
  /\ qpc = "idle"
  /\ plan' = ProjInit
  /\ qpc' = "running"
  /\ stmt' = "select"
  /\ stable' = Present
  /\ calls' = 1
  /\ UNCHANGED <<vars, out>>

QueryEmit ==
  /\ stmt = "select"
  /\ qpc = "running"
  /\ ~ProjIsEnd(plan)
  /\ out' = Append(out, plan.rec)
  /\ plan' = ProjNext(plan)
  /\ calls' = calls + 1
  /\ UNCHANGED <<vars, qpc, stmt, stable>>

QueryEnd ==
  /\ stmt = "select"
  /\ qpc = "running"
  /\ ProjIsEnd(plan)
  /\ qpc' = "done"
  /\ calls' = calls + 1
  /\ UNCHANGED <<vars, plan, stmt, out, stable>>

(* UpdateExecutor: child_ (a FilterExecutor) and the local count; phase is *)
(* where its loop is: before UpdateRecord or before child_->Next().        *)

\* Next: child_->Init(), count = 0.
UpdateStart ==
  /\ qpc = "idle"
  /\ plan' = [child |-> FilterInit, count |-> 0, phase |-> "write"]
  /\ qpc' = "running"
  /\ stmt' = "update"
  /\ stable' = Present
  /\ calls' = 1
  /\ UNCHANGED <<vars, out>>

\* The loop body: UpdateRecord(old_record->GetRID(), new_record), count++.
\* If another caller deleted the record since the scan read it, the call
\* throws WSDB_RECORD_MISS out of Next: the records updated so far stay.
UpdateWrite ==
  LET rid == plan.child.rec[1] IN
  /\ stmt = "update"
  /\ qpc = "running"
  /\ plan.phase = "write"
  /\ ~FilterIsEnd(plan.child)
  /\ \/ /\ UpdateRecordCall(rid[1], rid[2], UpdVal)
        /\ plan' = [plan EXCEPT !.count = @ + 1, !.phase = "next"]
        /\ UNCHANGED qpc
     \/ /\ rid[2] \notin bitmap[rid[1]]
        /\ qpc' = "failed"
        /\ UNCHANGED <<vars, plan>>
  /\ calls' = calls + 1
  /\ UNCHANGED <<stmt, out, stable>>

\* Plausible fault: the child advanced in the body as well as by the for.
UpdateAdvanceTwice ==
  /\ stmt = "update"
  /\ qpc = "running"
  /\ plan.phase = "next"
  /\ plan' = [plan EXCEPT !.child = FilterNext(FilterNext(@)), !.phase = "write"]
  /\ calls' = calls + 1
  /\ UNCHANGED <<vars, qpc, stmt, out, stable>>

\* Plausible fault: the child advanced but the loop not sent back to its body.
UpdateAdvanceNoReset ==
  /\ stmt = "update"
  /\ qpc = "running"
  /\ plan.phase = "next"
  /\ plan' = [plan EXCEPT !.child = FilterNext(@)]
  /\ calls' = calls + 1
  /\ UNCHANGED <<vars, qpc, stmt, out, stable>>

\* The for loop's child_->Next().
UpdateAdvance ==
  /\ stmt = "update"
  /\ qpc = "running"
  /\ plan.phase = "next"
  /\ plan' = [plan EXCEPT !.child = FilterNext(@), !.phase = "write"]
  /\ calls' = calls + 1
  /\ UNCHANGED <<vars, qpc, stmt, out, stable>>

\* The child is at its end: record_ = {count}, is_end_ = true.
UpdateEnd ==
  /\ stmt = "update"
  /\ qpc = "running"
  /\ plan.phase = "write"
  /\ FilterIsEnd(plan.child)
  /\ out' = <<plan.count>>
  /\ qpc' = "done"
  /\ calls' = calls + 1
  /\ UNCHANGED <<vars, plan, stmt, stable>>

\* A table call; the ghost drops the records whose slot it changed.
TableStep ==
  /\ Next
  /\ stable' = {x \in stable : x[1] \notin ChangedRIDs}
  /\ UNCHANGED <<plan, qpc, stmt, out, calls>>

ExecInit ==
  /\ Init
  /\ plan = NULL /\ qpc = "idle" /\ stmt = "none" /\ out = <<>> /\ stable = {}
  /\ calls = 0

ExecNext ==
  \/ TableStep
  \/ QueryStart \/ QueryEmit \/ QueryEnd
  \/ UpdateStart \/ UpdateWrite \/ UpdateAdvance \/ UpdateEnd

ExecSpec == ExecInit /\ [][ExecNext]_allvars

-----------------------------------------------------------------------------
\* What the query hands its caller: at most limit_ records, each accepted by
\* the filter, in strictly increasing RID order (no record twice), although
\* the table changes between the caller's calls.
QueryOutputSound ==
  stmt = "select" =>
    /\ Len(out) <= Limit
    /\ \A i \in 1 .. Len(out) : Match(out[i])
    /\ \A i \in 1 .. Len(out) - 1 : RIDBefore(out[i][1], out[i + 1][1])

\* A query that ended because its scan ran out (not because LimitExecutor
\* reached limit_) returned every accepted record that stayed in the table,
\* unchanged, from the query's start to its end: the scan's GetNextRID from
\* a RID the table changed around never skips or repeats a record.
QueryComplete ==
  stmt = "select" /\ qpc = "done" /\ plan.child.count < Limit =>
    {x \in stable : Match(x)} \subseteq {out[i] : i \in 1 .. Len(out)}

\* An update that returned its count left every record no other caller
\* touched during it as the statement says: a record the filter accepted at
\* the start now holds UpdVal, every other one its old value.  Its scan reads
\* the table it is itself rewriting, between other callers' changes.
UpdateExact ==
  stmt = "update" /\ qpc = "done" =>
    \A x \in stable :
      /\ x[1][2] \in bitmap[x[1][1]]
      /\ slot_data[x[1][1]][x[1][2]] = IF Match(x) THEN UpdVal ELSE x[2]


\* A statement ends within a bounded number of the caller's calls, however
\* the other callers change the table meanwhile: one call to start, at most
\* two per RID the scan can reach (UpdateRecord, then child_->Next()), one
\* to end.  The scan under it is not kept going, or stuck, by inserts and
\* deletes around its RID.
MaxCalls == 2 * LastPage * RecPerPage + 2
StatementBounded == calls <= MaxCalls
=============================================================================
