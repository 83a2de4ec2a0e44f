---------------------------- MODULE TableHandle ----------------------------
(***************************************************************************)
(* TableHandle (src/src/system/handle/table_handle.cpp): the table header  *)
(* (page_num_, rec_num_, first_free_page_), each data page's occupancy     *)
(* bitmap, slot contents, persisted record count and next-free-page link,  *)
(* and the record operations over them.                                    *)
(*                                                                         *)
(* The buffer pool is abstracted to a page store: each FetchPage/UnpinPage *)
(* pair of one call is taken to give the caller the page's current bytes   *)
(* and keep its writes (what the pool runs check for exclusive pins).      *)
(* tab_hdr_ has no latch, so InsertRecord is split at the points where it  *)
(* reads and then writes shared state and concurrent calls interleave      *)
(* there; DeleteRecord, UpdateRecord and InsertRecord(rid, record) are     *)
(* single steps.                                                           *)
(***************************************************************************)
EXTENDS Integers, Sequences, SequencesExt, FiniteSets, FiniteSetsExt

CONSTANTS
  Threads,            \* callers of the table API
  RecPerPage,         \* tab_hdr_.rec_per_page_
  LastPage,           \* bound: no data page id above it is created
  Vals,               \* record contents, as model values
  NoVal,              \* bytes of a never-written slot
  RecordNumSigned,    \* whether the page's record count type is signed
  RecordNumModulus    \* 2^w of an unsigned record count (only >= RecPerPage matters)

ASSUME RecPerPage >= 1 /\ LastPage >= 1 /\ RecordNumSigned \in BOOLEAN
ASSUME RecordNumModulus > RecPerPage

VARIABLES
  page_num, rec_num, first_free,       \* tab_hdr_
  bitmap, slot_data, rec_count, next_free,  \* per page
  thr,                                 \* per caller: control point and locals
  stored                               \* ghost: <<rid, value>> the API acknowledged

vars == <<page_num, rec_num, first_free, bitmap, slot_data, rec_count,
          next_free, thr, stored>>

INVALID_PAGE_ID == -1
FILE_HEADER_PAGE_ID == 0
INVALID_RID == <<INVALID_PAGE_ID, -1>>
Pages == 1 .. LastPage
Slots == 0 .. RecPerPage - 1
RID(p, s) == <<p, s>>
Idle == [pc |-> "idle", pid |-> INVALID_PAGE_ID, slot |-> -1, val |-> NoVal]

\* BitMap::FindFirst(bits, n, start, v): first slot >= start whose bit is v,
\* or n if there is none.
FindFirst(bits, start, v) ==
  LET hits == {s \in Slots : s >= start /\ (s \in bits) = v}
  IN IF hits = {} THEN RecPerPage ELSE Min(hits)

\* The local recordNum after SetRecordNum(recordNum--): one less, wrapping
\* when the count type is unsigned.
RecordNumAfterDecrement(n) ==
  IF RecordNumSigned THEN n - 1 ELSE (n - 1) % RecordNumModulus

Init ==
  /\ page_num = FILE_HEADER_PAGE_ID + 1
  /\ rec_num = 0
  /\ first_free = INVALID_PAGE_ID
  /\ bitmap = [p \in Pages |-> {}]
  /\ slot_data = [p \in Pages |-> [s \in Slots |-> NoVal]]
  /\ rec_count = [p \in Pages |-> 0]
  /\ next_free = [p \in Pages |-> INVALID_PAGE_ID]
  /\ thr = [t \in Threads |-> Idle]
  /\ stored = {}

\* Pages that exist (were handed out by CreateNewPageHandle).
Existing == FILE_HEADER_PAGE_ID + 1 .. page_num - 1
Forget(rid) == {x \in stored : x[1] # rid}

-----------------------------------------------------------------------------
(* InsertRecord(record), step by step.                                     *)

\* CreateNewPageHandle: page_id = tab_hdr_.page_num_ (up to the LastPage bound).
InsertReadPageNum(t) ==
  /\ thr[t].pc = "idle"
  /\ page_num <= LastPage
  /\ \E v \in Vals :
       thr' = [thr EXCEPT ![t] = [Idle EXCEPT !.pc = "fetch", !.pid = page_num, !.val = v]]
  /\ UNCHANGED <<page_num, rec_num, first_free, bitmap, slot_data, rec_count,
                 next_free, stored>>

\* page_num_++, FetchPage(page_id), page->SetNextFreePageId(first_free_page_).
InsertFetch(t) ==
  /\ thr[t].pc = "fetch"
  /\ page_num <= LastPage
  /\ page_num' = page_num + 1
  /\ next_free' = [next_free EXCEPT ![thr[t].pid] = first_free]
  /\ thr' = [thr EXCEPT ![t].pc = "publish"]
  /\ UNCHANGED <<rec_num, first_free, bitmap, slot_data, rec_count, stored>>

\* first_free_page_ = page_id; back in InsertRecord, FindFirst empty slot.
InsertPublish(t) ==
  /\ thr[t].pc = "publish"
  /\ first_free' = thr[t].pid
  /\ thr' = [thr EXCEPT ![t].pc = "write",
                        ![t].slot = FindFirst(bitmap[thr[t].pid], 0, FALSE)]
  /\ UNCHANGED <<page_num, rec_num, bitmap, slot_data, rec_count, next_free, stored>>

\* The bookkeeping shared by both InsertRecord forms on page p, slot s: write
\* the slot, set its bit, rec_num_++, SetRecordNum(recordNum++) (stores the
\* old count), and if the incremented local equals rec_per_page_ unlink the
\* page: first_free_page_ = its next-free link, its link = INVALID_PAGE_ID.
WriteRecord(p, s, v) ==
  LET full == rec_count[p] + 1 = RecPerPage IN
  /\ slot_data' = [slot_data EXCEPT ![p][s] = v]
  /\ bitmap' = [bitmap EXCEPT ![p] = @ \cup {s}]
  /\ rec_num' = rec_num + 1
  /\ rec_count' = [rec_count EXCEPT ![p] = rec_count[p]]
  /\ first_free' = IF full THEN next_free[p] ELSE first_free
  /\ next_free' = IF full THEN [next_free EXCEPT ![p] = INVALID_PAGE_ID] ELSE next_free
  /\ stored' = stored \cup {<<RID(p, s), v>>}

\* Steps 3-6 of InsertRecord on the slot FindFirst returned, then unpin.
InsertWrite(t) ==
  /\ thr[t].pc = "write"
  /\ thr[t].slot \in Slots
  /\ WriteRecord(thr[t].pid, thr[t].slot, thr[t].val)
  /\ thr' = [thr EXCEPT ![t] = Idle]
  /\ UNCHANGED page_num

-----------------------------------------------------------------------------
(* The other mutating calls, each one step of an idle caller.  Their       *)
(* error paths (RECORD_EXISTS, RECORD_MISS) unpin and throw without a      *)
(* state change.                                                           *)

\* Plausible fault: the occupancy check of InsertRecord(rid, record) dropped.
InsertRecordAtNoCheck(t, p, s, v) ==
  /\ thr[t].pc = "idle"
  /\ WriteRecord(p, s, v)
  /\ UNCHANGED <<page_num, thr>>

\* InsertRecord(rid, record): RECORD_EXISTS if the slot is occupied.
InsertRecordAt(t, p, s, v) ==
  /\ thr[t].pc = "idle"
  /\ s \notin bitmap[p]
  /\ WriteRecord(p, s, v)
  /\ UNCHANGED <<page_num, thr>>

\* Plausible fault: no RECORD_MISS return; an empty slot is "deleted" too.
DeleteRecordNoCheck(t, p, s) ==
  LET recordNum == RecordNumAfterDecrement(rec_count[p]) IN
  /\ thr[t].pc = "idle"
  /\ bitmap' = [bitmap EXCEPT ![p] = @ \ {s}]
  /\ rec_num' = rec_num - 1
  /\ rec_count' = [rec_count EXCEPT ![p] = rec_count[p]]
  /\ next_free' = IF recordNum < RecPerPage THEN [next_free EXCEPT ![p] = first_free] ELSE next_free
  /\ first_free' = IF recordNum < RecPerPage THEN p ELSE first_free
  /\ stored' = Forget(RID(p, s))
  /\ UNCHANGED <<page_num, slot_data, thr>>

\* Plausible fault: rec_num_ left alone on delete.
DeleteRecordNoHeaderCount(t, p, s) ==
  LET recordNum == RecordNumAfterDecrement(rec_count[p]) IN
  /\ thr[t].pc = "idle"
  /\ s \in bitmap[p]
  /\ bitmap' = [bitmap EXCEPT ![p] = @ \ {s}]
  /\ rec_count' = [rec_count EXCEPT ![p] = rec_count[p]]
  /\ next_free' = IF recordNum < RecPerPage THEN [next_free EXCEPT ![p] = first_free] ELSE next_free
  /\ first_free' = IF recordNum < RecPerPage THEN p ELSE first_free
  /\ stored' = Forget(RID(p, s))
  /\ UNCHANGED <<page_num, rec_num, slot_data, thr>>

\* DeleteRecord(rid): RECORD_MISS if the slot is empty; else clear the bit,
\* rec_num_--, SetRecordNum(recordNum--) (stores the old count), and if the
\* decremented local is below rec_per_page_ push the page on the free list.
DeleteRecord(t, p, s) ==
  LET recordNum == RecordNumAfterDecrement(rec_count[p]) IN
  /\ thr[t].pc = "idle"
  /\ s \in bitmap[p]
  /\ bitmap' = [bitmap EXCEPT ![p] = @ \ {s}]
  /\ rec_num' = rec_num - 1
  /\ rec_count' = [rec_count EXCEPT ![p] = rec_count[p]]
  /\ next_free' = IF recordNum < RecPerPage THEN [next_free EXCEPT ![p] = first_free] ELSE next_free
  /\ first_free' = IF recordNum < RecPerPage THEN p ELSE first_free
  /\ stored' = Forget(RID(p, s))
  /\ UNCHANGED <<page_num, slot_data, thr>>

\* UpdateRecord(rid, record): RECORD_MISS if empty; else overwrite the slot.
\* The call itself, made by any caller (a table thread or an executor).
UpdateRecordCall(p, s, v) ==
  /\ s \in bitmap[p]
  /\ slot_data' = [slot_data EXCEPT ![p][s] = v]
  /\ stored' = Forget(RID(p, s)) \cup {<<RID(p, s), v>>}
  /\ UNCHANGED <<page_num, rec_num, first_free, bitmap, rec_count, next_free, thr>>

UpdateRecord(t, p, s, v) ==
  /\ thr[t].pc = "idle"
  /\ UpdateRecordCall(p, s, v)

Next ==
  \/ \E t \in Threads :
       \/ InsertReadPageNum(t) \/ InsertFetch(t) \/ InsertPublish(t) \/ InsertWrite(t)
       \/ \E p \in Existing, s \in Slots :
            \/ DeleteRecord(t, p, s)
            \/ \E v \in Vals : InsertRecordAt(t, p, s, v) \/ UpdateRecord(t, p, s, v)

Spec == Init /\ [][Next]_vars
-----------------------------------------------------------------------------
(* Read paths, as operators over the current state.                        *)

\* GetRecord(rid): PAGE_MISS if the slot's bit is clear, else its bytes.
GetRecord(rid) ==
  IF rid[2] \in bitmap[rid[1]] THEN slot_data[rid[1]][rid[2]] ELSE "PageMiss"

\* GetFirstRID: from page FILE_HEADER_PAGE_ID + 1 up to page_num_, the first
\* occupied slot of the first page that has one.
RECURSIVE FirstFrom(_)
FirstFrom(p) ==
  IF p >= page_num THEN INVALID_RID
  ELSE LET id == FindFirst(bitmap[p], 0, TRUE) IN
       IF id # RecPerPage THEN RID(p, id) ELSE FirstFrom(p + 1)
GetFirstRID == FirstFrom(FILE_HEADER_PAGE_ID + 1)

\* Plausible fault: the slot restarts at 0, not -1, on the next page.
RECURSIVE NextFromRestartAtZero(_, _)
NextFromRestartAtZero(p, sid) ==
  IF p >= page_num THEN INVALID_RID
  ELSE LET id == FindFirst(bitmap[p], sid + 1, TRUE) IN
       IF id = RecPerPage THEN NextFromRestartAtZero(p + 1, 0) ELSE RID(p, id)

\* GetNextRID(rid): FindFirst from slot_id + 1 on the current page; when the
\* page has none left, page_id++ and slot_id = -1.
RECURSIVE NextFrom(_, _)
NextFrom(p, sid) ==
  IF p >= page_num THEN INVALID_RID
  ELSE LET id == FindFirst(bitmap[p], sid + 1, TRUE) IN
       IF id = RecPerPage THEN NextFrom(p + 1, -1) ELSE RID(p, id)
GetNextRID(rid) == NextFrom(rid[1], rid[2])

\* The sequence a caller iterating GetFirstRID / GetNextRID sees (cut off
\* after one more element than there are slots).
RECURSIVE ScanFrom(_, _)
ScanFrom(rid, fuel) ==
  IF rid = INVALID_RID \/ fuel = 0 THEN <<>>
  ELSE <<rid>> \o ScanFrom(GetNextRID(rid), fuel - 1)
Scan == ScanFrom(GetFirstRID, LastPage * RecPerPage + 1)

-----------------------------------------------------------------------------
Occupied == {r \in Pages \X Slots : r[2] \in bitmap[r[1]]}
RIDBefore(a, b) == a[1] < b[1] \/ (a[1] = b[1] /\ a[2] < b[2])

TypeOK ==
  /\ page_num \in 1 .. LastPage + 1
  /\ rec_num \in 0 .. LastPage * RecPerPage
  /\ first_free \in Pages \cup {INVALID_PAGE_ID}
  /\ bitmap \in [Pages -> SUBSET Slots]
  /\ slot_data \in [Pages -> [Slots -> Vals \cup {NoVal}]]
  /\ rec_count \in [Pages -> 0 .. RecPerPage]
  /\ next_free \in [Pages -> Pages \cup {INVALID_PAGE_ID}]
  /\ thr \in [Threads -> [pc : {"idle", "fetch", "publish", "write"},
                          pid : Pages \cup {INVALID_PAGE_ID},
                          slot : Slots \cup {-1, RecPerPage}, val : Vals \cup {NoVal}]]

\* Every insert or update the API acknowledged, and no delete removed, is
\* still returned by GetRecord at its RID.  Concurrent InsertRecord calls
\* read tab_hdr_.page_num_ and the page bitmap before either writes them.
RecordsDurable == \A x \in stored : GetRecord(x[1]) = x[2]

\* tab_hdr_.rec_num_ equals the number of occupied slots in the table.
HeaderCountsRecords == rec_num = Cardinality(Occupied)

\* Iterating GetFirstRID / GetNextRID visits every occupied slot exactly
\* once, in (page, slot) order, and ends with INVALID_RID.
ScanFindsAllRecords == Scan = SetToSortSeq(Occupied, RIDBefore)

\* The free-page chain from first_free_page_ is a finite list without
\* repeats whose pages are exactly the existing pages with an empty slot
\* (what InsertRecord unlinks on filling and DeleteRecord relinks), between
\* calls.
RECURSIVE Walk(_, _)
Walk(p, n) == IF p = INVALID_PAGE_ID \/ n = 0 THEN <<>> ELSE <<p>> \o Walk(next_free[p], n - 1)
FreeChain == Walk(first_free, LastPage + 1)
FreeChainThreaded ==
  (\A t \in Threads : thr[t].pc = "idle") =>
  /\ IsInjective(FreeChain)
  /\ ToSet(FreeChain) = {p \in Existing : Cardinality(bitmap[p]) < RecPerPage}
=============================================================================
