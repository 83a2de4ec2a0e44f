------------------------- MODULE BufferPoolManager -------------------------
(***************************************************************************)
(* BufferPoolManager (buffer_pool_manager.cpp) with the replacer chosen by *)
(* the constructor (one of REPLACERS), and the callers of the pool.        *)
(*                                                                         *)
(* frames_[f]           frame_page[f], pin_count[f], dirty[f], frame_data[f]*)
(* free_list_           free_list (a std::list: pop_front, push_back)      *)
(* page_frame_lookup_   page_table[p] (NoFrame when absent)                 *)
(* replacer_            replacer, the state of LRUReplacer or LRUKReplacer *)
(* the disk file        disk[p], the content last written for page p       *)
(*                                                                         *)
(* Page content is a version number.  A caller holding a page pointer      *)
(* (holds[c][p] is the frame FetchPage returned) may modify the page, and  *)
(* then unpins it dirty, as every TableHandle operation does.  latest[p]   *)
(* is a history variable: the content a caller last wrote to page p.       *)
(* Every public method holds latch_ for its whole body and is one step.    *)
(***************************************************************************)
EXTENDS Naturals, Sequences, SequencesExt, FiniteSets, TLC

CONSTANTS
  PoolSize,    \* BUFFER_POOL_SIZE
  K, MaxTs,    \* the LRU-K replacer's k and its clock bound (ClockBound)
  REPLACERS,   \* replacers the constructor may build (replacer_lru_k)
  Files,       \* file ids
  PageIds,     \* page ids within a file
  Clients,     \* callers of the pool
  MaxPin,      \* bound: how many callers may hold one page at once
  MaxVersion,  \* bound on page content versions
  NoFrame, NoPage

ASSUME REPLACERS \subseteq {"LRUReplacer", "LRUKReplacer"}
ASSUME MaxPin \in Nat \ {0} /\ MaxVersion \in Nat

VARIABLES
  frame_page, pin_count, dirty, frame_data,
  free_list, page_table, replacer, rep_ret,
  disk, holds, modified, latest

vars == <<frame_page, pin_count, dirty, frame_data, free_list, page_table,
          replacer, rep_ret, disk, holds, modified, latest>>

Frames == 0 .. PoolSize - 1
Pages == Files \X PageIds

LRU == INSTANCE LRUReplacer WITH lru <- replacer
LRUK == INSTANCE LRUKReplacer WITH lruk <- replacer

Ret(op, f) == [op |-> op, frame |-> f]

(***************************************************************************)
(* replacer_-> calls, dispatched on the replacer built by the constructor *)
(* (an LRU replacer's state is the one with a list).                       *)
(***************************************************************************)
UseLRU(s) == "list" \in DOMAIN s
RInit(kind) == IF kind = "LRUReplacer" THEN LRU!LRUInitState ELSE LRUK!LRUKInitState
RPin(s, f) == IF UseLRU(s) THEN LRU!LRUPinOp(s, f) ELSE LRUK!LRUKPinOp(s, f)
RUnpin(s, f) == IF UseLRU(s) THEN LRU!LRUUnpinOp(s, f) ELSE LRUK!LRUKUnpinOp(s, f)
RVictim(s) == IF UseLRU(s) THEN LRU!LRUVictimOp(s) ELSE LRUK!LRUKVictimOp(s)
REvictable(s) == IF UseLRU(s) THEN LRU!LRUEvictable(s) ELSE LRUK!LRUKEvictable(s)

\* a page_frame_lookup_ entry maps some page to frame f
InLookup(f) == \E q \in Pages : page_table[q] = f

Init ==
  /\ frame_page = [f \in Frames |-> NoPage]
  /\ pin_count = [f \in Frames |-> 0]
  /\ dirty = [f \in Frames |-> FALSE]
  /\ frame_data = [f \in Frames |-> 0]
  /\ free_list = [i \in 1 .. PoolSize |-> i - 1]
  /\ page_table = [p \in Pages |-> NoFrame]
  /\ replacer \in {RInit(kind) : kind \in REPLACERS}
  /\ rep_ret = Ret("None", NoFrame)
  /\ disk = [p \in Pages |-> 0]
  /\ holds = [c \in Clients |-> [p \in Pages |-> NoFrame]]
  /\ modified = [c \in Clients |-> {}]
  /\ latest = [p \in Pages |-> 0]

(***************************************************************************)
(* UpdateFrame(f, p) with the replacer state rs it starts from: write the  *)
(* frame's old page back if dirty, drop its lookup entry, Reset, read page *)
(* p from disk, Pin, replacer_->Pin, add the lookup entry.  On the victim  *)
(* path GetAvailableFrame has already written the old page back and erased *)
(* its entry; UpdateFrame repeats both with the same effect.               *)
(***************************************************************************)
UpdateFrame(f, p, rs) ==
  LET prev == frame_page[f] IN
  /\ disk' = IF dirty[f] THEN [disk EXCEPT ![prev] = frame_data[f]] ELSE disk
  /\ page_table' = [q \in Pages |-> IF q = p THEN f
                                     ELSE IF q = prev THEN NoFrame ELSE page_table[q]]
  /\ frame_page' = [frame_page EXCEPT ![f] = p]
  /\ pin_count' = [pin_count EXCEPT ![f] = 1]
  /\ dirty' = [dirty EXCEPT ![f] = FALSE]
  /\ frame_data' = [frame_data EXCEPT ![f] = disk[p]]
  /\ replacer' = RPin(rs, f)
  /\ rep_ret' = Ret("Pin", f)

\* FetchPage is called by a caller for a page it does not already hold.
CanFetch(c, p) == holds[c][p] = NoFrame

\* FetchPage, lookup hit: Pin the frame and replacer_->Pin.
FetchPageHit(c, p) ==
  LET f == page_table[p] IN
  /\ CanFetch(c, p)
  /\ f # NoFrame
  /\ pin_count[f] < MaxPin
  /\ pin_count' = [pin_count EXCEPT ![f] = @ + 1]
  /\ replacer' = RPin(replacer, f)
  /\ rep_ret' = Ret("Pin", f)
  /\ holds' = [holds EXCEPT ![c][p] = f]
  /\ UNCHANGED <<frame_page, dirty, frame_data, free_list, page_table, disk, modified, latest>>

\* FetchPage, miss, GetAvailableFrame takes the front of free_list_.
FetchPageFree(c, p) ==
  LET f == Head(free_list) IN
  /\ CanFetch(c, p)
  /\ page_table[p] = NoFrame
  /\ free_list # <<>>
  /\ free_list' = Tail(free_list)
  /\ UpdateFrame(f, p, replacer)
  /\ holds' = [holds EXCEPT ![c][p] = f]
  /\ UNCHANGED <<modified, latest>>

\* FetchPage, miss, free_list_ empty: replacer_->Victim picks a frame that
\* has a lookup entry, which is written back if dirty and reused.
FetchPageVictim(c, p) ==
  LET r == RVictim(replacer) IN
  /\ CanFetch(c, p)
  /\ page_table[p] = NoFrame
  /\ free_list = <<>>
  /\ r.frame # NoFrame
  /\ InLookup(r.frame)
  /\ UpdateFrame(r.frame, p, r.state)
  /\ holds' = [holds EXCEPT ![c][p] = r.frame]
  /\ UNCHANGED <<free_list, modified, latest>>

\* FetchPage, miss, free_list_ empty and Victim returns false (or throws, or
\* names a frame without a lookup entry): WSDB_NO_FREE_FRAME is thrown; only
\* the replacer's own state has changed.
FetchPageNoFrame(c, p) ==
  LET r == RVictim(replacer) IN
  /\ CanFetch(c, p)
  /\ page_table[p] = NoFrame
  /\ free_list = <<>>
  /\ r.frame = NoFrame \/ ~InLookup(r.frame)
  /\ replacer' = r.state
  /\ rep_ret' = Ret(IF ~UseLRU(replacer) /\ r.threw THEN "VictimThrew" ELSE "Victim", NoFrame)
  /\ UNCHANGED <<frame_page, pin_count, dirty, frame_data, free_list, page_table,
                 disk, holds, modified, latest>>

\* A caller modifies the bytes of a page it holds, through its pointer.
ModifyPage(c, p) ==
  LET f == holds[c][p] IN
  /\ f # NoFrame
  /\ frame_data[f] < MaxVersion
  /\ frame_data' = [frame_data EXCEPT ![f] = @ + 1]
  /\ latest' = [latest EXCEPT ![p] = frame_data[f] + 1]
  /\ modified' = [modified EXCEPT ![c] = @ \cup {p}]
  /\ UNCHANGED <<frame_page, pin_count, dirty, free_list, page_table, replacer,
                 rep_ret, disk, holds>>

\* Plausible fault: a dirty unpin only sets the dirty flag, leaving the
\* write to eviction or a flush (no write-through).
UnpinPageNoWriteThrough(c, p) ==
  LET f == page_table[p]
      is_dirty == p \in modified[c]
  IN /\ holds[c][p] # NoFrame
     /\ IF f # NoFrame /\ pin_count[f] > 0
          THEN /\ pin_count' = [pin_count EXCEPT ![f] = @ - 1]
               /\ dirty' = IF is_dirty THEN [dirty EXCEPT ![f] = TRUE] ELSE dirty
               /\ replacer' = RUnpin(replacer, f)
               /\ rep_ret' = Ret("Unpin", f)
          ELSE UNCHANGED <<pin_count, dirty, replacer, rep_ret>>
     /\ holds' = [holds EXCEPT ![c][p] = NoFrame]
     /\ modified' = [modified EXCEPT ![c] = @ \ {p}]
     /\ UNCHANGED <<frame_page, frame_data, free_list, page_table, latest, disk>>

\* UnpinPage(fid, pid, is_dirty) by a holder, dirty iff it modified the page.
\* If the page's frame exists with a positive pin count: Unpin, on dirty
\* SetDirty and write through to disk, and replacer_->Unpin whatever the
\* pin count has become.  Otherwise it returns false and changes nothing.
UnpinPage(c, p) ==
  LET f == page_table[p]
      is_dirty == p \in modified[c]
  IN /\ holds[c][p] # NoFrame
     /\ IF f # NoFrame /\ pin_count[f] > 0
          THEN /\ pin_count' = [pin_count EXCEPT ![f] = @ - 1]
               /\ dirty' = IF is_dirty THEN [dirty EXCEPT ![f] = TRUE] ELSE dirty
               /\ disk' = IF is_dirty THEN [disk EXCEPT ![p] = frame_data[f]] ELSE disk
               /\ replacer' = RUnpin(replacer, f)
               /\ rep_ret' = Ret("Unpin", f)
          ELSE UNCHANGED <<pin_count, dirty, disk, replacer, rep_ret>>
     /\ holds' = [holds EXCEPT ![c][p] = NoFrame]
     /\ modified' = [modified EXCEPT ![c] = @ \ {p}]
     /\ UNCHANGED <<frame_page, frame_data, free_list, page_table, latest>>
\* Frame::Reset of frames fs: no page, unpinned, clean.
ResetFrames(fs) ==
  /\ frame_page' = [f \in Frames |-> IF f \in fs THEN NoPage ELSE frame_page[f]]
  /\ pin_count' = [f \in Frames |-> IF f \in fs THEN 0 ELSE pin_count[f]]
  /\ dirty' = [f \in Frames |-> IF f \in fs THEN FALSE ELSE dirty[f]]

\* write the resident pages ps back if their frame is dirty
WriteBackDirty(ps) ==
  disk' = [q \in Pages |-> IF q \in ps /\ dirty[page_table[q]]
                             THEN frame_data[page_table[q]] ELSE disk[q]]

\* Plausible fault: DeletePage without free_list_.push_back.
DeletePageNoFree(p) ==
  LET f == page_table[p] IN
  /\ f # NoFrame
  /\ pin_count[f] = 0
  /\ WriteBackDirty({p})
  /\ ResetFrames({f})
  /\ replacer' = RUnpin(replacer, f)
  /\ rep_ret' = Ret("Unpin", f)
  /\ page_table' = [page_table EXCEPT ![p] = NoFrame]
  /\ UNCHANGED <<frame_data, holds, modified, latest, free_list>>

\* DeletePage of a resident, unpinned page: write back if dirty, Reset,
\* push_back on free_list_, replacer_->Unpin, erase the lookup entry.
\* (Not resident or pinned: returns false, nothing changes.)
DeletePage(p) ==
  LET f == page_table[p] IN
  /\ f # NoFrame
  /\ pin_count[f] = 0
  /\ WriteBackDirty({p})
  /\ ResetFrames({f})
  /\ free_list' = Append(free_list, f)
  /\ replacer' = RUnpin(replacer, f)
  /\ rep_ret' = Ret("Unpin", f)
  /\ page_table' = [page_table EXCEPT ![p] = NoFrame]
  /\ UNCHANGED <<frame_data, holds, modified, latest>>

\* DeleteAllPages(fid): every resident, unpinned page of the file is deleted
\* as by DeletePage, in the unordered_map's iteration order, which is
\* unspecified; pinned pages are skipped (the call then returns false).
DeleteAllPages(fid) ==
  LET ps == {q \in Pages : q[1] = fid /\ page_table[q] # NoFrame
                           /\ pin_count[page_table[q]] = 0}
  IN /\ ps # {}
     /\ \E order \in SetToSeqs(ps) :
          LET fs == [i \in DOMAIN order |-> page_table[order[i]]] IN
          /\ free_list' = free_list \o fs
          /\ replacer' = FoldLeft(RUnpin, replacer, fs)
          /\ rep_ret' = Ret("Unpin", fs[Len(fs)])
     /\ WriteBackDirty(ps)
     /\ ResetFrames({page_table[q] : q \in ps})
     /\ page_table' = [q \in Pages |-> IF q \in ps THEN NoFrame ELSE page_table[q]]
     /\ UNCHANGED <<frame_data, holds, modified, latest>>

\* FlushPage of a resident dirty page: write it and clear dirty.  (Clean or
\* not resident: nothing changes.)  FlushAllPages(fid) does so for every
\* resident dirty page of the file.
FlushPages(ps) ==
  /\ ps # {}
  /\ \A q \in ps : page_table[q] # NoFrame /\ dirty[page_table[q]]
  /\ WriteBackDirty(ps)
  /\ dirty' = [f \in Frames |-> IF \E q \in ps : page_table[q] = f THEN FALSE ELSE dirty[f]]
  /\ UNCHANGED <<frame_page, pin_count, frame_data, free_list, page_table, replacer,
                 rep_ret, holds, modified, latest>>

FlushPage(p) == FlushPages({p})

FlushAllPages(fid) ==
  FlushPages({q \in Pages : q[1] = fid /\ page_table[q] # NoFrame /\ dirty[page_table[q]]})

Next ==
  \/ \E c \in Clients, p \in Pages :
       \/ FetchPageHit(c, p)
       \/ FetchPageFree(c, p)
       \/ FetchPageVictim(c, p)
       \/ FetchPageNoFrame(c, p)
       \/ ModifyPage(c, p)
       \/ UnpinPage(c, p)
  \/ \E p \in Pages : DeletePage(p) \/ FlushPage(p)
  \/ \E fid \in Files : DeleteAllPages(fid) \/ FlushAllPages(fid)

Spec == Init /\ [][Next]_vars

\* State constraint: the LRU-K clock advances on every fetch; states where
\* it has reached MaxTs are not explored further.
ClockBound == IF UseLRU(replacer) THEN TRUE ELSE replacer.ts < MaxTs

-----------------------------------------------------------------------------
TypeOK ==
  /\ frame_page \in [Frames -> Pages \cup {NoPage}]
  /\ pin_count \in [Frames -> 0 .. MaxPin]
  /\ dirty \in [Frames -> BOOLEAN]
  /\ frame_data \in [Frames -> 0 .. MaxVersion]
  /\ free_list \in Seq(Frames)
  /\ page_table \in [Pages -> Frames \cup {NoFrame}]
  /\ IF UseLRU(replacer) THEN LRU!LRUStateOK(replacer) ELSE LRUK!LRUKStateOK(replacer)
  /\ rep_ret \in [op : {"None", "Pin", "Unpin", "Victim", "VictimThrew"},
                  frame : Frames \cup {NoFrame}]
  /\ disk \in [Pages -> 0 .. MaxVersion]
  /\ holds \in [Clients -> [Pages -> Frames \cup {NoFrame}]]
  /\ modified \in [Clients -> SUBSET Pages]
  /\ latest \in [Pages -> 0 .. MaxVersion]

\* No frame is lost or shared: every frame is either on free_list_ (once,
\* unpinned, clean, no identity) or the target of exactly one lookup entry
\* whose page is the frame's identity.  DeletePage, DeleteAllPages, the
\* victim path and UpdateFrame each move frames between the two.
PoolAccounting ==
  /\ IsInjective(free_list)
  /\ \A f \in Frames :
       IF f \in Range(free_list)
         THEN /\ ~InLookup(f)
              /\ frame_page[f] = NoPage /\ pin_count[f] = 0 /\ ~dirty[f]
         ELSE /\ frame_page[f] \in Pages
              /\ {q \in Pages : page_table[q] = f} = {frame_page[f]}

\* A caller's page pointer stays valid while it holds the pin: the frame
\* FetchPage returned still holds that page until the caller unpins it.
\* Broken if the replacer can name a pinned frame as victim: UnpinPage
\* calls replacer_->Unpin even when the pin count stays above zero.
PinnedFrameKeepsPage ==
  \A c \in Clients, p \in Pages :
    holds[c][p] # NoFrame => frame_page[holds[c][p]] = p

\* Cache coherence: a page not in the pool has its last written content on
\* disk; a resident page has it in its frame, and once no caller pins it the
\* disk image equals the frame (UnpinPage writes dirty pages through, and
\* eviction, DeletePage and the flushes write back dirty frames).
DiskCoherent ==
  \A p \in Pages :
    LET f == page_table[p] IN
    IF f = NoFrame THEN disk[p] = latest[p]
    ELSE /\ frame_data[f] = latest[p]
         /\ pin_count[f] = 0 => disk[p] = frame_data[f]

\* FetchPage fails with WSDB_NO_FREE_FRAME only when every frame is pinned:
\* the replacer's evictable set and its hand-kept count must track the
\* pool's unpinned frames through every Pin, Unpin and Victim.
FetchFailed == rep_ret = Ret("Victim", NoFrame) \/ rep_ret.op = "VictimThrew"
NoSpuriousExhaustion == FetchFailed => \A f \in Frames : pin_count[f] > 0
=============================================================================
