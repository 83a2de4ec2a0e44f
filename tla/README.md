# TLA+ models of the WSDB storage layer and SQL parser

These modules model the storage layer of WSDB (`src/`): the buffer pool
manager, its two page-replacement policies, the table and page handles built
on them, the query executors that read a table, and the LALR(1) driver of
the generated SQL parser. Every action is translated from the C++ source. The
line ranges each definition stands for are listed in `PROJECT.json` under
`map`.

## 1. The system: components, state, interactions

| Component | Source | State it keeps | Operations that change state |
|---|---|---|---|
| BufferPoolManager | `src/storage/buffer/buffer_pool_manager.cpp` | `frames_` (page identity, pin count, dirty flag, data), `free_list_`, `page_frame_lookup_`, `replacer_` | FetchPage (hit / free frame / victim / failure), UnpinPage, DeletePage, DeleteAllPages, FlushPage, FlushAllPages; helpers GetAvailableFrame, UpdateFrame |
| LRUReplacer | `src/src/storage/buffer/replacer/lru_replacer.cpp` | `lru_list_` of `<frame, evictable>`, `lru_hash_`, `cur_size_` | Victim, Pin, Unpin |
| LRUKReplacer | `src/src/storage/buffer/replacer/lru_k_replacer.cpp`, `src/storage/buffer/replacer/lru_k_replacer.h` | `node_store_` (per frame: timestamp history, k, evictable), `cur_ts_`, `cur_size_` | Victim, Pin, Unpin (LRUKNode: AddHistory, ResetTimestampHistory, SetEvictable) |
| Frame, Page, DiskManager | not under `src/` | page bytes, header, disk file | Frame::Reset, ReadPage/WritePage |
| TableHandle | `src/src/system/handle/table_handle.cpp` | table header (`page_num_`, `first_free_page_`, `rec_num_`), per-page record count, bitmap and next-free link | InsertRecord (two forms), DeleteRecord, UpdateRecord, GetRecord, GetChunk, GetFirstRID/GetNextRID |
| PageHandle (NAry, PAX) | `src/system/handle/page_handle.cpp` | slot memory of one page | WriteSlot, ReadSlot, ReadChunk |
| Executors | `src/execution/*.cpp`, `src/src/execution/*.cpp` | `rid_`, `record_`, `count_` of each executor in a plan | Init/Next/IsEnd of seqscan, filter, limit, projection; Next of update |
| SQL parser | `src/src/parser/yacc.tab.cpp`, `yacc.tab.h` (bison 3.8.2 output) | in `yyparse`: the state stack `yyss`, lookahead `yychar`, `yyerrstatus`, `yynerrs`; the value and location stacks and the AST `wsdb_ast_` | `yyparse` (labels yysetstate, yybackup, yydefault, yyreduce, yyerrlab, yyerrlab1, return); `yylex` is not in the repository |

How the components interact:

- The TableHandle fetches a page, works on it through a PageHandle, and unpins it.
  - It unpins with `is_dirty` when it wrote to the page.
- The pool pins a frame in the replacer each time it hands the frame out.
  - This happens in `FetchPage` (hit) and in `UpdateFrame`.
- The pool unpins a frame in the replacer on every `UnpinPage` of a pinned page, and on every delete.
- When the free list is empty, the pool asks the replacer for a victim.
  - A dirty victim is written back before the frame is reused, in `GetAvailableFrame` and again in `UpdateFrame`.
- A dirty unpin writes the page through to disk at once (line 78).
- The parser shares no state with storage: it turns one line into an AST, which the rest of WSDB (not under `src/`) plans and runs through the executors.
- All pool and replacer operations take their latch for the whole call. Each call is therefore one atomic step of the model.

Hard behaviours:

- Several holders of one page, and the order in which their pins and unpins interleave with other clients' fetches.
- The replacer's hand-kept counter (`cur_size_`).
- Victims chosen by recency order, or by k-distance with ties.
- Frames that move between the free list, the lookup table and the replacer.
- Write-back on four different paths.
- An exception thrown after the replacer has already changed its state.

## 2. Modules and how they correspond to the code

- **`Replacer.tla`** is the abstract replacer. Its state is the set `evictable`.
  - `Victim` removes and returns some evictable frame, or fails exactly when the set is empty.
  - `Pin` removes a frame.
  - `Unpin` may add a frame.
  - The output variable `rep_ret` makes each call's result visible, so a wrong failure of `Victim` is a visible step and not a stutter.
- **`LRUReplacer.tla`** keeps the replacer as one record `[list, size]`, in the style of a component other modules call. It has three kinds of operators:
  - state transformers `LRUPinOp`, `LRUUnpinOp` and `LRUVictimOp`, one per method, translated line by line, including the guarded `--cur_size_` (`Decrement`);
  - actions `LRUPin`, `LRUUnpin`, `LRUVictimFound` and `LRUVictimNone` that apply them;
  - mutation operators for the mutant runs, defined before the real ones.
- **`LRUKReplacer.tla`** follows the same pattern. It adds:
  - `BackwardKDistance`, where Infinity is `MaxTs + 1`, standing for `ULL max`;
  - `AddHistory`;
  - the RECURSIVE scan `VictimScan`, which merges the code's two loops (best distance, then the tie-break on the oldest timestamp);
  - `WithDefaults`, for the nodes `node_store_[i]` creates with `k = 0`;
  - the throw of `FetchOldestTimestamp` on an empty history (`LRUKVictimThrows`).
  - `LRUKPin` is guarded by `ts < MaxTs`, because the clock is bounded.
- **`BufferPoolManager.tla`** composes the pool with either replacer. It instantiates both. Init picks the replacer from the set `REPLACERS`, as the constructor's argument does, and each call dispatches on the shape of the replacer's state (`UseLRU`), so one run covers both. Its variables:
  - `frame_page`, `pin_count`, `dirty`, `frame_data` (a version number standing for the page bytes), `free_list`, `page_table` (`page_frame_lookup_`, with `NoFrame` for "absent"), `replacer` and `rep_ret`;
  - `disk`, the version last written for each page.

  It also keeps three variables for the callers:
  - `holds[c][p]`, the frame client `c` received from `FetchPage` and has not unpinned;
  - `modified[c]`, the pages `c` wrote, which sets `is_dirty` at unpin;
  - a history variable `latest[p]`, the last version written to `p`.

  FetchPage becomes four actions, one per way the call ends:
  - `FetchPageHit`, a lookup hit;
  - `FetchPageFree`, a frame from the free list, then `UpdateFrame`;
  - `FetchPageVictim`, a frame from the replacer found in the lookup, then `UpdateFrame`;
  - `FetchPageNoFrame`, which throws `WSDB_NO_FREE_FRAME` but keeps the replacer's state change.

  The other operations:
  - `ModifyPage` is a holder writing a slot (`TableHandle::UpdateRecord`, `WriteSlot`).
  - `UnpinPage`, `DeletePage`, `DeleteAllPages`, `FlushPage` and `FlushAllPages` are one action each.
  - `DeleteAllPages` picks any iteration order over the file's pages, because `unordered_map` order is unspecified.
- **`TableHandle.tla`** models one table over a page store. It abstracts the pool away; the pool runs justify this, because a page is held exclusively for one call.
  - The table header is `page_num`, `first_free` and `rec_num`.
  - Each page has a record count `rec_count`, a `bitmap` (the set of occupied slots), `slot_data` and a `next_free` link.
  - `tab_hdr_` has no latch, so `InsertRecord(record)` is split at the points where another caller can interleave. `thr[t].pc` is the thread's control point:
    - `InsertReadPageNum` reads `page_num_`;
    - `InsertFetch` creates the page and links it;
    - `InsertPublish` sets `first_free_page_` and picks the first free slot;
    - `InsertWrite` (`WriteRecord`) writes, sets the bit and counts.
  - `InsertRecordAt`, `DeleteRecord` and `UpdateRecord` are one step each, taken by an idle thread. Their error paths (`WSDB_RECORD_EXISTS`, `WSDB_RECORD_MISS`) are stutters.
  - The page's record count is stored *before* `++`/`--`, as the code does (table_handle.cpp:103, 182). `RecordNumAfterDecrement` models an unsigned count as `% RecordNumModulus`.
  - `GetRecord`, `GetFirstRID`/`GetNextRID` (RECURSIVE `FirstFrom`, `NextFrom`) and a full `Scan` are operators.
  - The ghost `stored` holds every <<RID, value>> the API acknowledged. An insert never removes an acknowledgement, so a record lost by an overwrite stays visible.
- **`PageHandle.tla`** models one page's `slots_mem_` as byte cells.
  - The layout, NAry or PAX, is chosen in Init, as `storage_model_` is per table.
  - A null map is one cell holding a bit mask.
  - `NAryWriteSlot`/`NAryReadSlot`, `PAXCell`, `PAXWriteSlot`/`PAXReadSlot` and `ReadChunk` translate the codecs. `FieldOffsets` is the TableHandle constructor's PAX offsets.
  - The actions are the slot writes TableHandle makes: `InsertSlot`, `UpdateSlot` and `DeleteSlot` (the bit cleared, the bytes kept).
- **`Executors.tla`** extends `TableHandle` with one caller that runs one statement: the query `Projection(Limit(Filter(SeqScan)))`, or an `UpdateExecutor` over `Filter(SeqScan)` that sets the accepted records to `UpdVal`.
  - Each executor's `Init`, `Next` and `IsEnd` is an operator on its state record (`rid`, `rec`, `count`, `child`). The filter's loop is the RECURSIVE `FilterSeek`.
  - A record is <<RID, value>>. Projection keeps a record's identity, and the filter accepts the values in `FilterVals`.
  - The caller runs `Init; while (!IsEnd()) { GetRecord(); Next(); }` in three steps: `QueryStart`, `QueryEmit` and `QueryEnd`. No such caller is under `src/`; this loop is how the executors' own `IsEnd` (`record_ == nullptr`) is meant to be used.
  - `UpdateExecutor::Next` is one call, but its loop makes one table call per record and holds no latch. It is therefore split at the points where another caller can act:
    - `UpdateStart` is `child_->Init()`;
    - `UpdateWrite` is `UpdateRecord` plus `count++`. It calls the table's `UpdateRecordCall`, the same operator as a table thread's `UpdateRecord`. If the record has been deleted since the scan read it, the call throws `WSDB_RECORD_MISS` and the statement ends `"failed"`;
    - `UpdateAdvance` is the for loop's `child_->Next()`;
    - `UpdateEnd` returns the count.

    The update's indexes (`IndexHandle`, not under `src/`) are left out. The field-by-field rebuild of the record becomes one value.
  - `TableStep` is any TableHandle step between the caller's steps. The ghost `stable` keeps the records present since the statement started whose slot no *other* caller changed. The ghost `calls` counts the caller's calls in the current statement.
- **`LRUKReplacer.tla`** also has the node helpers `SetEvictable` and `ResetTimestampHistory`, used by `Pin` and `Victim`. **`PageHandle.tla`** has `GetChunk`, the table's pass-through to `ReadChunk`.
- **`SqlParserTables.tla`** holds the generated automaton: `yypact`, `yydefact`, `yypgoto`, `yydefgoto`, `yytable`, `yycheck`, `yystos`, `yyr1`, `yyr2` as functions from `0 .. N-1` (`CArray`), and `YYTRANSLATE` with the nine characters the grammar uses.
- **`SqlGrammar.tla`** is the grammar, rule by rule as the comments of `yyparse`'s action switch state it (the unit rules without actions are read off the tables). An `ASSUME` checks every rule's left-hand side and length against `yyr1`/`yyr2`. It gives the reference definitions of the language: RECURSIVE `Derives(X, w)` (a symbol derives a string of terminals) and `PrefixOf(X, w)` (w begins some string X derives). Left recursion is cut by a lower bound on the length each symbol string derives (`MinLen`).
- **`SqlParser.tla`** is `yyparse`, one action per label, each running to its next `goto`:
  - `SetState` pushes `yystate`; a full stack (`YYINITDEPTH` = 200, the stacks cannot be relocated because `YYSTYPE` holds `shared_ptr`s) returns 2, and `YYFINAL` accepts.
  - `BackupDefault` is a state with only a default action; `Backup` reads a token with `yylex` if none is pending (`LexNext`) and `BackupOn` takes the lexer's error token to `yyerrlab1`, or looks the token up in `yytable` (`Hit`) to shift, reduce, or fall to `yydefault`.
  - `Default` reduces by `yydefact` or goes to `yyerrlab`; `Reduce` accepts for the start rules, whose actions call `YYACCEPT` (`AcceptRules`), and otherwise pops `yyr2` states and takes the goto (`GotoState`).
  - `ErrLab` reports the error and `ErrLab1` pops to a state that shifts `error` (`ErrorShift`). No state of this grammar does, so every syntax error aborts with 1; the recovery branch is kept but never taken.
  - `lexed` is the tokens `yylex` returned and the ghost `shifted` the terminals shifted. The semantic values, locations and the AST are left out.
- **`MC*.tla`** are the model-checking modules.
  - `MCLRUReplacer` adds a ghost `unpin_order`. Its constant `RepinAllowed` says whether `Pin` may target a frame that is already pinned.
  - `MCLRUKReplacer` defines the LRU-K policy independently (`Dist`, `Beats`, `PolicyVictim`) as the reference the victim is checked against.
  - `MCBufferPoolManager` gives two client model values and a symmetry over them.
  - `MCTableHandle` has a symmetry over threads and values. `MCExecutors` has none over values, because the filter tells them apart.
  - `MCPageHandle` gives the schema's field sizes.
  - `MCReplacers` runs the two replacers side by side, the policy fixed in Init (`alg`), so one run checks both. An LRU-K behaviour maps to the abstract replacer's initial state; LRU-K's own promise is `VictimFollowsPolicy`.
  - `MCParser` gives the lexer's vocabulary.

## 3. Runs and what they show

| Run | Cfg | Expect | Shows |
|---|---|---|---|
| replacers | MCReplacers.cfg | pass | The LRU replacer refines `Replacer` (`ReplacerRefinement`) when `Pin` never repeats on a pinned frame. In LRU-K, `cur_size_` equals the number of evictable nodes (`SizeCountsEvictable`), and each victim is the policy's choice: largest backward k-distance, oldest first timestamp on ties (`VictimFollowsPolicy`). |
| lru_repin | MCLRUReplacerRepin.cfg | violation | A repeated `Pin` decrements `cur_size_`; `Victim` then fails while a frame is evictable (lru_replacer.cpp:75). |
| lru_order | MCLRUReplacerOrder.cfg | violation | The victim is the least recently *pinned* evictable frame, not the least recently unpinned one the spec describes (lru_replacer.cpp:96). |
| lruk_throw | MCLRUKReplacerThrow.cfg | violation | `Victim`, then `Unpin` of that frame, then `Victim` throws `History is empty` (lru_k_replacer.h:109). |
| pool | MCBufferPoolManager.cfg | pass | The pool invariants hold with either replacer. |
| pool_shared_pin | MCBufferPoolManagerSharedPin.cfg | violation | Two holders of one page: the first unpin makes the frame evictable, and it is evicted under the second holder (buffer_pool_manager.cpp:81). |
| table | MCExecutors.cfg | pass | With one table caller: every acknowledged record is readable (`RecordsDurable`), `rec_num_` counts the set bits (`HeaderCountsRecords`), and the scan returns the occupied RIDs in order (`ScanFindsAllRecords`). A query run step by step while the table changes returns at most `limit_` accepted records in strictly increasing RID order (`QueryOutputSound`). When its scan ran out, it returned every accepted record that stayed in the table (`QueryComplete`). An update that returned changed exactly the accepted records no other caller touched (`UpdateExact`). Every statement ends within `MaxCalls` caller calls (`StatementBounded`). |
| table_insert_race | MCTableHandleRace.cfg | violation | Two threads. t1's `InsertRecord(record)` picks slot (1,0) (table_handle.cpp:94) but sets its bit only after the write (line 100). In between, t2's `InsertRecord(rid=(1,0))` passes its `WSDB_RECORD_EXISTS` check (line 133), writes and is acknowledged; t1's write then overwrites that record. Only t1 reads `page_num_` in this trace. Two `InsertRecord(record)` calls that both read `page_num_` (line 237) lose a record the same way, in a longer trace. |
| table_free_chain | MCTableHandleFreeChain.cfg | violation | The free chain is not exactly the pages with a free slot (`FreeChainThreaded`), and there are two ways to break it. The shortest trace: `InsertRecord(rid)` fills a page without unlinking it, so a full page stays on the chain (table_handle.cpp:147). With two threads, two inserts that read the same `page_num_` (table_handle.cpp:237-242) link that page to itself, which breaks the same property; that interleaving is reachable in this model but longer than the trace TLC reports. |
| page_codec | MCPageHandle.cfg | pass | NAry and PAX `ReadSlot` return what `WriteSlot` wrote (`RoundTrip`). PAX `ReadChunk` with the table's schema returns the occupied slots' fields (`ChunkOfFullSchema`). |
| parser | MCParser.cfg | pass | Every line of up to 7 tokens over a 16-token vocabulary, the lexer's error token and an unknown character included. The symbols of the stacked states derive exactly the terminals shifted (`StackSpellsShifted`). `yyparse` returns 0 only for a statement of the grammar, and 1 only at the first token that leaves the grammar: the tokens read are no prefix of any statement, but those before the last one are (`ParseCorrect`), so an error is reported neither early nor late. It always returns (`ParseTerminates`). |
| page_chunk_projection | MCPageHandleProjection.cfg | violation | `ReadChunk` with a projected schema reads chunk field j at `offsets_[j]` with null bit j, not at the table field's offset (page_handle.cpp:152). |

The pool invariants:

- `PoolAccounting`: no frame is lost or shared between the free list and the lookup.
- `PinnedFrameKeepsPage`: a holder's frame keeps its page.
- `DiskCoherent`: the disk, or the frame, has the last write of every page, and an unpinned frame equals the disk.
- `NoSpuriousExhaustion`: a fetch fails only when every frame is pinned.

Each property of a passing run has a mutant in `PROJECT.json`. The mutant is a plausible bug in the mapped code, and TLC finds the property violated under that mutant.

Why LRU-K passes in the pool while `lruk_throw` fails on its own: the pool always calls `Pin` on the victim frame right after `Victim`, in `UpdateFrame`, and that gives the node a timestamp again. The throw needs the `Victim`-then-`Unpin` sequence, which the pool never issues.

## 4. Bounds, and why they are enough

- **Replacer models.**
  - LRU uses 3 frames.
  - LRU-K uses 3 frames, K = 2 and a clock of at most 5 ticks. This is enough for one frame to have 2 timestamps while another has fewer (an infinite distance), for ties between infinite distances, and for a victim to be re-used.
  - Every counterexample above needs at most 5 steps.
- **Pool models.**
  - 2 frames and 4 pages (2 files × 2 page ids). Every fetch of a third distinct page must evict, and `DeleteAllPages` has pages of two files to tell apart.
  - 2 clients.
  - Each page's version goes from 0 to 1 (`MaxVersion` = 1), so a lost write-back is visible.
  - `MaxPin` = 1 in the passing runs. `TableHandle` holds a page only for the length of one call, so the passing runs model callers that use pages exclusively. `MaxPin` = 2 in `pool_shared_pin` shows what happens when two holders of one page overlap.
  - For LRU-K the clock bound is a state constraint (`ClockBound`), not a guard, so a deadlock is not reported at the bound.

- **Table models.**
  - `LastPage` bounds the page ids created. It is a guard on the two insert steps that read and advance `page_num_`, not a state constraint. With a constraint, the state that creates the last page would be checked but never explored further. An idle thread can still delete, update or insert at a RID, so the bound causes no deadlock.
  - `table` has 2 pages of 2 slots: 70,157 states in about 10 s. With 3 pages the run has 5 million states and takes 18 minutes. Two pages are enough for a scan to cross a page boundary, for a full page next to one with room, for a page freed again, and for a two-link free chain.
  - The violation runs use 3 pages, because they stop at the first counterexample.
  - 2 record values. A lost write shows up as the other value, or as a missing record.
  - 1 table thread in `table`, plus the statement's caller. `table_insert_race` and `table_free_chain` have 2 threads, the smallest race between two inserts.
  - `RecordNumSigned` = FALSE: the page's record count is taken as unsigned (`RecordNumModulus` = 65536). The header declaring its type is not under `src/`. If the count were signed, `RecordNumAfterDecrement(0)` would be -1 and a delete from a page counted 0 would re-link it onto the chain, a self-loop on the free chain. No run checks the signed case.
- **Query.** `Limit` = 2 and `FilterVals` = {v1} out of {v1, v2}. `UpdVal` = v2. A table can hold up to 4 records, so the limit can cut a query, a scan can run out below the limit, and the filter can reject records between accepted ones.
- **Parser.** Lines of at most `MaxTokens` = 7 tokens over SELECT, FROM, WHERE, SHOW, TABLES, HELP, an identifier, an integer, `* = , ; ( )`, the lexer's `YYerror` and an unknown character `$`: 7,490 states in about 30 s (9 tokens take 10 minutes). Seven tokens reach every action and every branch of `yybackup`, accepts of `SHOW TABLES ;`, `HELP` and `SELECT * FROM t , u ;`, reductions through `selector`, `tableList` and `stmt`, errors at every position, and the abort at end of line. The stack bound is the real `YYINITDEPTH` = 200; no line of 7 tokens comes near it.
- **Page models.** Two fields of 1 and 2 bytes, 2 slots, and bytes in {0, 1}. Fields of different sizes are needed: with equal sizes the stride errors that `PAXCell` and `ReadChunk` could make cannot be told apart.

## 5. Fairness and liveness

No modelled operation blocks or waits on another caller. The pool and replacer calls each run under one latch. The table and executor calls run without one, and no step of theirs waits.

The one eventuality the code must guarantee is that a statement ends even while other callers change the table under its scan. Two things bear on it:

- The fairness this needs is weak fairness of the statement's own caller, whose steps are always enabled while it runs.
- Stated as `qpc = "running" ~> qpc \in {"done", "failed"}` under that fairness, TLC's liveness check on the `table` run runs at about 2,000 states a minute. It would need more than 30 minutes, against 10 s for the safety run. With one page it passes in 2 s.

The `table` run therefore checks the same fact as a safety bound: `StatementBounded`, at most `MaxCalls` = 2 × (number of RIDs) + 2 calls per statement. In a finite model, a statement that keeps calling would exceed the bound, and one that is stuck cannot be, because exactly one of its steps is enabled in every state. The bound holds only because pages are bounded. Each `InsertRecord` creates a new page, so an unbounded inserter can keep a scan going; this is listed as a hazard.

The parser is a single-threaded loop: `yylex` reads from a line already in memory and no step waits. So every enabled step is eventually taken, which is weak fairness of `Next` (`Spec` in `SqlParser`), and `ParseTerminates` (`<>(label = "return")`) is checked under it. The mutant that sends a state with no default rule back to `yybackup` loops forever and is caught.

Deadlock is checked in every run except `parser`, where `yyparse` really returns and stops. The other models never stop:
- in the pool, an unpin or a flush is always enabled;
- in the table, an idle thread can always delete, update or insert at some RID;
- the caller runs one statement, and table steps go on after it.

## 6. Not modelled, and the plan

- **Modelled:**
  - the replacers, the abstract replacer and the LRU refinement;
  - the pool with either replacer;
  - the table handle, with its unlatched insert race;
  - the page codecs;
  - the scan, filter, limit, projection and update executors, composed with the table;
  - the parser's LR driver over its tables, checked against its grammar.
- **Observed but not checked by a run.** `LimitExecutor::IsEnd` is `count_ >= limit_` while `record_` still holds the record just counted (executor_limit.cpp:59). A caller that loops while `!IsEnd()` therefore gets `limit_ - 1` records, and none for `limit_` = 1. Dropping the `count_ < limit_` guard from `QueryComplete` makes TLC show this in 9 steps. It is not a run because all 12 run slots are in use, and no caller under `src/` fixes the loop contract. `QueryComplete` therefore covers only queries the limit did not cut.
- **Also observed, also without a run** (all 12 run slots are in use):
  - An update that throws `WSDB_RECORD_MISS` part-way leaves the records before it updated. `UpdateWrite`'s `"failed"` branch reaches this in the `table` run.
  - The update overwrites a change another caller made between the scan's read and the write. It also updates a record that no longer passes its filter. `UpdateExact` covers only the records no one else touched.
  - `InsertRecord` always calls `CreateNewPageHandle`, although its comment (table_handle.cpp:89) and the spec say it takes the head of the free-page list. `CreatePageHandle` (table_handle.cpp:226), which does that, is never called, so it is not modelled.
- **Next:** the table on top of `BufferPoolManager` with shared pins.
- **Not modelled:**
  - Disk I/O and logging. `DiskManager` and `LogManager` are not under `src/`, and pages are version numbers.
  - In the parser: the semantic actions that build the AST (only their `YYACCEPT` is modelled), the value and location stacks, the text of `yysyntax_error`'s message and the `malloc` failure of its buffer (result 2), and the lexer, which is not in the repository. The overflow to "memory exhausted" needs more than 100 tokens and is out of reach of the parser run.
  - Byte layouts, except in `PageHandle`, where the properties are about them.
  - Accessors with no state change (`GetTableId`, `GetSchema`, `Size`, ...) and the constructors' field set-up.
