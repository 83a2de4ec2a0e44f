----------------------------- MODULE PageHandle -----------------------------
(***************************************************************************)
(* The slot codecs of src/system/handle/page_handle.cpp for one page: the  *)
(* row-major (NAry) and decomposed (PAX) layouts of slots_mem_, and PAX    *)
(* ReadChunk, driven by the slot writes and bitmap changes of TableHandle. *)
(*                                                                         *)
(* Memory is a function from cell (byte) address to byte.  A null map is   *)
(* one cell holding a bit mask (nullmap_size_ = 1, at most 8 fields); a    *)
(* field of size n is n cells.  The storage model is fixed per table and   *)
(* chosen in Init.                                                         *)
(***************************************************************************)
EXTENDS Integers, Sequences, SequencesExt, FiniteSets, TLC

CONSTANTS
  FieldSizes,   \* field_size_ of each schema field, in schema order
  RecPerPage,   \* tab_hdr_.rec_per_page_
  Bytes         \* byte values a record's data may hold

VARIABLES
  layout,       \* TableHandle::storage_model_
  mem,          \* slots_mem_
  bitmap,       \* occupied slots
  written       \* ghost: the record last written to each slot

vars == <<layout, mem, bitmap, written>>

Fields == 1 .. Len(FieldSizes)
Slots == 0 .. RecPerPage - 1
NullmapSize == 1
RecSize == FoldLeft(+, 0, FieldSizes)                       \* rec_size_
FullSize == NullmapSize + RecSize                           \* rec_full_size
Addrs == 0 .. RecPerPage * FullSize - 1
NullMasks == 0 .. 2 ^ Len(FieldSizes) - 1
Records == [nulls : NullMasks, data : [1 .. RecSize -> Bytes]]
NULL == "Null"

\* Bytes before field i within a record's data.
Prefix(i) == FoldLeft(+, 0, SubSeq(FieldSizes, 1, i - 1))
\* The field that the k-th data byte (1-based) belongs to.
FieldOf(k) == CHOOSE i \in Fields : Prefix(i) < k /\ k <= Prefix(i) + FieldSizes[i]
\* Bit j (0-based) of a null map.
IsNull(mask, j) == (mask \div 2 ^ j) % 2 = 1

\* TableHandle constructor, PAX: field i starts after the slots' null maps
\* and the columns of the fields before it.
FieldOffsets == [i \in Fields |-> NullmapSize * RecPerPage + Prefix(i) * RecPerPage]

-----------------------------------------------------------------------------
(* The codecs as functions from the old memory to the new one.             *)

\* Plausible fault: the data copied to slot_id * rec_full_size, over the
\* null map, instead of after it.
NAryWriteSlotOverNullmap(m, s, r) ==
  [a \in Addrs |->
     IF a >= s * FullSize /\ a < s * FullSize + RecSize THEN r.data[a - s * FullSize + 1]
     ELSE IF a = (s + 1) * FullSize - 1 THEN r.nulls
          ELSE m[a]]

\* NAryPageHandle::WriteSlot: null map then data at slot_id * rec_full_size.
NAryWriteSlot(m, s, r) ==
  [a \in Addrs |->
     IF a = s * FullSize THEN r.nulls
     ELSE IF a > s * FullSize /\ a < (s + 1) * FullSize
          THEN r.data[a - s * FullSize - NullmapSize + 1]
          ELSE m[a]]

\* NAryPageHandle::ReadSlot.
NAryReadSlot(m, s) ==
  [nulls |-> m[s * FullSize],
   data |-> [k \in 1 .. RecSize |-> m[s * FullSize + NullmapSize + k - 1]]]

\* Plausible fault: the field columns strided by the whole record size.
PAXCellStrideRecord(s, k) ==
  LET i == FieldOf(k) IN FieldOffsets[i] + s * RecSize + (k - 1 - Prefix(i))

\* PAXPageHandle: data byte k of the record in slot s lives at
\* offsets_[i] + slot_id * field_size + (its byte within field i).
PAXCell(s, k) ==
  LET i == FieldOf(k) IN FieldOffsets[i] + s * FieldSizes[i] + (k - 1 - Prefix(i))

\* PAXPageHandle::WriteSlot: null map at slot_id * nullmap_size_, then each
\* field into its column.
PAXWriteSlot(m, s, r) ==
  LET cells == [k \in 1 .. RecSize |-> PAXCell(s, k)]
  IN (s * NullmapSize :> r.nulls)
       @@ [a \in ToSet(cells) |-> r.data[CHOOSE k \in 1 .. RecSize : cells[k] = a]]
       @@ m

\* PAXPageHandle::ReadSlot.
PAXReadSlot(m, s) ==
  [nulls |-> m[s * NullmapSize], data |-> [k \in 1 .. RecSize |-> m[PAXCell(s, k)]]]

\* Plausible fault: the `if (!GetBit(bitmap_, slot_id)) continue;` dropped,
\* so every slot of the page is read.
ReadChunkAllSlots(m, bits, proj) ==
  [j \in DOMAIN proj |->
     LET size == FieldSizes[proj[j]]
         Cell(s) == IF IsNull(m[s * NullmapSize], j - 1) THEN NULL
                    ELSE [b \in 1 .. size |-> m[FieldOffsets[j] + s * size + b - 1]]
     IN [n \in 1 .. RecPerPage |-> Cell(n - 1)]]

\* PAXPageHandle::ReadChunk(chunk_schema), the chunk schema given as the
\* table fields it lists.  For chunk field j it takes the field's size from
\* chunk_schema but offsets_[j] and null bit j, and collects the occupied
\* slots in order: a null, or the field's bytes.
ReadChunk(m, bits, proj) ==
  [j \in DOMAIN proj |->
     LET size == FieldSizes[proj[j]]
         Cell(s) == IF IsNull(m[s * NullmapSize], j - 1) THEN NULL
                    ELSE [b \in 1 .. size |-> m[FieldOffsets[j] + s * size + b - 1]]
     IN [n \in 1 .. Cardinality(bits) |-> Cell(SetToSortSeq(bits, <)[n])]]

\* TableHandle::GetChunk: ReadChunk of the page's handle (the page fetched
\* and unpinned around it).
GetChunk(proj) == ReadChunk(mem, bitmap, proj)

\* TableHandle::WrapPageHandle: the handle of the table's storage model.
WriteSlot(m, s, r) == IF layout = "PAX" THEN PAXWriteSlot(m, s, r) ELSE NAryWriteSlot(m, s, r)
ReadSlot(m, s) == IF layout = "PAX" THEN PAXReadSlot(m, s) ELSE NAryReadSlot(m, s)

-----------------------------------------------------------------------------
Init ==
  /\ layout \in {"NAry", "PAX"}
  /\ mem = [a \in Addrs |-> 0]
  /\ bitmap = {}
  /\ written = [s \in Slots |-> CHOOSE r \in Records : TRUE]

\* InsertRecord: WriteSlot(slot, ..., update = false) on an empty slot (the
\* WSDB_ASSERT on the bit), then SetBit.
InsertSlot(s, r) ==
  /\ s \notin bitmap
  /\ mem' = WriteSlot(mem, s, r)
  /\ bitmap' = bitmap \cup {s}
  /\ written' = [written EXCEPT ![s] = r]
  /\ UNCHANGED layout

\* UpdateRecord: WriteSlot(slot, ..., update = true) on an occupied slot.
UpdateSlot(s, r) ==
  /\ s \in bitmap
  /\ mem' = WriteSlot(mem, s, r)
  /\ written' = [written EXCEPT ![s] = r]
  /\ UNCHANGED <<layout, bitmap>>

\* DeleteRecord: SetBit(slot, false); the slot's bytes stay.
DeleteSlot(s) ==
  /\ s \in bitmap
  /\ bitmap' = bitmap \ {s}
  /\ UNCHANGED <<layout, mem, written>>

Next ==
  \E s \in Slots :
    \/ DeleteSlot(s)
    \/ \E r \in Records : InsertSlot(s, r) \/ UpdateSlot(s, r)

Spec == Init /\ [][Next]_vars
-----------------------------------------------------------------------------
TypeOK ==
  /\ layout \in {"NAry", "PAX"}
  /\ mem \in [Addrs -> Bytes \cup NullMasks]
  /\ bitmap \subseteq Slots
  /\ written \in [Slots -> Records]

\* Round-trip codec: ReadSlot of an occupied slot returns the null map and
\* bytes last written to it by WriteSlot, in either layout, whatever was
\* written to the page's other slots since.
RoundTrip == \A s \in bitmap : ReadSlot(mem, s) = written[s]

\* What a chunk of the given table fields should hold: per field, over the
\* occupied slots in order, null or the field's bytes of the record there.
ExpectedChunk(proj) ==
  [j \in DOMAIN proj |->
     [n \in 1 .. Cardinality(bitmap) |->
        LET r == written[SetToSortSeq(bitmap, <)[n]]
            i == proj[j]
        IN IF IsNull(r.nulls, i - 1) THEN NULL
           ELSE SubSeq(r.data, Prefix(i) + 1, Prefix(i) + FieldSizes[i])]]

AllFields == [i \in Fields |-> i]

\* PAX ReadChunk with the table's own schema returns, per field, exactly
\* the values of the occupied slots.
ChunkOfFullSchema == layout = "PAX" => GetChunk(AllFields) = ExpectedChunk(AllFields)

\* PAX ReadChunk with a projection (any ordered selection of the table's
\* fields) returns the values of the fields the chunk schema names.
Projections == {p \in UNION {[1 .. n -> Fields] : n \in Fields} : IsInjective(p)}
ChunkOfProjection ==
  layout = "PAX" => \A p \in Projections : GetChunk(p) = ExpectedChunk(p)

=============================================================================
