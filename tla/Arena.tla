-------------------------------- MODULE Arena --------------------------------
(***************************************************************************)
(* The native heap of a guest (libriscv's native_heap.hpp): chunks that    *)
(* cover the arena, linked in the order of their addresses, free ones also *)
(* in bins of two levels of size classes, used ones also in a table from   *)
(* pointer to chunk.  The descriptions of chunks live in a slab, which     *)
(* grows up to a cap the host may change.                                  *)
(*                                                                         *)
(* Sizes and addresses are in units of ALIGNMENT.  A bin, and the list of  *)
(* free slab entries, is a sequence.                                       *)
(***************************************************************************)
EXTENDS UsedTable, TLC

CONSTANTS
    m_base, m_total,
    SL_BITS,          \* the logarithm of the number of classes of a level
    RISCV_PAGE_SIZE,
    SEQ_PROBE_LIMIT,
    InitialCap,       \* m_max_chunks of a new arena
    Caps,             \* what the host may set m_max_chunks to
    Sizes             \* what the guest may ask for

ASSUME ArenaAssumption ==
    /\ {m_base, m_total, RISCV_PAGE_SIZE, SEQ_PROBE_LIMIT, InitialCap} \subseteq Nat \ {0}
    /\ SL_BITS \in Nat /\ Caps \subseteq Nat /\ Sizes \subseteq Nat

VARIABLES
    arena,  \* the members of Arena that operations change; see New
    call,   \* history: the last operation, the pointer given and the one returned
    lost    \* history: a chunk was taken out of its bin and not put in the table

vars == <<arena, call, lost>>

Nowhere == <<-1, -1>>

-----------------------------------------------------------------------------
(* Size classes. *)

SL_COUNT == 2 ^ SL_BITS

floor_log2(n) == CHOOSE k \in 0 .. n : 2 ^ k <= n /\ n < 2 ^ (k + 1)

\* The class of a chunk.
mapping_insert(size) ==
    IF size < SL_COUNT THEN <<0, size>>
    ELSE LET fl == floor_log2(size)
         IN  <<fl, (size \div 2 ^ (fl - SL_BITS)) % SL_COUNT>>

\* The least class all of whose chunks have the size.
mapping_search(size) ==
    IF size < SL_COUNT THEN <<0, size>>
    ELSE mapping_insert(size + 2 ^ (floor_log2(size) - SL_BITS) - 1)

Classes == {mapping_insert(n) : n \in 0 .. m_total}

\* The first bin that is not empty, from a class on, by the two bitmaps.
BinFrom(a, fl, sl) ==
    LET second == {s \in 0 .. SL_COUNT - 1 : s >= sl /\ <<fl, s>> \in a.sl_bitmap}
        first == {f \in a.fl_bitmap : f > fl}
        Lowest(f) == Min({s \in 0 .. SL_COUNT - 1 : <<f, s>> \in a.sl_bitmap})
    IN  IF second # {} THEN <<fl, Min(second)>>
        ELSE IF first # {} THEN <<Min(first), Lowest(Min(first))>>
        ELSE Nowhere

first_suitable_bin(a, size) == BinFrom(a, mapping_search(size)[1], mapping_search(size)[2])

next_suitable_bin(a, class) == BinFrom(a, class[1], class[2] + 1)

bin_insert(a, idx) ==
    LET class == mapping_insert(a.slab[idx].size)
    IN  [a EXCEPT !.bins[class] = <<idx>> \o @,
                  !.sl_bitmap = @ \cup {class},
                  !.fl_bitmap = @ \cup {class[1]},
                  !.m_bytes_free = @ + a.slab[idx].size]

bin_remove(a, idx) ==
    LET class == mapping_insert(a.slab[idx].size)
        bin == SelectSeq(a.bins[class], LAMBDA i : i # idx)
        left == IF bin = <<>> THEN a.sl_bitmap \ {class} ELSE a.sl_bitmap
    IN  [a EXCEPT !.bins[class] = bin,
                  !.sl_bitmap = left,
                  !.fl_bitmap = IF \E c \in left : c[1] = class[1] THEN @ ELSE @ \ {class[1]},
                  !.m_bytes_free = @ - a.slab[idx].size]

\* The class of the size itself is searched chunk by chunk.
bin_search(a, size) ==
    LET fitting == IF mapping_insert(size) \notin Classes THEN <<>>
                   ELSE SelectSeq(a.bins[mapping_insert(size)], LAMBDA i : a.slab[i].size >= size)
        class == first_suitable_bin(a, size)
    IN  IF fitting # <<>> THEN Head(fitting)
        ELSE IF class = Nowhere THEN NO_CHUNK
        ELSE Head(a.bins[class])
-----------------------------------------------------------------------------
(* The slab and the list of addresses. *)

pointer_key(ptr) == ptr - m_base

Find(a, ptr) == begin_find_used(a.table, pointer_key(ptr))

\* The slab entries still to be had.
Available(a) ==
    Len(a.m_slab_free) + (IF a.m_slab_top < a.m_max_chunks THEN a.m_max_chunks - a.m_slab_top ELSE 0)

Chunk(next, prev, size, free, data) ==
    [next |-> next, prev |-> prev, size |-> size, free |-> free, data |-> data]

\* The index new_chunk takes: the last one freed, else one more.
NewIndex(a) == IF a.m_slab_free # <<>> THEN Head(a.m_slab_free) ELSE a.m_slab_top

new_chunk(a, chunk) ==
    [a EXCEPT !.slab = (NewIndex(a) :> chunk) @@ @,
              !.m_slab_free = IF @ # <<>> THEN Tail(@) ELSE @,
              !.m_slab_top = IF a.m_slab_free # <<>> THEN @ ELSE @ + 1]

free_chunk(a, idx) ==
    [a EXCEPT !.slab = [i \in DOMAIN @ \ {idx} |-> @[i]],
              !.m_slab_free = <<idx>> \o @]

\* The chunk before `next' is now idx.
LinkBack(a, next, idx) ==
    IF next = NO_CHUNK THEN a ELSE [a EXCEPT !.slab[next].prev = idx]

\* The chunk after idx leaves the list of addresses and the slab.
Unlink(a, idx, nidx) ==
    LET next == a.slab[nidx].next
        linked == LinkBack([a EXCEPT !.slab[idx].next = next], next, idx)
    IN  free_chunk([linked EXCEPT !.m_tail = IF @ = nidx THEN idx ELSE @], nidx)

merge_next_unbinned(a, idx) ==
    LET nidx == a.slab[idx].next
    IN  Unlink([a EXCEPT !.slab[idx].size = @ + a.slab[nidx].size], idx, nidx)

\* What is over goes to a new chunk, which is free.
split_next(a, idx, size) ==
    LET old == a.slab[idx]
        new == NewIndex(a)
        grown == new_chunk(a, Chunk(old.next, idx, old.size - size, TRUE, old.data + size))
        linked == LinkBack(grown, old.next, new)
    IN  IF old.size <= size THEN a
        ELSE bin_insert([linked EXCEPT !.slab[idx].next = new, !.slab[idx].size = size,
                                       !.m_tail = IF @ = idx THEN new ELSE @], new)

\* A used chunk takes from the free one after it what it needs; nothing if that
\* is not enough.
subsume_next(a, idx, newlen) ==
    LET nidx == a.slab[idx].next
        amount == newlen - a.slab[idx].size
        taken == [bin_remove(a, nidx) EXCEPT !.slab[idx].size = newlen]
    IN  IF a.slab[nidx].size < amount THEN a
        ELSE IF a.slab[nidx].size = amount THEN Unlink(taken, idx, nidx)
        ELSE bin_insert([taken EXCEPT !.slab[nidx].size = @ - amount,
                                      !.slab[nidx].data = @ + amount], nidx)

IsFree(a, idx) == idx # NO_CHUNK /\ a.slab[idx].free

\* Free chunks that meet are merged.
MergeAfter(a, idx) ==
    IF IsFree(a, a.slab[idx].next)
    THEN merge_next_unbinned(bin_remove(a, a.slab[idx].next), idx)
    ELSE a

BinMerged(a, idx) ==
    LET prev == a.slab[idx].prev
    IN  IF IsFree(a, prev)
        THEN bin_insert(merge_next_unbinned(bin_remove(a, prev), prev), prev)
        ELSE bin_insert(a, idx)

internal_free(a, idx) ==
    LET ptr == a.slab[idx].data
        erased == [a EXCEPT !.table = table_erase(@, pointer_key(ptr)), !.slab[idx].free = TRUE]
    IN  BinMerged(MergeAfter(erased, idx), idx)

-----------------------------------------------------------------------------
(* Where an allocation goes. *)

Page(address) == address \div RISCV_PAGE_SIZE

\* (Slip: one short.)
CrossesLate(a, idx, objectsize) == Page(a.slab[idx].data) # Page(a.slab[idx].data + objectsize - 2)

Crosses(a, idx, objectsize) == Page(a.slab[idx].data) # Page(a.slab[idx].data + objectsize - 1)

\* What lies before the next page.
Prefix(a, idx, objectsize) ==
    IF Crosses(a, idx, objectsize) THEN (- a.slab[idx].data) % RISCV_PAGE_SIZE ELSE 0

\* The object fits within a page, at the start of the chunk or at the next page.
page_candidate(a, idx, objectsize) ==
    \/ ~Crosses(a, idx, objectsize)
    \/ a.slab[idx].size >= Prefix(a, idx, objectsize) + objectsize

\* The chunks of the bins from a class on, in the order they are looked at.
BinsFrom(a, class) ==
    LET Chain[c \in Classes \cup {Nowhere}] ==
            IF c = Nowhere THEN <<>> ELSE a.bins[c] \o Chain[next_suitable_bin(a, c)]
    IN  Chain[class]

\* At most SEQ_PROBE_LIMIT of them; then a chunk so large that any place will do.
seq_find_candidate(a, objectsize) ==
    LET class == first_suitable_bin(a, objectsize)
        all == BinsFrom(a, class)
        good == {i \in DOMAIN all : page_candidate(a, all[i], objectsize)}
    IN  IF good # {} /\ Min(good) <= SEQ_PROBE_LIMIT THEN all[Min(good)]
        ELSE IF Len(all) >= SEQ_PROBE_LIMIT THEN bin_search(a, objectsize + RISCV_PAGE_SIZE)
        ELSE NO_CHUNK
-----------------------------------------------------------------------------
(* The operations: the arena they leave, the pointer they return, and whether  *)
(* they threw.                                                                 *)

Result(a, ptr, thrown) == [arena |-> a, ptr |-> ptr, thrown |-> thrown]

fixup_size(size) == Max({1, size})

\* The chunk is no longer free, and is entered in the table unless that is full.
Placed(a, idx, length) ==
    LET used == [split_next(a, idx, length) EXCEPT !.slab[idx].free = FALSE]
        ptr == used.slab[idx].data
    IN  IF TableFull(used.table) THEN Result(used, 0, TRUE)
        ELSE Result([used EXCEPT !.table = table_insert(@, pointer_key(ptr), idx)], ptr, FALSE)

malloc(a, length) ==
    LET idx == bin_search(a, length)
        splits == IF a.slab[idx].size > length THEN 1 ELSE 0
    IN  IF length > m_total \/ idx = NO_CHUNK THEN Result(a, 0, FALSE)
        ELSE IF splits > Available(a) THEN Result(a, 0, TRUE)
        ELSE Placed(bin_remove(a, idx), idx, length)

\* The part of the chunk before the page goes back to a bin.
SplitPrefix(a, idx, prefix) == bin_insert(split_next(bin_remove(a, idx), idx, prefix), idx)

\* In a flat arena an object may cross a page.
seq_alloc_aligned(a, objectsize, arena_is_flat) ==
    LET idx == seq_find_candidate(a, objectsize)
        prefix == Prefix(a, idx, objectsize)
        splits == (IF prefix > 0 THEN 1 ELSE 0)
                  + (IF a.slab[idx].size - prefix > objectsize THEN 1 ELSE 0)
        split == SplitPrefix(a, idx, prefix)
        at == split.slab[idx].next
    IN  IF arena_is_flat THEN malloc(a, objectsize)
        ELSE IF objectsize > RISCV_PAGE_SIZE THEN Result(a, 0, TRUE)
        ELSE IF objectsize > m_total \/ idx = NO_CHUNK THEN Result(a, 0, FALSE)
        ELSE IF splits > Available(a) THEN Result(a, 0, TRUE)
        ELSE IF prefix > 0 THEN Placed(bin_remove(split, at), at, objectsize)
        ELSE Placed(bin_remove(a, idx), idx, objectsize)

\* (Slip: the old chunk is freed before there is a new one.)
ReallocFreesFirst(a, ptr, length) ==
    LET idx == Find(a, ptr)
        moved == malloc(internal_free(a, idx), length)
    IN  IF length > m_total THEN Result(a, 0, FALSE)
        ELSE IF a.slab[idx].size >= length THEN Result(a, ptr, FALSE)
        ELSE moved

\* A used chunk stays if it is large enough, else grows in place, else moves.
realloc(a, ptr, length) ==
    LET idx == Find(a, ptr)
        grown == IF IsFree(a, a.slab[idx].next) THEN subsume_next(a, idx, length) ELSE a
        moved == malloc(a, length)
    IN  IF length > m_total THEN Result(a, 0, FALSE)
        ELSE IF a.slab[idx].size >= length THEN Result(a, ptr, FALSE)
        ELSE IF grown.slab[idx].size >= length THEN Result(grown, ptr, FALSE)
        ELSE IF moved.ptr = 0 THEN moved
        ELSE [moved EXCEPT !.arena = internal_free(@, idx)]

-----------------------------------------------------------------------------
(* The specification.  An arena that lost a chunk is not followed further. *)

New ==
    bin_insert([slab         |-> 0 :> Chunk(NO_CHUNK, NO_CHUNK, m_total, TRUE, m_base),
                m_slab_top   |-> 1,
                m_slab_free  |-> <<>>,
                m_tail       |-> 0,
                bins         |-> [c \in Classes |-> <<>>],
                fl_bitmap    |-> {},
                sl_bitmap    |-> {},
                m_bytes_free |-> 0,
                table        |-> NewTable(table_capacity_for(InitialCap)),
                m_max_chunks |-> InitialCap], 0)

Init ==
    /\ arena = New
    /\ call = [op |-> "none", ptr |-> 0, answer |-> 0]
    /\ lost = FALSE

Return(op, ptr, result) ==
    /\ arena' = result.arena
    /\ call' = [op |-> op, ptr |-> ptr, answer |-> result.ptr]
    /\ lost' = (result.thrown /\ result.arena # arena)

Malloc(size) ==
    /\ ~lost
    /\ Return("malloc", 0, malloc(arena, fixup_size(size)))

SeqAlloc(size, arena_is_flat) ==
    /\ ~lost
    /\ Return("malloc", 0, seq_alloc_aligned(arena, fixup_size(size), arena_is_flat))

\* Of a pointer the table has; realloc of null is malloc, and any other pointer
\* is left to a callback.
Realloc(ptr, size) ==
    /\ ~lost
    /\ Return("realloc", ptr, realloc(arena, ptr, fixup_size(size)))

Free(ptr) ==
    /\ ~lost
    /\ Return("free", ptr, Result(internal_free(arena, Find(arena, ptr)), 0, FALSE))

set_max_chunks(new_max) ==
    /\ ~lost
    /\ Return("configure", 0,
              Result([arena EXCEPT !.table = Resized(@, new_max), !.m_max_chunks = new_max], 0, FALSE))

\* The arena has lost a chunk.
Abandoned == lost /\ UNCHANGED vars

\* The pointers the callers have.
Pointers == {arena.slab[i].data : i \in {j \in DOMAIN arena.slab : ~arena.slab[j].free}}

Next ==
    \/ \E size \in Sizes : Malloc(size)
    \/ \E size \in Sizes, arena_is_flat \in BOOLEAN : SeqAlloc(size, arena_is_flat)
    \/ \E ptr \in Pointers, size \in Sizes : Realloc(ptr, size)
    \/ \E ptr \in Pointers : Free(ptr)
    \/ \E new_max \in Caps : set_max_chunks(new_max)
    \/ Abandoned

Spec == Init /\ [][Next]_vars
-----------------------------------------------------------------------------
(* Properties. *)

\* The chunks from the first on, as their links have them; a walk that does not
\* end is cut off.
Walk(a) ==
    LET From[n \in 0 .. a.m_slab_top] ==
            IF n = 0 THEN <<0>>
            ELSE LET next == a.slab[Last(From[n - 1])].next
                 IN  IF next \notin DOMAIN a.slab THEN From[n - 1] ELSE Append(From[n - 1], next)
    IN  From[a.m_slab_top]

\* The arena's own check of itself: the chunks cover the arena in the order of
\* their links, no two free ones meet, and every cache agrees with them.
validate(a) ==
    LET walk == Walk(a)
        At(i) == a.slab[walk[i]]
        last_chunk == At(Len(walk))
        free == {i \in ToSet(walk) : a.slab[i].free}
        used == ToSet(walk) \ free
        End(i) == At(i).data + At(i).size
        watermark == Max({m_base} \cup {End(i) : i \in {j \in DOMAIN walk : ~At(j).free}})
    IN  /\ IsInjective(walk)
        /\ \A i \in DOMAIN walk :
            /\ At(i).prev = IF i = 1 THEN NO_CHUNK ELSE walk[i - 1]
            /\ At(i).data = IF i = 1 THEN m_base ELSE End(i - 1)
            /\ At(i).size > 0
            /\ i > 1 => ~(At(i).free /\ At(i - 1).free)
        /\ End(Len(walk)) = m_base + m_total
        /\ a.m_tail = walk[Len(walk)]
        /\ a.m_bytes_free = FoldSet(LAMBDA i, sum : sum + a.slab[i].size, 0, free)
        /\ watermark = IF last_chunk.free THEN last_chunk.data ELSE End(Len(walk))
        /\ \A c \in Classes :
            /\ IsInjective(a.bins[c])
            /\ ToSet(a.bins[c]) = {i \in free : mapping_insert(a.slab[i].size) = c}
        /\ a.sl_bitmap = {c \in Classes : a.bins[c] # <<>>}
        /\ a.fl_bitmap = {c[1] : c \in a.sl_bitmap}
        /\ \A i \in used : Find(a, a.slab[i].data) = i
        /\ \A slot \in DOMAIN a.table.slots : a.table.slots[slot].chunk \in used \cup {NO_CHUNK}
        /\ a.table.live = Cardinality(used)
        /\ a.table.live = Cardinality({slot \in DOMAIN a.table.slots : a.table.slots[slot].chunk # NO_CHUNK})
        /\ IsInjective(a.m_slab_free)
        /\ ToSet(a.m_slab_free) \cap ToSet(walk) = {}

\* After every operation, whatever chunks it split, merged or moved, the arena
\* passes Arena::validate: list, bins, bitmaps, tail, free bytes, watermark and the
\* probing table agree.  And, what validate does not ask, a slab entry is a chunk of
\* the list or a free entry: splitting and merging for ever uses up no metadata.
Valid ==
    ~lost =>
        /\ validate(arena)
        /\ ToSet(Walk(arena)) \cup ToSet(arena.m_slab_free) = 0 .. arena.m_slab_top - 1

\* No used chunk reaches into the addresses.
Unused(a, from, to) ==
    \A i \in DOMAIN a.slab :
        a.slab[i].free \/ a.slab[i].data > to \/ a.slab[i].data + a.slab[i].size <= from

\* malloc returns null only if no range of unused addresses is large enough:
\* rounding the size up to a class hides no chunk that would do.  What is returned
\* has the size asked for, whichever bin it came from, and from seq_alloc_aligned,
\* unless the arena is flat, lies within one page, whatever chunk the probing or its
\* fallback found.
RequestsAreServed ==
    LET Size(result) == result.arena.slab[Find(result.arena, result.ptr)].size
        Fits(result, size) == result.ptr # 0 => Size(result) >= size
        OnOnePage(result, size) == result.ptr # 0 => Page(result.ptr) = Page(result.ptr + size - 1)
        Room(size) == \E p \in m_base .. m_base + m_total - size : Unused(arena, p, p + size - 1)
    IN  ~lost => \A size \in 1 .. m_total :
            /\ \A result \in {malloc(arena, size)} :
                   Fits(result, size) /\ (result.ptr # 0 \/ result.thrown \/ ~Room(size))
            /\ \A result \in {seq_alloc_aligned(arena, size, FALSE)} :
                   Fits(result, size) /\ OnOnePage(result, size)
            /\ \A ptr \in Pointers : Fits(realloc(arena, ptr, size), size)

\* An operation that throws leaves the arena as it was: no chunk is out of its bin
\* and not in the table.
ThrowsAreAtomic == ~lost

Blocks ==
    LET entries == {arena.table.slots[slot] : slot \in DOMAIN arena.table.slots} \ {Empty}
    IN  [p \in {m_base + e.key : e \in entries} |->
            arena.slab[(CHOOSE e \in entries : m_base + e.key = p).chunk].size]

Promise == INSTANCE HeapSpec WITH First <- m_base, Size <- m_total, blocks <- Blocks

\* The arena is a heap: blocks never overlap; malloc adds the block it returns;
\* free removes the block of its pointer; realloc keeps that block when it fails,
\* and otherwise grows it in place or moves it to where nothing was; and no
\* operation moves, shrinks or frees a block other than the one it is given.
ImplementsHeap == Promise!Spec

=============================================================================
