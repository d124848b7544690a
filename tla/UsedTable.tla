------------------------------ MODULE UsedTable ------------------------------
(***************************************************************************)
(* The table from pointer to used chunk of libriscv's native heap:         *)
(* linear probing, kept at most half full, without tombstones: erasing an  *)
(* entry moves later ones back over the hole.                              *)
(*                                                                         *)
(* A table t has its slots, m_used_chunk_table, and the count of live      *)
(* entries, m_live_chunks.  The key of a pointer is its distance from the  *)
(* base of the arena, in units.                                            *)
(***************************************************************************)
EXTENDS Integers, FiniteSets, FiniteSetsExt, Sequences, SequencesExt

NO_CHUNK == -1

Empty == [key |-> 0, chunk |-> NO_CHUNK]

\* A power of two: slots are found by masking.
table_capacity_for(max_chunks) ==
    LET wanted == Max({2, 2 * max_chunks})
    IN  2 ^ Min({k \in 0 .. wanted : 2 ^ k >= wanted})

Capacity(slots) == Cardinality(DOMAIN slots)

\* The low bits of the code's multiplier, 2654435769: a table of up to 256 slots
\* uses no others.
hash_key(key) == key * 185

Home(slots, key) == hash_key(key) % Capacity(slots)

\* The slots in the order they are probed for a key.
Probes(slots, key) ==
    [n \in 1 .. Capacity(slots) |-> (Home(slots, key) + n - 1) % Capacity(slots)]

\* Where probing for a key stops: at its entry or at an empty slot.
Stops(slots, key) ==
    SelectSeq(Probes(slots, key),
              LAMBDA slot : slots[slot].chunk = NO_CHUNK \/ slots[slot].key = key)

begin_find_used(t, key) ==
    LET stops == Stops(t.slots, key)
    IN  IF stops = <<>> THEN NO_CHUNK ELSE t.slots[Head(stops)].chunk

TableFull(t) == 2 * (t.live + 1) > Capacity(t.slots)

\* Of a table that is not full.  An entry of the key is overwritten.
table_insert(t, key, idx) ==
    LET slot == Head(Stops(t.slots, key))
    IN  [slots |-> [t.slots EXCEPT ![slot] = [key |-> key, chunk |-> idx]],
         live  |-> IF t.slots[slot].chunk = NO_CHUNK THEN t.live + 1 ELSE t.live]

\* (Slip: an entry moves back if it is not at home.)
MayMoveAway(slots, scan, hole) == Home(slots, slots[scan].key) # scan

\* The hole is nearer to the entry's home than the slot it is in.
MayMove(slots, scan, hole) ==
    LET home == Home(slots, slots[scan].key)
    IN  (hole - home) % Capacity(slots) < (scan - home) % Capacity(slots)

\* Of a key that is there.  Every entry up to the next empty slot is moved into
\* the hole if it may be; it leaves the hole behind it.
table_erase(t, key) ==
    LET start == Head(Stops(t.slots, key))
        Scan(n) == (start + n) % Capacity(t.slots)
        run == Min({n \in 1 .. Capacity(t.slots) - 1 : t.slots[Scan(n)].chunk = NO_CHUNK})
        Shift(state, n) ==
            IF MayMove(state.slots, Scan(n), state.hole)
            THEN [slots |-> [state.slots EXCEPT ![state.hole] = state.slots[Scan(n)]], hole |-> Scan(n)]
            ELSE state
        end == FoldLeft(Shift, [slots |-> t.slots, hole |-> start], [n \in 1 .. run - 1 |-> n])
    IN  [slots |-> [end.slots EXCEPT ![end.hole] = Empty], live |-> t.live - 1]

NewTable(capacity) == [slots |-> [slot \in 0 .. capacity - 1 |-> Empty], live |-> 0]

\* The entries are inserted again in the order of their old slots.
rebuild_table(t, capacity) ==
    LET entries == SelectSeq([n \in 1 .. Capacity(t.slots) |-> t.slots[n - 1]],
                             LAMBDA entry : entry.chunk # NO_CHUNK)
    IN  FoldLeft(LAMBDA new, entry : table_insert(new, entry.key, entry.chunk),
                 NewTable(capacity), entries)

\* The table after the cap was changed: not made too small for what it has.
Resized(t, max_chunks) ==
    LET capacity == table_capacity_for(max_chunks)
    IN  IF capacity # Capacity(t.slots) /\ capacity >= 2 * t.live
        THEN rebuild_table(t, capacity) ELSE t

=============================================================================
