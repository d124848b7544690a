------------------------------ MODULE LineTable ------------------------------
(***************************************************************************)
(* The address-to-line table (line_table.cpp) and the rows the backend     *)
(* records while it emits code (record_line() of riscv_debug.cpp).         *)
(*                                                                         *)
(* A table is a sequence of rows [address, line] in ascending address      *)
(* order; a row's line covers the addresses up to the next row.  A blob is *)
(* a sequence of 32-bit words.                                             *)
(***************************************************************************)
EXTENDS Integers, Sequences, SequencesExt

LINE_TABLE_MAGIC == 1280525383

LINE_TABLE_VERSION == 1

Row(address, line) == [address |-> address, line |-> line]

\* The row for code emitted at address: a second row for the same address
\* overwrites the first, and a row that repeats the line before it is dropped.
AddLine(entries, address, line) ==
    IF entries = <<>> THEN <<Row(address, line)>>
    ELSE IF Last(entries).address # address /\ Last(entries).line = line
    THEN entries
    ELSE LET rows == IF Last(entries).address = address
                     THEN [entries EXCEPT ![Len(entries)].line = line]
                     ELSE Append(entries, Row(address, line))
             n == Len(rows)
         IN  IF n >= 2 /\ rows[n - 1].line = rows[n].line
             THEN Front(rows) ELSE rows

\* An instruction without a line continues the row before it, unless it opens
\* a function.
record_line(entries, address, line, force) ==
    IF line < 0 \/ (line = 0 /\ ~force) THEN entries
    ELSE AddLine(entries, address, line)

\* std::upper_bound: how many rows the binary search puts at or below address.
UpperBound(entries, address) ==
    LET Search[count \in 0 .. Len(entries)] ==
            [first \in 0 .. Len(entries) |->
                IF count = 0 THEN first
                ELSE LET step == count \div 2
                     IN  IF address < entries[first + step + 1].address
                         THEN Search[step][first]
                         ELSE Search[count - step - 1][first + step + 1]]
    IN  Search[Len(entries)][0]

line_for_address(entries, address) ==
    LET it == UpperBound(entries, address)
    IN  IF it = 0 THEN 0 ELSE entries[it].line

encode_line_table(entries) ==
    <<LINE_TABLE_MAGIC, LINE_TABLE_VERSION, Len(entries)>>
    \o [w \in 1 .. 2 * Len(entries) |->
           LET row == entries[(w + 1) \div 2]
           IN  IF w % 2 = 1 THEN row.address ELSE row.line]

\* (Slip: rows are taken in whatever order they come.)
DecodeUnsorted(blob) ==
    IF \/ Len(blob) < 3
       \/ blob[1] # LINE_TABLE_MAGIC \/ blob[2] # LINE_TABLE_VERSION
       \/ Len(blob) # 3 + 2 * blob[3]
    THEN [ok |-> FALSE, entries |-> <<>>]
    ELSE [ok |-> TRUE,
          entries |-> [i \in 1 .. blob[3] |->
                          Row(blob[2 * i + 2], blob[2 * i + 3])]]

\* The size must match the count exactly and the addresses must ascend;
\* otherwise the table is left empty.
decode_line_table(blob) ==
    IF \/ Len(blob) < 3
       \/ blob[1] # LINE_TABLE_MAGIC \/ blob[2] # LINE_TABLE_VERSION
       \/ Len(blob) # 3 + 2 * blob[3]
    THEN [ok |-> FALSE, entries |-> <<>>]
    ELSE LET entries == [i \in 1 .. blob[3] |->
                            Row(blob[2 * i + 2], blob[2 * i + 3])]
         IN  IF \A i \in 2 .. blob[3] :
                    entries[i].address > entries[i - 1].address
             THEN [ok |-> TRUE, entries |-> entries]
             ELSE [ok |-> FALSE, entries |-> <<>>]

\* What a lookup should answer: the line of the last row at or below address.
Covering(entries, address) ==
    LET below == {i \in 1 .. Len(entries) : entries[i].address <= address}
    IN  IF below = {} THEN 0
        ELSE entries[CHOOSE i \in below :
                        \A j \in below :
                            entries[j].address <= entries[i].address].line

=============================================================================
