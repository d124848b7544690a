------------------------------ MODULE Assembler ------------------------------
(***************************************************************************)
(* The code buffer of the RISC-V backend (riscv_codegen.cpp): words are    *)
(* emitted with label uses and line-table rows, branches and jumps that do *)
(* not reach are relaxed by inserting words, labels are resolved, and the  *)
(* line table is rebased, encoded and decoded by the reader.               *)
(*                                                                         *)
(* Addresses count words.  Every IR instruction records its line and then  *)
(* emits one of a few shapes of code; instruction selection is abstracted  *)
(* to these shapes.  A branch's operands are abstracted to the question    *)
(* whether it is inverted.                                                 *)
(***************************************************************************)
EXTENDS LineTable, FiniteSets, TLC

CONSTANTS
    CodeLabels,    \* labels defined by LABEL instructions: 1 .. CodeLabels
    Lines,         \* source lines, 0 where there is none
    MaxIR,         \* bound: IR instructions in the program
    MaxFunctions,  \* bound: functions in the program
    Filler,        \* words of an instruction after those that load a constant
    BranchReach,   \* a B-type displacement d has -BranchReach <= d < BranchReach
    JumpReach,     \* the same for a J-type displacement
    BASE_ADDR      \* where .text is loaded

ASSUME ReachAssumption ==
    /\ BranchReach \in Nat /\ JumpReach \in Nat
    \* The skip over a relaxed jump must itself be in reach.
    /\ 4 <= BranchReach /\ BranchReach <= JumpReach

VARIABLES
    code,      \* m_code: sequence of words
    labels,    \* m_label_offsets: label -> address
    uses,      \* m_label_uses: sequence of [label, at]
    tables,    \* m_dense_jump_tables: set of [first, count] over uses
    functions, \* m_functions: the address of each function, in order
    entries,   \* m_line_table.entries
    phase,     \* where generate() is
    blob,      \* the encoded line table as the reader receives it
    table,     \* what the reader decoded
    story      \* history: what was emitted, see below

vars == <<code, labels, uses, tables, functions, entries, phase, blob, table, story>>

(***************************************************************************)
(* story remembers, for each word in the buffer, the emitted word it       *)
(* belongs to (0 for a word relaxation added) and the line in effect; for  *)
(* each emitted word, its operation and the label it was meant to go to (0 *)
(* if none); for each label and each function, the number of words emitted *)
(* before it; and the line now in effect.                                  *)
(***************************************************************************)
Said(of, line) == [of |-> of, line |-> line]

POOL == CodeLabels + 1          \* the constant pool, ".LC0"

Skip(use) == POOL + use         \* ".relax_skip<use>"

NO_LABEL == -1

Offset(label) == IF label \in DOMAIN labels THEN labels[label] ELSE NO_LABEL

\* op: "plain", "branch", "jump", "auipc", "jalr", "addi" or "shadd".
\* arg: whether a branch is inverted, the stride of a shadd, else 0.
\* imm: the resolved displacement.
Word(op, arg) == [op |-> op, arg |-> arg, imm |-> 0]

Here == Len(code)

FitsIn(d, reach) == -reach <= d /\ d < reach

-----------------------------------------------------------------------------
(* Emission. *)

\* The code of one IR instruction: its words and the label uses in them, each
\* with the word it stands on.  An instruction that transfers no control loads
\* from the constant pool.
Shape(kind) ==
    CASE kind = "plain"  -> [words |-> <<Word("auipc", 0), Word("addi", 0)>>
                                       \o [i \in 1 .. Filler |->
                                              Word("plain", 0)],
                             uses  |-> << <<POOL, 0>> >>]
      [] kind = "label"  -> [words |-> <<>>, uses |-> <<>>]
      [] kind = "branch" -> [words |-> <<Word("branch", 0)>>,
                             uses  |-> << <<1, 0>> >>]
      [] kind = "jump"   -> [words |-> <<Word("jump", 0)>>,
                             uses  |-> << <<1, 0>> >>]
      [] kind = "table"  -> [words |-> <<Word("plain", 0), Word("shadd", 1),
                                         Word("plain", 0)>>
                                       \o [l \in 1 .. CodeLabels |->
                                              Word("jump", 0)],
                             uses  |-> [l \in 1 .. CodeLabels |->
                                           <<l, 2 + l>>]]

LabelAt(shape, i) ==
    IF \E u \in DOMAIN shape.uses : shape.uses[u][2] = i
    THEN shape.uses[CHOOSE u \in DOMAIN shape.uses : shape.uses[u][2] = i][1]
    ELSE 0

Kinds == {"plain", "label", "branch", "jump", "table"}

\* record_line() of the driver and of gen_function(), and what it leaves as
\* the line in effect.
Recorded(line, force) == entries' = record_line(entries, Here, line, force)

InEffect(line, force) ==
    IF line = 0 /\ ~force THEN story.line ELSE line

\* The start of a function: its line is the declaration's, or 0 if unknown,
\* and its label is defined.
BeginFunction(line) ==
    /\ phase = "emit"
    /\ Len(functions) < MaxFunctions
    /\ functions' = Append(functions, Here)
    /\ Recorded(line, TRUE)
    /\ story' = [story EXCEPT !.line = line, !.starts = Append(@, story.emitted)]
    /\ UNCHANGED <<code, labels, uses, tables, phase, blob, table>>

\* One IR instruction; a label may be defined once.
Instruction(kind, line, label) ==
    LET shape == Shape(kind)
        now   == InEffect(line, FALSE)
    IN  /\ phase = "emit"
        /\ functions # <<>> /\ story.instructions < MaxIR
        /\ kind = "label" => Offset(label) = NO_LABEL
        /\ kind # "label" => label = 1
        /\ Recorded(line, FALSE)
        /\ code' = code \o shape.words
        /\ uses' = uses \o [u \in 1 .. Len(shape.uses) |->
                               [label |-> shape.uses[u][1],
                                at    |-> Here + shape.uses[u][2]]]
        /\ labels' = IF kind = "label" THEN (label :> Here) @@ labels
                     ELSE labels
        /\ tables' = IF kind = "table"
                     THEN tables \cup {[first |-> Len(uses) + 1,
                                        count |-> CodeLabels]}
                     ELSE tables
        /\ story' =
              [story EXCEPT
                 !.line = now,
                 !.instructions = @ + 1,
                 !.words = @ \o [i \in 1 .. Len(shape.words) |->
                                    Said(story.emitted + i, now)],
                 !.emitted = @ + Len(shape.words),
                 !.meant = @ \o [i \in 1 .. Len(shape.words) |->
                                    [op |-> shape.words[i].op,
                                     label |-> LabelAt(shape, i - 1)]],
                 !.labels = IF kind = "label"
                            THEN (label :> story.emitted) @@ @ ELSE @]
        /\ UNCHANGED <<functions, phase, blob, table>>

EndOfCode ==
    /\ phase = "emit"
    /\ functions # <<>>
    /\ phase' = "relax"
    /\ UNCHANGED <<code, labels, uses, tables, functions, entries, blob, table, story>>

-----------------------------------------------------------------------------
(* relax_branches(): one iteration of its loop. *)

OutOfReach(u) ==
    LET op == code[uses[u].at + 1].op
        d  == Offset(uses[u].label) - uses[u].at
    IN  /\ Offset(uses[u].label) # NO_LABEL
        /\ \/ op = "branch" /\ ~FitsIn(d, BranchReach)
           \/ op = "jump" /\ ~FitsIn(d, JumpReach)

InTable(t) == t.first .. t.first + t.count - 1

\* (Slip: the other jumps of a jump table stay as they are.)
ToRelaxAlone == {u \in DOMAIN uses : OutOfReach(u)}

\* A jump table is relaxed as a whole, or its entries would differ in size.
ToRelax ==
    LET far == {u \in DOMAIN uses : OutOfReach(u)}
    IN  far \cup UNION {InTable(t) : t \in {t \in tables :
                                               InTable(t) \cap far # {}}}

\* Where the code at address a moves; what stood at an insertion point moves
\* behind the inserted word.
Shift(points, a) == a + Cardinality({p \in points : p <= a})

\* seq with next[p] inserted at the address p.
Insert(seq, points, next) ==
    LET Before(a) == Cardinality({p \in points : p < a})
        New       == {p + Before(p) + 1 : p \in points}
    IN  [i \in 1 .. Len(seq) + Cardinality(points) |->
            IF i \in New
            THEN next[CHOOSE p \in points : p + Before(p) + 1 = i]
            ELSE seq[i - Cardinality({n \in New : n < i})]]

\* (Slip: rows keep the addresses they were recorded at.)
RowsStay(points) == entries

ShiftedRows(points) ==
    [e \in DOMAIN entries |->
        [entries[e] EXCEPT !.address = Shift(points, @)]]

Skipping(relax) == {u \in relax : code[uses[u].at + 1].op = "branch"}

\* The uses with those of the skip labels added.
UsesAndSkips(skipping) ==
    uses \o [k \in 1 .. Cardinality(skipping) |->
                LET u == SetToSortSeq(skipping, <)[k]
                IN  [label |-> Skip(u), at |-> uses[u].at]]

\* A relaxed branch's own use moves to the inserted jump.
ShiftedUses(points, skipping) ==
    LET all == UsesAndSkips(skipping)
    IN  [u \in DOMAIN all |->
            [all[u] EXCEPT !.at = Shift(points, @)
                                  + (IF u \in skipping THEN 1 ELSE 0)]]

\* A branch becomes the inverted branch over a jump, a jump an auipc and a
\* jalr; the dispatch of a relaxed table steps over two words for each index.
RelaxedWord(a, relax) ==
    LET w == code[a + 1] IN
    IF \E u \in relax : uses[u].at = a
    THEN IF w.op = "branch" THEN [w EXCEPT !.arg = 1 - @]
         ELSE Word("auipc", 0)
    ELSE IF \E t \in tables : /\ InTable(t) \cap relax # {}
                              /\ uses[t.first].at = a + 2
    THEN [w EXCEPT !.arg = 2]
    ELSE w

\* (Slip: the loop does not return when nothing is inserted.)
RelaxForever(relax) == "relax"

AfterRelax(relax) == IF relax = {} THEN "resolve" ELSE "relax"

Relax ==
    /\ phase = "relax"
    /\ LET relax  == ToRelax
           points == {uses[u].at + 1 : u \in relax}
           skips  == {Skip(u) : u \in Skipping(relax)}
       IN  /\ phase' = AfterRelax(relax)
           /\ code' = Insert([i \in DOMAIN code |-> RelaxedWord(i - 1, relax)],
                             points,
                             [p \in points |->
                                 IF code[p].op = "branch" THEN Word("jump", 0)
                                 ELSE Word("jalr", 0)])
           /\ uses' = ShiftedUses(points, Skipping(relax))
           /\ labels' = [l \in DOMAIN labels \cup skips |->
                           Shift(points, IF l \in skips
                                         THEN uses[l - POOL].at + 1
                                         ELSE labels[l])]
           /\ functions' = [f \in DOMAIN functions |-> Shift(points, functions[f])]
           /\ entries' = ShiftedRows(points)
           /\ story' = [story EXCEPT !.words =
                           Insert(@, points, [p \in points |->
                                                Said(0, @[p].line)])]
    /\ UNCHANGED <<tables, blob, table>>

-----------------------------------------------------------------------------
(* The constant pool and resolve_labels(). *)

Resolvable(all, u) ==
    LET op == code[uses[u].at + 1].op
        d  == all[uses[u].label] - uses[u].at
    IN  /\ uses[u].label \in DOMAIN all
        /\ op = "branch" => FitsIn(d, BranchReach)
        /\ op = "jump" => FitsIn(d, JumpReach)

\* The pool starts where the code ends.  An undefined label, or a displacement
\* that does not fit, throws.
Resolve ==
    /\ phase = "resolve"
    /\ LET all == (POOL :> Here) @@ labels IN
       /\ labels' = all
       /\ IF \A u \in DOMAIN uses : Resolvable(all, u)
          THEN /\ phase' = "linked"
               /\ code' = [i \in DOMAIN code |->
                     IF \E u \in DOMAIN uses : uses[u].at = i - 1
                     THEN LET u == CHOOSE u \in DOMAIN uses : uses[u].at = i - 1
                          IN  [code[i] EXCEPT !.imm =
                                  all[uses[u].label] - uses[u].at]
                     ELSE code[i]]
          ELSE phase' = "failed" /\ UNCHANGED code
    /\ UNCHANGED <<uses, tables, functions, entries, blob, table, story>>

\* ELFBuilder: the addresses become virtual ones, and the table is encoded.
Build ==
    /\ phase = "linked"
    /\ phase' = "built"
    /\ entries' = [e \in DOMAIN entries |->
                     [entries[e] EXCEPT !.address = @ + BASE_ADDR]]
    /\ blob' = encode_line_table(entries')
    /\ UNCHANGED <<code, labels, uses, tables, functions, table, story>>

\* What may become of a blob in a file: its end is missing, a word is
\* repeated, or the addresses of the first and the last row change places.
Damaged(b) ==
    LET n == Len(b) - 1
    IN  {SubSeq(b, 1, n), Append(b, b[n + 1]), [b EXCEPT ![4] = b[n], ![n] = b[4]]}

Read ==
    /\ phase = "built"
    /\ phase' = "read"
    /\ Len(blob) > 3   \* a function has begun, so there is a row
    /\ blob' \in {blob} \cup Damaged(blob)
    /\ table' = decode_line_table(blob')
    /\ UNCHANGED <<code, labels, uses, tables, functions, entries, story>>

\* The buffer starts with fast_exit: a STOP and a jump back onto it.
Init ==
    /\ code = <<Word("plain", 0), Word("plain", 0)>>
    /\ labels = <<>> /\ uses = <<>> /\ tables = {} /\ functions = <<>>
    /\ entries = <<>> /\ phase = "emit" /\ blob = <<>>
    /\ table = [ok |-> FALSE, entries |-> <<>>]
    /\ story = [words |-> <<Said(1, 0), Said(2, 0)>>, emitted |-> 2,
                meant |-> [i \in 1 .. 2 |-> [op |-> "plain", label |-> 0]],
                labels |-> <<>>, line |-> 0,
                starts |-> <<>>, instructions |-> 0]

Next ==
    \/ \E line \in Lines : BeginFunction(line)
    \/ \E kind \in Kinds, line \in Lines, label \in 1 .. CodeLabels :
          Instruction(kind, line, label)
    \/ EndOfCode
    \/ Relax
    \/ Resolve
    \/ Build
    \/ Read

Spec == Init /\ [][Next]_vars /\ WF_vars(Next)

-----------------------------------------------------------------------------
(* Properties. *)

Linked == phase \in {"linked", "built", "read"}

\* The address of an emitted word, or of the end of the code.
At(k) == IF k > story.emitted THEN Len(code)
         ELSE (CHOOSE i \in DOMAIN code : story.words[i].of = k) - 1

Target(label) == IF label = POOL THEN Len(code) ELSE At(story.labels[label] + 1)

\* Where control goes from the word at address a when the condition of the
\* branch that was emitted is c.
Hop(a, c) ==
    LET w == code[a + 1]
    IN  CASE w.op = "branch" -> IF c = (w.arg = 0) THEN a + w.imm ELSE a + 1
          [] w.op \in {"jump", "auipc"} -> a + w.imm
          [] OTHER -> a + 1

Emitted(a) == a = Len(code) \/ story.words[a + 1].of # 0

\* Where it goes once the words relaxation added have run as well.
Lands(a, c) == LET b == Hop(a, c) IN IF Emitted(b) THEN b ELSE Hop(b, c)

\* A dispatch lands on the entry of its index, relaxed or not: the table address
\* plus index times the stride (gen_switch's auipc, shNadd, jalr 12).
DispatchReaches(k) ==
    \A l \in 1 .. CodeLabels : At(k) + 2 + (l - 1) * code[At(k) + 1].arg = At(k + 1 + l)

\* However far relaxation moved them, a taken branch, a jump and a loaded
\* address go to the code their label stood in front of, a branch not taken
\* goes to the code emitted after it, and a dispatch through a jump table goes
\* to its entry; and the address the symbol table gives a function is that of
\* its first word (relax_branches, resolve_labels).
JumpsReachTheirTargets ==
    Linked =>
        /\ \A f \in DOMAIN functions : functions[f] = At(story.starts[f] + 1)
        /\ \A k \in 1 .. story.emitted :
               LET m == story.meant[k] IN
               /\ m.label # 0 => Lands(At(k), TRUE) = Target(m.label)
               /\ m.label # 0 /\ m.op = "branch" => Lands(At(k), FALSE) = At(k + 1)
               /\ m.op = "shadd" => DispatchReaches(k)

\* The line table answers, for every word of the finished code, with the line
\* that was in effect when the word was emitted; a word that relaxation added
\* has the line of its branch (record_line, relax_branches, ELFBuilder::build).
LinesFollowTheCode ==
    Linked =>
        \A i \in DOMAIN code :
            line_for_address(entries, i - 1
                + (IF phase = "linked" THEN 0 ELSE BASE_ADDR))
                = story.words[i].line

\* The reader gets exactly the table that was written from an intact blob; and
\* from any blob it accepts, the binary search answers as the rows say
\* (decode_line_table, line_for_address).
ReaderAgrees ==
    phase = "read" =>
        /\ blob = encode_line_table(entries) =>
              table = [ok |-> TRUE, entries |-> entries]
        /\ \A a \in 0 .. BASE_ADDR + Len(code) :
              line_for_address(table.entries, a) = Covering(table.entries, a)

\* resolve_labels() throws for an undefined label only, never because a branch
\* is out of reach: relaxation has seen to that.
FailedRightly == phase = "failed" /\ \E u \in DOMAIN uses : uses[u].label \notin DOMAIN labels

\* Relaxation comes to an end, and with it the compilation, which fails only for
\* an undefined label: the loop stops when an iteration inserts nothing, and
\* then everything is in reach (relax_branches, resolve_labels).
CompilationEnds == <>(phase = "read" \/ FailedRightly)

=============================================================================
