--------------------------- MODULE OptimizerPasses ---------------------------
(***************************************************************************)
(* The passes of IROptimizer (ir_optimizer.cpp) as functions from an       *)
(* instruction sequence and the cached analysis to what the pass leaves of *)
(* both and whether it reports a change.                                   *)
(*                                                                         *)
(* A FunctionAnalysis is the blocks and labels of a function; here it is   *)
(* the instruction sequence it was computed from, and a pass that works on *)
(* blocks takes them from there (its parameter "shape").  Scalar           *)
(* replacement is not among the passes.                                    *)
(***************************************************************************)
EXTENDS TightenScopeMarks, IRInterpreter, FiniteSets, Functions, SequencesExt, TLC

Known(m, r) == r \in DOMAIN m
Put(m, r, v) == (r :> v) @@ m
Drop(m, R) == <<>> @@ Restrict(m, DOMAIN m \ R)

\* ir_collect_read_registers(), with repetitions.
ReadSeq(instr) ==
    IF instr.op = "RETURN" THEN <<RETURN_REGISTER>>
    ELSE IF instr.op \in InoutOps THEN <<instr.dst>> \o instr.srcs
    ELSE instr.srcs

\* One pass over the instructions, first to last: Visit(acc, i) at each i.
Sweep(code, start, Visit(_, _)) == ForEach(1, Len(code), start, Visit)

\* The instructions at the positions in S.
Keep(code, S) ==
    LET at == SelectSeq([i \in Indices(code) |-> i], LAMBDA i : i \in S)
    IN  <<>> \o [k \in DOMAIN at |-> code[at[k]]]

\* is_reg_read_outside()
ReadOutside(code, r, first, last) ==
    \E i \in Indices(code) : i \notin first..last /\ r \in Reads(code[i])

-----------------------------------------------------------------------------
\* m_analysis

NoAnalysis == [valid |-> FALSE, func |-> 0, code |-> <<>>]

invalidate_analysis(analysis) == [analysis EXCEPT !.valid = FALSE]

\* The cache answers for a function of the same size.
Answers(analysis, fn, code) ==
    analysis.valid /\ analysis.func = fn /\ Len(analysis.code) = Len(code)

\* analysis(): the cache, filled if it does not answer.
Analysis(analysis, fn, code) ==
    IF Answers(analysis, fn, code) THEN analysis ELSE [valid |-> TRUE, func |-> fn, code |-> code]

\* What a pass leaves.
After(code, changed, analysis) == [code |-> code, changed |-> changed, analysis |-> analysis]

\* (A slip: code of the same size does not invalidate.)
ReplaceResized(f, analysis, fresh) ==
    After(fresh, fresh # f.code,
           IF Len(fresh) # Len(f.code) THEN invalidate_analysis(analysis) ELSE analysis)

replace_instructions(f, analysis, fresh) ==
    After(fresh, fresh # f.code,
           IF fresh # f.code THEN invalidate_analysis(analysis) ELSE analysis)

-----------------------------------------------------------------------------
\* constant_folding()

\* ConstantValue::int_value, which only an INT constant sets.
IntField(x) == IF x.type = "BOOL" THEN 0 ELSE x.v

NotFolded == NilValue

\* try_fold_binary_op()
FoldArithmetic(op, hint, x, y) ==
    LET a == IntField(x)
        b == IntField(y)
    IN  IF hint = "FLOAT" \/ IsFloat(x) \/ IsFloat(y)
        THEN IF op = "MOD" /\ b = 0 THEN NotFolded
             ELSE BinaryOp(op, FloatValue(a), FloatValue(b))
        ELSE IF x.type # "INT" \/ y.type # "INT" \/ (op = "MOD" /\ (b = 0 \/ (b = -1 /\ a = IntMin)))
        THEN NotFolded
        ELSE BinaryOp(op, x, y)

FoldComparison(op, x, y) ==
    IF {x.type, y.type} \subseteq {"INT", "FLOAT"} THEN BoolValue(Holds(op, x, y)) ELSE NotFolded

FoldConversion(hint, x) ==
    IF \/ hint = "FLOAT" /\ x.type \in {"INT", "BOOL"}
       \/ hint = "INT" /\ (x.type = "BOOL" \/ (IsFloat(x) /\ x.v \in IntMin..IntMax))
    THEN Convert(hint, x)
    ELSE NotFolded

\* The value the instruction is known to compute.
FoldedValue(instr, m) ==
    LET Arg(k) == m[instr.srcs[k]]
    IN  IF \E k \in 1..Len(instr.srcs) : ~Known(m, instr.srcs[k]) THEN NotFolded
        ELSE IF instr.op \in IR_COMPARISON THEN FoldComparison(instr.op, Arg(1), Arg(2))
        ELSE IF instr.op \in IR_ARITHMETIC
        THEN FoldArithmetic(instr.op, instr.hint, Arg(1), Arg(2))
        ELSE IF instr.op = "CONVERT" THEN FoldConversion(instr.hint, Arg(1))
        ELSE NotFolded

LoadOf(dst, x) ==
    CASE x.type = "INT" -> Hinted(Instr("LOAD_IMM", dst, <<>>, x.v, <<>>), "INT")
      [] x.type = "FLOAT" -> Hinted(Instr("LOAD_FLOAT_IMM", dst, <<>>, x.v, <<>>), "FLOAT")
      [] x.type = "BOOL" -> Instr("LOAD_BOOL", dst, <<>>, x.v, <<>>)

\* The constants after the instruction, folded being its FoldedValue.  A CALL
\* keeps them all: its operand 0, the only one looked at, is the callee's name.
ConstantsAfter(instr, m, folded) ==
    CASE instr.op \in {"LOAD_IMM", "LOAD_FLOAT_IMM", "LOAD_BOOL"} ->
           Put(m, instr.dst, Immediate(instr))
      [] instr.op = "MOVE" /\ Known(m, instr.srcs[1]) -> Put(m, instr.dst, m[instr.srcs[1]])
      [] instr.op \in IR_ARITHMETIC \cup {"CONVERT"} /\ folded # NotFolded ->
           Put(m, instr.dst, folded)
      [] instr.op = "CALL" -> m
      [] OTHER -> Drop(m, Writes(instr))

\* What fold_instruction() emits for it.
Emitted(instr, m, folded) ==
    LET taken == Truth(m[instr.srcs[1]]) = (instr.op = "BRANCH_NOT_ZERO")
    IN  CASE instr.op \in {"BRANCH_ZERO", "BRANCH_NOT_ZERO"} /\ Known(m, instr.srcs[1]) ->
               IF taken THEN <<Instr("JUMP", NoReg, <<>>, 0, instr.lbls)>> ELSE <<>>
          [] instr.op \in IR_ARITHMETIC \cup {"CONVERT"} /\ folded # NotFolded ->
               <<LoadOf(instr.dst, folded)>>
          [] OTHER -> <<instr>>

FoldInstruction(acc, instr, folded) ==
    [m |-> ConstantsAfter(instr, acc.m, folded), out |-> acc.out \o Emitted(instr, acc.m, folded)]

\* The last instruction of the block that starts at b.
BlockEnd(shape, b) ==
    LET leaders == Leaders(shape)
    IN  CHOOSE i \in b..Len(shape) :
          (i = Len(shape) \/ (i + 1) \in leaders) /\ \A k \in (b + 1)..i : k \notin leaders

\* fold_instruction() over the instructions of a block, from the constants m.
FoldBlock(block, m) ==
    Sweep(block, [m |-> m, out |-> <<>>],
          LAMBDA acc, i : FoldInstruction(acc, block[i], FoldedValue(block[i], acc.m)))

Block(code, shape, b) == SubSeq(code, b, BlockEnd(shape, b))

\* meet_constants()
Meet(m, n) == <<>> @@ Restrict(m, {r \in DOMAIN m \cap DOMAIN n : m[r] = n[r]})

\* The constants each successor of block b is entered with, given those b ends
\* with.  entry has the blocks whose entry_initialized is set.
Entered(entry, successors, out) ==
    [s \in successors |-> IF Known(entry, s) THEN Meet(entry[s], out) ELSE out]

\* The worklist is last in first out; the order of a block's successors does
\* not show in the result.
Visited(flow, new) ==
    LET changed == {s \in DOMAIN new : ~Known(flow.entry, s) \/ new[s] # flow.entry[s]}
    IN  [entry |-> Restrict(new, changed) @@ flow.entry, work |-> Front(flow.work) \o SetToSeq(changed)]

\* One visit: the block on top of the worklist.
VisitBlock(code, shape, flow) ==
    LET b == Last(flow.work)
        successors == Successors(shape, BlockEnd(shape, b))
    IN  CHOOSE next \in {Visited(flow, Entered(flow.entry, successors, block.m)) :
                           block \in {FoldBlock(Block(code, shape, b), flow.entry[b])}} : TRUE

HasWork(flow) == flow.work # <<>>

\* The loop over the worklist; when the visits run out, nothing is known.
FlowConstants(code, shape, start) ==
    LET end == Iterate(16 * Cardinality(Leaders(shape)) + 1024, start, HasWork,
                       LAMBDA flow : VisitBlock(code, shape, flow))
    IN  IF HasWork(end) THEN [b \in DOMAIN end.entry |-> <<>>] ELSE end.entry

\* The emitting walk; an unreachable block is folded from no constants at all.
FoldBlocks(code, shape, entry) ==
    Sweep(code, <<>>, LAMBDA out, b :
            IF b \notin Leaders(shape) THEN out
            ELSE out \o FoldBlock(Block(code, shape, b), IF Known(entry, b) THEN entry[b] ELSE <<>>).out)

ConstantFolding(f, shape) ==
    CHOOSE code \in
      {FoldBlocks(f.code, shape, entry) :
          entry \in {FlowConstants(f.code, shape, [entry |-> 1 :> <<>>, work |-> <<1>>])}} : TRUE

-----------------------------------------------------------------------------
\* eliminate_unreachable_code()

\* What the elements of start lead to, one edge at a time, without leaving an
\* element of stops.
Spread(edges, stops, start) ==
    LET Onward(x) ==
          LET next == UNION {edges[i] : i \in x.frontier \ stops} \ x.seen
          IN  [frontier |-> next, seen |-> x.seen \cup next]
    IN  Iterate(Cardinality(DOMAIN edges), [frontier |-> start, seen |-> start],
                LAMBDA x : x.frontier # {}, Onward).seen

ReachableBlocks(shape) ==
    LET successors == [b \in Leaders(shape) |-> Successors(shape, BlockEnd(shape, b))]
    IN  Spread(successors, {}, {1})

EliminateUnreachableCode(f, shape) ==
    Keep(f.code, UNION {b..BlockEnd(shape, b) : b \in ReachableBlocks(shape)})

-----------------------------------------------------------------------------
\* copy_propagation(): constant_regs maps a register to the load it repeats.

\* (A slip: the loads are not forgotten at a label.)
CopyPropagationPastLabels(f) ==
    LET Visit(acc, i) ==
          LET instr == f.code[i]
              live == Drop(acc.loads, Writes(instr))
              copied == instr.op = "MOVE" /\ Known(live, instr.srcs[1])
              load == [live[instr.srcs[1]] EXCEPT !.dst = instr.dst]
              new == IF copied THEN load ELSE instr
          IN  [loads |-> IF new.op \in {"LOAD_IMM", "LOAD_FLOAT_IMM"} THEN Put(live, new.dst, new) ELSE live,
               out |-> Append(acc.out, new)]
    IN  Sweep(f.code, [loads |-> <<>>, out |-> <<>>], Visit).out

CopyPropagation(f) ==
    LET Visit(acc, i) ==
          LET instr == f.code[i]
              at_label == IF instr.op = "LABEL" THEN <<>> ELSE acc.loads
              live == Drop(at_label, Writes(instr))
              copied == instr.op = "MOVE" /\ Known(live, instr.srcs[1])
              load == [live[instr.srcs[1]] EXCEPT !.dst = instr.dst]
              new == IF copied THEN load ELSE instr
          IN  [loads |-> IF new.op \in {"LOAD_IMM", "LOAD_FLOAT_IMM"} THEN Put(live, new.dst, new) ELSE live,
               out |-> Append(acc.out, new)]
    IN  Sweep(f.code, [loads |-> <<>>, out |-> <<>>], Visit).out

\* register_unmodified_between()
Unmodified(code, r, first, last) ==
    \A i \in (first + 1)..(last - 1) : r \notin Writes(code[i]) /\ code[i].op # "LABEL"

\* enhanced_copy_propagation(): copies maps a register to what it is a copy of
\* and where the MOVE stands.
EnhancedCopyPropagation(f) ==
    LET Visit(acc, i) ==
          LET old == f.code[i]
              Source(r) ==
                IF Known(acc.copies, r) /\ Unmodified(f.code, acc.copies[r].src, acc.copies[r].def, i)
                THEN acc.copies[r].src ELSE r
              new == [old EXCEPT !.srcs = [k \in 1..Len(old.srcs) |-> Source(old.srcs[k])]]
              kept == IF old.op \in {"CALL", "AWAIT", "SCOPE_RELEASE"} THEN <<>> ELSE acc.copies
              live == Drop(kept, {r \in DOMAIN kept : {r, kept[r].src} \cap Writes(new) # {}})
          IN  [copies |-> IF new.op = "MOVE" /\ new.dst # new.srcs[1]
                          THEN Put(live, new.dst, [src |-> new.srcs[1], def |-> i]) ELSE live,
               out |-> Append(acc.out, new)]
    IN  Sweep(f.code, [copies |-> <<>>, out |-> <<>>], Visit).out

-----------------------------------------------------------------------------
\* loop_invariant_code_motion()

\* identify_loops(): an instruction that names a label at or above itself, a
\* LABEL included, closes a loop; the first to do so fixes where it ends.
Loops(f, shape) ==
    LET At(l) == CHOOSE j \in Indices(shape) : shape[j].op = "LABEL" /\ shape[j].lbls = <<l>>
        BackEdges == {i \in Indices(f.code) : \E l \in SeqElems(f.code[i].lbls) : At(l) <= i}
        Header(i) == CHOOSE j \in Indices(shape) : \E l \in SeqElems(f.code[i].lbls) : j = At(l) /\ j <= i
        Exits(h, i) == {j \in h..(i - 1) : f.code[j].op \in IR_BRANCH}
        End(h, i) ==
          IF Exits(h, i) = {} THEN i + 1
          ELSE At(Last(f.code[CHOOSE j \in Exits(h, i) : \A k \in Exits(h, i) : j <= k].lbls))
        First(h) == CHOOSE i \in BackEdges : Header(i) = h /\ \A k \in BackEdges : Header(k) = h => i <= k
    IN  {[header |-> h, end |-> End(h, First(h)), label |-> shape[h]] : h \in {Header(i) : i \in BackEdges}}

\* can_safely_hoist() up to its last line.
CanSafelyHoist(code, loop, i) ==
    LET instr == code[i]
        body == loop.header..(loop.end - 1)
    IN  /\ instr.dst # NoReg
        /\ \A k \in body \ {i} : Writes(code[k]) \cap (Reads(instr) \cup {instr.dst}) = {}
        /\ \A k \in loop.header..(i - 1) : instr.dst \notin Reads(code[k])

\* is_unconditional_in_loop(): the labels are those of the analysis.
IsUnconditional(code, shape, loop, i) ==
    LET At(l) == {j \in Indices(shape) : shape[j].op = "LABEL" /\ shape[j].lbls = <<l>>}
        Leaves(k) == \E j \in At(Last(code[k].lbls)) : j \notin loop.header..(loop.end - 1)
    IN  \A k \in (loop.header + 1)..(i - 1) :
          /\ code[k].op \notin IR_LABEL \cup IR_TERMINATOR
          /\ code[k].op \in IR_BRANCH => Leaves(k)

\* is_loop_invariant() for the scalar opcodes, inputs being the registers that
\* are known not to change.
IsLoopInvariant(code, loop, inputs, i) ==
    LET instr == code[i]
        body == loop.header..(loop.end - 1)
    IN  \/ instr.op \in {"LOAD_IMM", "LOAD_FLOAT_IMM", "LOAD_BOOL"}
        \/ /\ instr.op = "LOAD_GLOBAL"
           /\ \A k \in body : /\ code[k].op \notin IR_CALL
                              /\ ~(code[k].op = "STORE_GLOBAL" /\ code[k].imm = instr.imm)
        \/ instr.op = "MOVE" /\ instr.srcs[1] \in inputs

\* The loops are found once; each is then hoisted from in the code as it is.
\* Whether an instruction is unconditional is the last thing asked of it: a loop
\* with no candidate leaves the analysis alone.
LoopInvariantCodeMotion(f, fn, analysis) ==
    LET RECURSIVE Invariants(_, _, _)
        found == Analysis(analysis, fn, f.code)
        loops == Loops(f, found.code)
        Nested(l) == \E o \in loops : l.header > o.header /\ l.header < o.end
        Fixed(code, l, S) ==
          (0..(f.params - 1)) \cup UNION {Writes(code[i]) : i \in S \cup 1..(l.header - 1)}
        Candidates(code, l, S) ==
          {i \in (l.header + 1)..(l.end - 1) : /\ ~IsControlFlow(code[i].op)
                                              /\ IsLoopInvariant(code, l, Fixed(code, l, S), i)
                                              /\ CanSafelyHoist(code, l, i)}
        Round(x, l, S) ==
          S \cup {i \in Candidates(x.code, l, S) :
                     IsUnconditional(x.code, Analysis(x.analysis, fn, x.code).code, l, i)}
        Invariants(x, l, S) == IF Round(x, l, S) = S THEN S ELSE Invariants(x, l, Round(x, l, S))
        Hoisted(code, l, S) ==
          LET rest == Keep(code, Indices(code) \ S)
              at == CHOOSE j \in Indices(rest) : rest[j] = l.label
          IN  SubSeq(rest, 1, at - 1) \o Keep(code, S) \o SubSeq(rest, at, Len(rest))
        Hoist(x, l) ==
          LET S == Invariants(x, l, {})
              asked == IF Candidates(x.code, l, S) = {} THEN x.analysis
                       ELSE Analysis(x.analysis, fn, x.code)
              y == replace_instructions(x, asked, Hoisted(x.code, l, S))
          IN  IF S = {} THEN [x EXCEPT !.analysis = asked] ELSE [y EXCEPT !.changed = @ \/ x.changed]
        Visit(x, h) ==
          IF \E l \in loops : l.header = h /\ ~Nested(l)
          THEN Hoist(x, CHOOSE l \in loops : l.header = h)
          ELSE x
    IN  Sweep(f.code, After(f.code, FALSE, found), Visit)

-----------------------------------------------------------------------------
\* peephole_optimization().  A pattern says how many instructions it consumes
\* at position i (none: it does not match) and what replaces them.

Match(n, out) == [n |-> n, out |-> out]
NoMatch == Match(0, <<>>)

Is(code, i, ops) == i <= Len(code) /\ code[i].op \in ops

Inverted == [CMP_EQ |-> "BRANCH_NEQ", CMP_NEQ |-> "BRANCH_EQ",
             CMP_LT |-> "BRANCH_GTE", CMP_GTE |-> "BRANCH_LT"]
Direct == [CMP_EQ |-> "BRANCH_EQ", CMP_NEQ |-> "BRANCH_NEQ",
           CMP_LT |-> "BRANCH_LT", CMP_GTE |-> "BRANCH_GTE"]

FuseCompareAndBranch(code, i) ==
    LET cmp == code[i]
        branch == code[i + 1]
        op == IF branch.op = "BRANCH_ZERO" THEN Inverted[cmp.op] ELSE Direct[cmp.op]
    IN  IF /\ Is(code, i, IR_COMPARISON)
           /\ Is(code, i + 1, {"BRANCH_ZERO", "BRANCH_NOT_ZERO"})
           /\ branch.srcs = <<cmp.dst>>
           /\ ~ReadOutside(code, cmp.dst, i, i + 1)
        THEN Match(2, <<Hinted(Instr(op, NoReg, cmp.srcs, 0, branch.lbls), cmp.hint)>>)
        ELSE NoMatch

\* Patterns A, B, C and E of try_eliminate_moves_around_op(); in each the moved
\* registers are read nowhere else.
MovesAroundOp(code, i) ==
    LET one == code[i]
        two == code[i + 1]
        three == code[i + 2]
        four == code[i + 3]
        Dead(r, last) == ~ReadOutside(code, r, i, last)
        A == /\ Is(code, i + 1, {"MOVE"}) /\ Is(code, i + 2, IR_ARITHMETIC) /\ Is(code, i + 3, {"MOVE"})
             /\ three.srcs = <<one.dst, two.dst>> /\ four.srcs = <<three.dst>>
             /\ Dead(one.dst, i + 3) /\ Dead(two.dst, i + 3) /\ Dead(three.dst, i + 3)
             /\ two.dst # one.srcs[1] /\ three.dst \notin {one.srcs[1], two.srcs[1]}
        BC(k) == /\ Is(code, i + 1, IR_ARITHMETIC) /\ Is(code, i + 2, {"MOVE"})
                 /\ two.srcs[k] = one.dst /\ three.srcs = <<two.dst>>
                 /\ Dead(one.dst, i + 2) /\ Dead(two.dst, i + 2)
                 /\ two.dst # one.srcs[1]
        E == /\ Is(code, i + 1, {"LOAD_IMM", "LOAD_FLOAT_IMM"})
             /\ Is(code, i + 2, IR_ARITHMETIC) /\ Is(code, i + 3, {"MOVE"})
             /\ three.srcs = <<one.dst, two.dst>> /\ four.srcs = <<three.dst>>
             /\ one.srcs[1] = four.dst
             /\ Dead(one.dst, i + 3) /\ Dead(three.dst, i + 3)
    IN  IF ~Is(code, i, {"MOVE"}) THEN NoMatch
        ELSE IF one.srcs = <<one.dst>> THEN Match(1, <<>>)
        ELSE IF A THEN Match(4, <<[three EXCEPT !.dst = four.dst, !.srcs = one.srcs \o two.srcs]>>)
        ELSE IF BC(1) THEN Match(3, <<[two EXCEPT !.dst = three.dst, !.srcs[1] = one.srcs[1]]>>)
        ELSE IF BC(2) THEN Match(3, <<[two EXCEPT !.dst = three.dst, !.srcs[2] = one.srcs[1]]>>)
        ELSE IF E THEN Match(4, <<two, [three EXCEPT !.dst = four.dst, !.srcs[1] = one.srcs[1]]>>)
        ELSE NoMatch

EliminateMovePair(code, i) ==
    LET one == code[i]
        two == code[i + 1]
    IN  IF /\ Is(code, i, {"MOVE"}) /\ Is(code, i + 1, {"MOVE"})
           /\ <<one.dst>> = two.srcs /\ one.srcs = <<two.dst>> /\ one.dst # two.dst
           /\ ~ReadOutside(code, one.dst, i, i + 1)
        THEN Match(2, <<>>)
        ELSE NoMatch

FoldMoveAfterOp(code, i) ==
    LET op == code[i]
        move == code[i + 1]
    IN  IF /\ op.dst # NoReg /\ op.op \notin InoutOps /\ Is(code, i + 1, {"MOVE"})
           /\ move.srcs = <<op.dst>> /\ move.dst \notin Reads(op)
           /\ ~ReadOutside(code, op.dst, i, i + 1)
        THEN Match(2, <<[op EXCEPT !.dst = move.dst]>>)
        ELSE NoMatch

\* Only labels between the branch and its target.
RemoveBranchToNext(code, i) ==
    IF /\ Is(code, i, (IR_BRANCH \ {"SWITCH"}) \cup {"JUMP"})
       /\ \E j \in Targets(code, i) : j > i /\ \A k \in (i + 1)..j : code[k].op \in IR_LABEL
    THEN Match(1, <<>>)
    ELSE NoMatch

Patterns(code, i) ==
    <<FuseCompareAndBranch(code, i), MovesAroundOp(code, i), EliminateMovePair(code, i),
      FoldMoveAfterOp(code, i), RemoveBranchToNext(code, i)>>

\* The first pattern that matches; otherwise the instruction stays.
FirstMatch(tried, instr) ==
    LET hits == {k \in DOMAIN tried : tried[k] # NoMatch}
    IN  IF hits = {} THEN Match(1, <<instr>>) ELSE tried[Min(hits)]

Replaced(acc, i, match) == [next |-> i + match.n, out |-> acc.out \o match.out]

Peephole(f) ==
    Sweep(f.code, [next |-> 1, out |-> <<>>],
          LAMBDA acc, i : IF i < acc.next THEN acc
                          ELSE Replaced(acc, i, FirstMatch(Patterns(f.code, i), f.code[i]))).out

-----------------------------------------------------------------------------
\* eliminate_redundant_stores(): pending maps a register to where the simple
\* load that defines it, and is held back, stands.

\* flush_pending(): in program order.
Flushed(code, pending) == Keep(code, {pending[r] : r \in DOMAIN pending})

\* The same load of the same thing: a NaN is not equal to itself.
IdenticalLoad(a, b) ==
    /\ a.op = b.op /\ a.imm = b.imm /\ a.srcs = b.srcs
    /\ ~(a.op = "LOAD_FLOAT_IMM" /\ a.imm = NaN)

EliminateRedundantStores(f) ==
    LET Visit(acc, i) ==
          LET instr == f.code[i]
              flush == ~IsPure(instr.op) \/ Reads(instr) \cap DOMAIN acc.pending # {}
              pending == IF flush THEN <<>> ELSE acc.pending
              out == IF flush THEN acc.out \o Flushed(f.code, acc.pending) ELSE acc.out
              repeated == /\ Known(pending, instr.dst)
                          /\ IdenticalLoad(f.code[pending[instr.dst]], instr)
          IN  IF instr.op \in IR_SIMPLE_LOAD
              THEN [pending |-> IF repeated THEN pending ELSE Put(pending, instr.dst, i), out |-> out]
              ELSE [pending |-> Drop(pending, Writes(instr)), out |-> Append(out, instr)]
        end == Sweep(f.code, [pending |-> <<>>, out |-> <<>>], Visit)
    IN  end.out \o Flushed(f.code, end.pending)

-----------------------------------------------------------------------------
\* eliminate_dead_code()

\* How often each register is read.
UseCount(code) ==
    LET Count(acc, i) ==
          LET reads == ReadSeq(code[i])
          IN  Sweep(reads, acc, LAMBDA n, k : Put(n, reads[k], 1 + IF Known(n, reads[k]) THEN n[reads[k]] ELSE 0))
    IN  Sweep(code, <<>>, Count)

\* (A slip: an instruction is looked at once.)
RequeuesNothing(code, freed, deleted) == <<>>

\* The definitions, in the code left, of the registers nothing reads any more.
Requeued(code, freed, deleted) ==
    Keep([k \in Indices(code) |-> k], {k \in Indices(code) \ deleted : code[k].dst \in freed})

\* The top of the worklist: it is deleted, or stays.  work is a sequence of
\* positions (the last is next), uses the reads that are left.
LookAt(code, x) ==
    LET i == Last(x.work)
        dst == code[i].dst
        reads == ReadSeq(code[i])
        left == Sweep(reads, x.uses, LAMBDA n, k : [n EXCEPT ![reads[k]] = @ - 1])
        freed == {r \in SeqElems(reads) : left[r] = 0}
        deleted == x.deleted \cup {i}
    IN  IF i \in x.deleted \/ dst = NoReg \/ ~IsPure(code[i].op) \/ (Known(x.uses, dst) /\ x.uses[dst] # 0)
        THEN [x EXCEPT !.work = Front(@)]
        ELSE [work |-> Front(x.work) \o Requeued(code, freed, deleted), uses |-> left, deleted |-> deleted]

\* A deletion, and there is at most one for each instruction, requeues at most
\* the whole code: the loop ends within the bound.
DeadFrom(code, work, uses) ==
    Iterate((Len(code) + 1) * (Len(code) + 1), [work |-> work, uses |-> uses, deleted |-> {}],
            HasWork, LAMBDA x : LookAt(code, x)).deleted

EliminateDeadCode(f, analysis) ==
    LET all  == [i \in Indices(f.code) |-> Len(f.code) + 1 - i]
        dead == DeadFrom(f.code, all, UseCount(f.code))
    IN  IF dead = {} THEN After(f.code, FALSE, analysis)
        ELSE After(Keep(f.code, Indices(f.code) \ dead), TRUE, invalidate_analysis(analysis))

-----------------------------------------------------------------------------
\* reduce_register_pressure()

\* The registers an instruction names, in operand order.
RegisterOperands(instr) == IF instr.dst = NoReg THEN instr.srcs ELSE <<instr.dst>> \o instr.srcs

RegisterMap(f) ==
    LET pinned == 0..(IF f.params = 0 THEN 0 ELSE f.params - 1)
        Number(m, r) == IF Known(m, r) THEN m ELSE Put(m, r, Cardinality(DOMAIN m))
        Visit(acc, i) ==
          LET regs == RegisterOperands(f.code[i]) IN Sweep(regs, acc, LAMBDA m, k : Number(m, regs[k]))
    IN  Sweep(f.code, [r \in pinned |-> r], Visit)

ReduceRegisterPressure(f, analysis) ==
    LET m == RegisterMap(f)
        changed == \E i \in Indices(f.code) : \E r \in SeqElems(RegisterOperands(f.code[i])) : m[r] # r
        Renamed(instr) ==
          [instr EXCEPT !.dst = IF @ = NoReg THEN NoReg ELSE m[@],
                        !.srcs = [k \in 1..Len(instr.srcs) |-> m[instr.srcs[k]]]]
    IN  After([i \in Indices(f.code) |-> Renamed(f.code[i])], changed,
               IF changed THEN invalidate_analysis(analysis) ELSE analysis)

-----------------------------------------------------------------------------

\* tighten_scope_marks(): every mark, first to last, in the code as it is then.
TightenMarks(f, analysis) ==
    LET Visit(x, i) ==
          LET to == {l \in Indices(x.code) : SlidesTo(x.code, i, l)}
          IN  IF to = {} THEN x
              ELSE After(SlideDown(x.code, i, CHOOSE l \in to : TRUE), TRUE,
                          invalidate_analysis(x.analysis))
    IN  Sweep(f.code, After(f.code, FALSE, analysis), Visit)

\* IROptimizer::pipeline(), without scalar replacement.
Pipeline ==
    <<"constant-folding", "unreachable-code", "copy-propagation", "enhanced-copy-propagation",
      "licm", "peephole", "peephole", "redundant-stores", "peephole", "dead-code",
      "compact-registers", "scope-marks">>

PassNames == SeqElems(Pipeline)

\* Function fn is f.
RunPass(name, f, fn, analysis) ==
    LET shared == Analysis(analysis, fn, f.code)
        Fresh(code) == replace_instructions(f, analysis, code)
    IN  CASE f.code = <<>> -> After(<<>>, FALSE, analysis)
          [] name = "constant-folding" ->
               replace_instructions(f, shared, ConstantFolding(f, shared.code))
          [] name = "unreachable-code" ->
               replace_instructions(f, shared, EliminateUnreachableCode(f, shared.code))
          [] name = "copy-propagation" -> Fresh(CopyPropagation(f))
          [] name = "enhanced-copy-propagation" -> Fresh(EnhancedCopyPropagation(f))
          [] name = "licm" -> LoopInvariantCodeMotion(f, fn, analysis)
          [] name = "peephole" -> Fresh(Peephole(f))
          [] name = "redundant-stores" -> Fresh(EliminateRedundantStores(f))
          [] name = "dead-code" -> EliminateDeadCode(f, analysis)
          [] name = "compact-registers" -> ReduceRegisterPressure(f, analysis)
          [] name = "scope-marks" -> TightenMarks(f, analysis)

=============================================================================
