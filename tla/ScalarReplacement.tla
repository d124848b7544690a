-------------------------- MODULE ScalarReplacement --------------------------
(***************************************************************************)
(* IROptimizer::scalar_replace_structs(): a struct instance that does not  *)
(* escape is replaced by one register for each of its fields.  One step is *)
(* one replacement, after which the code looks for the next from the top.  *)
(*                                                                         *)
(* MAKE_DICTIONARY_KEYED has the values of the fields as sources; the key  *)
(* of a field is its position.  DICT_GET_CONST has the instance as source, *)
(* DICT_SET_CONST the instance and the value, and both the key as imm.     *)
(* What these do is the host's: an instance is a reference into a heap.    *)
(***************************************************************************)
EXTENDS IRVerify

CONSTANTS
    Sources,  \* the functions codegen may hand over
    Inputs    \* the argument sequences they are called with

VARIABLES
    func,       \* the function being optimized
    phase,      \* "replacing", then "done"
    source,     \* history: the function before the pass
    expected    \* history: its outcome for each input

vars == <<func, phase, source, expected>>

IsMake(instr) == instr.op = "MAKE_DICTIONARY_KEYED"
IsGet(instr) == instr.op = "DICT_GET_CONST"
IsSet(instr) == instr.op = "DICT_SET_CONST"

MoveTo(dst, src) == Instr("MOVE", dst, <<src>>, 0, <<>>)

\* The instance that a read or a write of a field is about.
Instance(instr) == instr.srcs[1]

FieldOp(instr, make) == (IsGet(instr) \/ IsSet(instr)) /\ instr.imm \in DOMAIN make.srcs

-----------------------------------------------------------------------------
\* The rule for instances that are never written to, over the whole function.

\* Every register the instance may be copied to.
Aliases(code, root) ==
    LET registers == UNION {Reads(code[i]) \cup Writes(code[i]) : i \in Indices(code)}
        copies == [r \in registers |->
                     {code[i].dst : i \in {j \in Indices(code) :
                                             code[j].op = "MOVE" /\ code[j].srcs = <<r>>}}]
    IN  Spread(copies, {}, {root})

Definitions(f, r) ==
    Cardinality({i \in Indices(f.code) : r \in Writes(f.code[i])}) + (IF r < f.params THEN 1 ELSE 0)

DefinedOnce(f, aliases) == \A r \in aliases : Definitions(f, r) = 1

\* (Slip: only copies out of the aliases are looked for.)
OnlyCopied(f, make, aliases) ==
    \A i \in Indices(f.code) : f.code[i].op = "MOVE" /\ Reads(f.code[i]) \cap aliases # {} =>
        f.code[i].dst \in aliases

\* The aliases are copied to each other and read by field, and nothing else.
OnlyRead(f, make, aliases) ==
    \A i \in Indices(f.code) : Reads(f.code[i]) \cap aliases # {} =>
        \/ f.code[i].op = "MOVE" /\ f.code[i].dst \in aliases
        \/ IsGet(f.code[i]) /\ f.code[i].imm \in DOMAIN make.srcs

ImmutableSafe(f, make) ==
    LET aliases == Aliases(f.code, make.dst)
    IN  /\ RETURN_REGISTER \notin aliases
        /\ DefinedOnce(f, aliases)
        /\ OnlyRead(f, make, aliases)

-----------------------------------------------------------------------------
\* The rule for instances that are written to, in straight-line code.

\* What an instruction after the MAKE does to "x", the aliases so far and
\* whether all was safe.
StraightLine(x, instr, make) ==
    LET reads == Reads(instr) \cap x.aliases # {}
        writes == Writes(instr) \cap x.aliases # {}
    IN  IF IsControlFlow(instr.op)
        THEN [x EXCEPT !.safe = @ /\ instr.op = "RETURN" /\ ~reads]
        ELSE IF instr.op = "MOVE" /\ reads
        THEN [safe |-> x.safe /\ instr.dst # RETURN_REGISTER, aliases |-> x.aliases \cup {instr.dst}]
        ELSE IF FieldOp(instr, make) /\ Instance(instr) \in x.aliases
        THEN x
        ELSE [x EXCEPT !.safe = @ /\ ~reads /\ ~writes]

StraightLineSafe(f, at) ==
    ForEach(at + 1, Len(f.code), [safe |-> TRUE, aliases |-> {f.code[at].dst}],
            LAMBDA x, i : StraightLine(x, f.code[i], f.code[at])).safe

-----------------------------------------------------------------------------

Replaceable(f, at) ==
    /\ IsMake(f.code[at]) /\ f.code[at].dst # RETURN_REGISTER
    /\ ImmutableSafe(f, f.code[at]) \/ StraightLineSafe(f, at)

NextRegister(f) ==
    Max({f.max_registers} \cup {r + 1 : r \in UNION {Reads(f.code[i]) \cup Writes(f.code[i]) :
                                                        i \in Indices(f.code)}})

\* (Slip: a field shares the register it was initialized from.)
FieldOfSource(f, make, key) == make.srcs[key]

\* The register that holds a snapshot of the field.
Field(f, make, key) == NextRegister(f) + key - 1

\* An instruction after the MAKE, rewritten.
Rewrite(x, f, instr, make) ==
    IF instr.op = "MOVE" /\ instr.srcs[1] \in x.aliases
    THEN [x EXCEPT !.aliases = @ \cup {instr.dst}]
    ELSE IF IsGet(instr) /\ Instance(instr) \in x.aliases
    THEN [x EXCEPT !.out = Append(@, MoveTo(instr.dst, Field(f, make, instr.imm)))]
    ELSE IF IsSet(instr) /\ Instance(instr) \in x.aliases
    THEN [x EXCEPT !.out = Append(@, MoveTo(Field(f, make, instr.imm), instr.srcs[2]))]
    ELSE [x EXCEPT !.out = Append(@, instr)]

Snapshots(f, make) == [k \in DOMAIN make.srcs |-> MoveTo(Field(f, make, k), make.srcs[k])]

\* The code before the MAKE, and the snapshots in its place.
UpToMake(f, at) == SubSeq(f.code, 1, at - 1) \o Snapshots(f, f.code[at])

FrameWithFields(f, make) == NextRegister(f) + Len(make.srcs)

ScalarReplaced(f, at) ==
    LET make == f.code[at]
        aliases == IF ImmutableSafe(f, make) THEN Aliases(f.code, make.dst) ELSE {make.dst}
        start == [aliases |-> aliases, out |-> UpToMake(f, at)]
    IN  [f EXCEPT !.code = ForEach(at + 1, Len(f.code), start,
                                   LAMBDA x, i : Rewrite(x, f, f.code[i], make)).out,
                  !.max_registers = FrameWithFields(f, make)]

-----------------------------------------------------------------------------
\* What a function computes.  The host's dictionaries are a heap; a CALL is to
\* a function that writes the first field of the instance it is given.

DictValue(id) == [type |-> "DICTIONARY", v |-> id]
IsDict(x) == x.type = "DICTIONARY"

HostStep(code, c) ==
    LET instr == code[c.pc]
        Arg(k) == c.regs[instr.srcs[k]]
        next == [c EXCEPT !.pc = @ + 1, !.steps = @ + 1]
        Stored(key, value) == IF IsDict(Arg(1)) THEN [c.heap EXCEPT ![Arg(1).v][key] = value] ELSE c.heap
    IN  CASE IsMake(instr) ->
               [next EXCEPT !.heap = Append(@, [k \in DOMAIN instr.srcs |-> Arg(k)]),
                            !.regs[instr.dst] = DictValue(Len(c.heap) + 1)]
          [] IsGet(instr) ->
               [next EXCEPT !.regs[instr.dst] = IF IsDict(Arg(1)) THEN c.heap[Arg(1).v][instr.imm]
                                                ELSE NilValue]
          [] IsSet(instr) -> [next EXCEPT !.heap = Stored(instr.imm, Arg(2))]
          [] instr.op = "CALL" ->
               [next EXCEPT !.heap = Stored(1, IntValue(IntMax)), !.regs[instr.dst] = NilValue]
          [] instr.op = "RETURN" -> [c EXCEPT !.status = "returned"]
          [] OTHER -> Execute(code, c)

HostOutcome(f, args) ==
    LET frame == [r \in 0..(Len(args) - 1) |-> args[r + 1]]
                   @@ [r \in 0..(f.max_registers - 1) |-> NilValue]
    IN  Iterate(MAX_STEPS, [regs |-> frame, globals |-> <<>>, heap |-> <<>>, pc |-> 1, steps |-> 0,
                            status |-> "running"],
                Running, LAMBDA c : HostStep(f.code, c))

RECURSIVE SameContents(_, _, _, _, _)

\* The same value, or instances whose fields are the same, to a depth.
SameContents(x, h, y, g, depth) ==
    /\ x.type = y.type
    /\ IF IsDict(x) /\ depth > 0
       THEN \A k \in DOMAIN h[x.v] : SameContents(h[x.v][k], h, g[y.v][k], g, depth - 1)
       ELSE IsDict(x) \/ x.v = y.v

SameOutcomes(c, d) ==
    /\ c.status = d.status
    /\ c.status = "returned" =>
         SameContents(c.regs[RETURN_REGISTER], c.heap, d.regs[RETURN_REGISTER], d.heap, 3)

-----------------------------------------------------------------------------

Init ==
    /\ source \in Sources
    /\ func = source
    /\ phase = "replacing"
    /\ expected = [args \in Inputs |-> HostOutcome(source, args)]

Candidates == {i \in Indices(func.code) : Replaceable(func, i)}

ReplaceOne ==
    /\ phase = "replacing" /\ Candidates # {}
    /\ \E at \in {Min(Candidates)} : func' = ScalarReplaced(func, at)
    /\ UNCHANGED <<phase, source, expected>>

Finish ==
    /\ phase = "replacing" /\ Candidates = {}
    /\ phase' = "done"
    /\ UNCHANGED <<func, source, expected>>

Finished == phase = "done" /\ UNCHANGED vars

Next == ReplaceOne \/ Finish \/ Finished

Spec == Init /\ [][Next]_vars

-----------------------------------------------------------------------------

\* After every replacement the function returns what it returned before, for
\* every input: the registers stand for the fields through aliases, nested
\* instances, branches, loops and writes made by callees.
FieldsAreExact ==
    \A args \in Inputs : SameOutcomes(expected[args], HostOutcome(func, args))

\* "Replace a non-escaping struct Dictionary with snapshots of its fields": what
\* is left verifies, and so no use of the instance that went is left behind.
NoUseLeftBehind == Verified(func)

=============================================================================
