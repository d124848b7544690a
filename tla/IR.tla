--------------------------------- MODULE IR ---------------------------------
(***************************************************************************)
(* The intermediate representation (ir.h, ir.cpp, ir_opcodes.def) that the *)
(* code generator emits and every later stage reads.                       *)
(*                                                                         *)
(* An instruction is a record: its opcode, the register it defines, the    *)
(* source registers in operand order, an immediate (a constant, a global   *)
(* or a scope id), the labels it names, and its three type hints.  The     *)
(* opcode table keeps one representative for each combination of operand   *)
(* roles and effects that some pass or check tells apart.                  *)
(***************************************************************************)
EXTENDS Integers, Sequences

NoReg == -1
NoHint == "NONE"

\* IRFunction::RETURN_REGISTER: a bare RETURN reads it implicitly.
RETURN_REGISTER == 0

-----------------------------------------------------------------------------
\* The effects column of ir_opcodes.def, one set of opcodes per effect bit.

IR_LABEL == {"LABEL"}
IR_BRANCH == {"BRANCH_ZERO", "BRANCH_NOT_ZERO", "BRANCH_EQ", "BRANCH_NEQ", "BRANCH_LT",
              "BRANCH_GTE", "SWITCH"}
IR_TERMINATOR == {"JUMP", "RETURN"}
IR_CALL == {"CALL", "CALL_SYSCALL", "PRINT", "AWAIT"}
IR_COMPARISON == {"CMP_EQ", "CMP_NEQ", "CMP_LT", "CMP_GTE"}
IR_ARITHMETIC == {"ADD", "MOD"} \cup IR_COMPARISON
IR_SIMPLE_LOAD == {"LOAD_IMM", "LOAD_FLOAT_IMM", "LOAD_BOOL", "MOVE"}
IR_SIDE_EFFECTS == IR_LABEL \cup IR_BRANCH \cup IR_TERMINATOR \cup IR_CALL
                     \cup {"STORE_GLOBAL", "SCOPE_MARK", "SCOPE_RELEASE", "VARIANT_SET"}

\* Operand 0 is INOUT: the register is read, modified and written back.
InoutOps == {"VARIANT_SET"}

Opcodes == IR_SIDE_EFFECTS \cup IR_ARITHMETIC \cup IR_SIMPLE_LOAD \cup {"CONVERT", "LOAD_GLOBAL"}

IsControlFlow(op) == op \in IR_LABEL \cup IR_BRANCH \cup IR_TERMINATOR
IsPure(op) == op \notin IR_SIDE_EFFECTS

-----------------------------------------------------------------------------

SeqElems(s) == {s[i] : i \in 1..Len(s)}

Instr(op, dst, srcs, imm, lbls) ==
    [op |-> op, dst |-> dst, srcs |-> srcs, imm |-> imm, lbls |-> lbls,
     hint |-> NoHint, lhs |-> NoHint, rhs |-> NoHint]

\* IRInstruction and IRFunction, for type hints drawn from H.
IRInstruction(H) ==
    {instr \in [op : Opcodes, dst : Nat \cup {NoReg}, srcs : Seq(Nat), imm : Int,
                lbls : Seq(STRING), hint : H, lhs : H, rhs : H] :
        /\ instr.op = "MOVE" => Len(instr.srcs) = 1
        /\ instr.op \in InoutOps => instr.dst # NoReg
        /\ instr.op \in IR_LABEL => Len(instr.lbls) = 1}

IRFunction(H) ==
    [code : Seq(IRInstruction(H)), params : Nat, max_registers : Nat, is_coroutine : BOOLEAN]

Hinted(instr, hint) == [instr EXCEPT !.hint = hint]

\* ir_collect_read_registers().
Reads(instr) ==
    IF instr.op = "RETURN"
    THEN {RETURN_REGISTER}
    ELSE SeqElems(instr.srcs) \cup (IF instr.op \in InoutOps THEN {instr.dst} ELSE {})

\* ir_destination_register().
Writes(instr) == IF instr.dst = NoReg THEN {} ELSE {instr.dst}

-----------------------------------------------------------------------------
\* Basic blocks, as Verifier::build_blocks() cuts them.  A block is named by
\* the index of its first instruction.

Indices(code) == 1..Len(code)

Leaders(code) ==
    {i \in Indices(code) :
        \/ i = 1
        \/ code[i].op \in IR_LABEL
        \/ i > 1 /\ code[i - 1].op \in IR_BRANCH \cup IR_TERMINATOR}

IsLast(code, i) == i = Len(code) \/ (i + 1) \in Leaders(code)

\* Where the labels an instruction names are defined.
Targets(code, i) ==
    {j \in Indices(code) : /\ code[j].op \in IR_LABEL
                           /\ code[i].op \notin IR_LABEL
                           /\ \E l \in SeqElems(code[i].lbls) : l \in SeqElems(code[j].lbls)}

\* The successors of the block that ends with instruction i.
Successors(code, i) ==
    Targets(code, i)
      \cup {j \in {i + 1} : j <= Len(code) /\ code[i].op \notin IR_TERMINATOR}

-----------------------------------------------------------------------------
\* The order a program runs in, independent of the blocks: a jump goes to its
\* label, a branch or switch to a label or the next instruction, RETURN and
\* the end of the code leave the function.
Flow(code, i) ==
    IF code[i].op = "RETURN" THEN {}
    ELSE (IF code[i].op \in IR_BRANCH \cup {"JUMP"} THEN Targets(code, i) ELSE {})
           \cup (IF code[i].op # "JUMP" /\ i < Len(code) THEN {i + 1} ELSE {})

=============================================================================
