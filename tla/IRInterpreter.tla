---------------------------- MODULE IRInterpreter ----------------------------
(***************************************************************************)
(* What a program computes: IRInterpreter (ir_interpreter.cpp), the        *)
(* reference the optimizer's tests compare every pass against.             *)
(*                                                                         *)
(* A program is a sequence of IR functions that share the globals; a CALL  *)
(* names its callee by position (imm).  A value is a type and a number: a  *)
(* bool is 0 or 1, a float is a whole number or NaN, an int wraps at the   *)
(* width IntMax stands for (64 bits in the code).                          *)
(***************************************************************************)
EXTENDS IR, Iteration, TLC

CONSTANTS
    IntMax,         \* INT64_MAX
    MAX_STEPS,      \* instructions one activation may execute
    MAX_CALL_DEPTH  \* nested activations

\* The code of the float that is not a number; no other value has it.
NaN == 1000

ASSUME InterpreterAssumption ==
    IntMax \in 1..(NaN - 1) /\ MAX_STEPS \in Nat /\ MAX_CALL_DEPTH \in Nat

IntMin == -IntMax - 1

NilValue == [type |-> "NIL", v |-> 0]
IntValue(n) == [type |-> "INT", v |-> n]
BoolValue(b) == [type |-> "BOOL", v |-> IF b THEN 1 ELSE 0]
FloatValue(n) == [type |-> "FLOAT", v |-> n]

IsNil(x) == x.type = "NIL"
IsFloat(x) == x.type = "FLOAT"
IsNaN(x) == IsFloat(x) /\ x.v = NaN

\* get_bool(): NaN is true.
Truth(x) == x.v # 0

\* Arithmetic on uint64_t, read back as int64_t.
Wrap(n) == ((n - IntMin) % (2 * (IntMax + 1))) + IntMin

\* C++ remainder: it has the sign of the dividend.
Remainder(a, b) ==
    LET m == IF b < 0 THEN -b ELSE b
    IN  IF a < 0 THEN -((-a) % m) ELSE a % m

\* binary_op()
BinaryOp(op, x, y) ==
    IF IsFloat(x) \/ IsFloat(y)
    THEN FloatValue(IF IsNaN(x) \/ IsNaN(y) \/ (op = "MOD" /\ y.v = 0) THEN NaN
                    ELSE IF op = "ADD" THEN x.v + y.v ELSE Remainder(x.v, y.v))
    ELSE IntValue(IF op = "ADD" THEN Wrap(x.v + y.v)
                  ELSE IF y.v = 0 THEN 0 ELSE Remainder(x.v, y.v))

\* compare_op(): null equals null only, and with a NaN every comparison but != is
\* false.
Holds(op, x, y) ==
    LET ordered == ~IsNaN(x) /\ ~IsNaN(y)
        equal == ordered /\ x.v = y.v /\ (IsNil(x) <=> IsNil(y))
    IN  CASE op = "CMP_EQ" -> equal
          [] op = "CMP_NEQ" -> ~equal
          [] op = "CMP_LT" -> ordered /\ x.v < y.v
          [] op = "CMP_GTE" -> ordered /\ x.v >= y.v

\* The comparison a fused branch makes, as fused_branch_taken() maps it.
FusedComparison ==
    [BRANCH_EQ |-> "CMP_EQ", BRANCH_NEQ |-> "CMP_NEQ",
     BRANCH_LT |-> "CMP_LT", BRANCH_GTE |-> "CMP_GTE"]

\* CONVERT.  A float has no fraction to lose; one that no int can hold becomes
\* the least int (static_cast leaves it open, x86-64 does this).
Convert(hint, x) ==
    IF hint = "INT" /\ x.v \notin IntMin..IntMax THEN IntValue(IntMin) ELSE [type |-> hint, v |-> x.v]

\* The value a LOAD_IMM, LOAD_FLOAT_IMM or LOAD_BOOL loads.
Immediate(instr) ==
    CASE instr.op = "LOAD_IMM" -> IntValue(instr.imm)
      [] instr.op = "LOAD_FLOAT_IMM" -> FloatValue(instr.imm)
      [] instr.op = "LOAD_BOOL" -> BoolValue(instr.imm # 0)

-----------------------------------------------------------------------------
\* execute_instruction() for an instruction that is neither CALL nor RETURN.

\* What the instruction writes to its destination.
Result(instr, regs, globals) ==
    LET Arg(k) == regs[instr.srcs[k]]
    IN  CASE instr.op \in {"LOAD_IMM", "LOAD_FLOAT_IMM", "LOAD_BOOL"} -> Immediate(instr)
          [] instr.op = "MOVE" -> Arg(1)
          [] instr.op = "CONVERT" -> Convert(instr.hint, Arg(1))
          [] instr.op = "LOAD_GLOBAL" -> globals[instr.imm]
          [] instr.op \in {"ADD", "MOD"} -> BinaryOp(instr.op, Arg(1), Arg(2))
          [] instr.op \in IR_COMPARISON ->
               IntValue(IF Holds(instr.op, Arg(1), Arg(2)) THEN 1 ELSE 0)

\* Null has no place in an order, and CONVERT knows the two types of numbers.
Throws(instr, regs) ==
    \/ /\ instr.op \in {"CMP_LT", "CMP_GTE", "BRANCH_LT", "BRANCH_GTE"}
       /\ \E r \in SeqElems(instr.srcs) : IsNil(regs[r])
    \/ instr.op = "CONVERT" /\ instr.hint \notin {"INT", "FLOAT"}

\* Whether control goes to the instruction's label.
Jumps(instr, regs) ==
    LET Arg(k) == regs[instr.srcs[k]]
    IN  \/ instr.op = "JUMP"
        \/ instr.op = "BRANCH_ZERO" /\ ~Truth(Arg(1))
        \/ instr.op = "BRANCH_NOT_ZERO" /\ Truth(Arg(1))
        \/ /\ instr.op \in DOMAIN FusedComparison
           /\ Holds(FusedComparison[instr.op], Arg(1), Arg(2))

Execute(code, c) ==
    LET instr == code[c.pc]
    IN  [c EXCEPT
           !.regs = IF instr.dst = NoReg THEN @
                    ELSE [@ EXCEPT ![instr.dst] = Result(instr, c.regs, c.globals)],
           !.globals = IF instr.op # "STORE_GLOBAL" THEN @
                       ELSE [@ EXCEPT ![instr.imm] = c.regs[instr.srcs[1]]],
           !.pc = IF Jumps(instr, c.regs) THEN CHOOSE j \in Targets(code, c.pc) : TRUE ELSE @ + 1,
           !.steps = @ + 1]

-----------------------------------------------------------------------------

\* A call that exceeded a limit, or compared with null, throws; nothing is said about its value.
Thrown == [value |-> NilValue, globals |-> <<>>, threw |-> TRUE]

RECURSIVE Activate(_, _, _, _, _)

Running(c) == c.status = "running"

\* One round of execute_function()'s loop, in state c of an activation of
\* function k; status is what the loop does next.
Step(program, k, depth, c) ==
    LET code == program[k].code
        instr == code[c.pc]
    IN  IF c.pc > Len(code) THEN [c EXCEPT !.status = "fell off"]
        ELSE IF c.steps = MAX_STEPS \/ Throws(instr, c.regs) THEN [c EXCEPT !.status = "threw"]
        ELSE IF instr.op = "RETURN" THEN [c EXCEPT !.status = "returned"]
        ELSE IF instr.op = "CALL"
        THEN LET args == [i \in 1..Len(instr.srcs) |-> c.regs[instr.srcs[i]]]
             IN  CHOOSE after \in
                   {[c EXCEPT !.status = IF r.threw THEN "threw" ELSE @, !.regs[instr.dst] = r.value,
                              !.globals = r.globals, !.pc = @ + 1, !.steps = @ + 1] :
                       r \in {Activate(program, instr.imm, args, c.globals, depth + 1)}} : TRUE
        ELSE Execute(code, c)

\* call() and execute_function(): function k with its arguments in r0, r1, ...
Activate(program, k, args, globals, depth) ==
    LET f == program[k]
        frame == [r \in 0..(Len(args) - 1) |-> args[r + 1]]
                   @@ [r \in 0..(f.max_registers - 1) |-> NilValue]
        end == Iterate(MAX_STEPS + 1,
                       [regs |-> frame, globals |-> globals, pc |-> 1, steps |-> 0, status |-> "running"],
                       Running, LAMBDA c : Step(program, k, depth, c))
        Ended(c) ==
          IF c.status = "threw" THEN Thrown
          ELSE [value |-> IF c.status = "returned" THEN c.regs[RETURN_REGISTER] ELSE NilValue,
                globals |-> c.globals, threw |-> FALSE]
    IN  IF depth > MAX_CALL_DEPTH THEN Thrown ELSE CHOOSE r \in {Ended(c) : c \in {end}} : TRUE

\* The program's first function is called on freshly initialized globals.
Outcome(program, args, globals) == Activate(program, 1, args, globals, 1)

-----------------------------------------------------------------------------

\* values_equal() of the invariance test: int and bool are one category, and
\* a NaN equals a NaN.
SameValue(x, y) ==
    x.v = y.v /\ (x.type = y.type \/ {x.type, y.type} \subseteq {"INT", "BOOL"})

SameOutcome(a, b) ==
    /\ a.threw = b.threw
    /\ SameValue(a.value, b.value)
    /\ \A g \in DOMAIN a.globals : SameValue(a.globals[g], b.globals[g])

=============================================================================
