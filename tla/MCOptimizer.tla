----------------------------- MODULE MCOptimizer -----------------------------
(***************************************************************************)
(* Small programs in the form codegen emits them: a variable is read       *)
(* through a MOVE into a fresh temporary, a result goes to its variable    *)
(* through a MOVE, and the bodies of if and while are scopes.              *)
(*                                                                         *)
(*   func f(a, b):          a is r0, b is r1, the local c is r2            *)
(*       var c = 1                                                         *)
(*       ... one statement, a branch, a loop or two statements ...         *)
(*       return v                                                          *)
(*   func h(x): g = x; return x                                            *)
(***************************************************************************)
EXTENDS Optimizer, MCPrograms

H == Func(<<Move(1, 0), Instr("STORE_GLOBAL", NoReg, <<1>>, 0, <<>>)>> \o Return(0, 2), 1)

\* f alone, or with h when it calls it.
Program(body, x) ==
    LET f == Func(<<Load(2, 1)>> \o body \o Return(x, 20), 2)
    IN  IF \E i \in 1..Len(body) : body[i].op = "CALL" THEN <<f, H>> ELSE <<f>>

CopyStmts(t) == {Assign(2, 0, t), Assign(0, 2, t), Assign(1, 0, t)}

ValueStmts(t) ==
    {AssignInt(0, 2, t), AssignFloat(2, 1, t), AssignOp("ADD", 0, 0, 1, t), AssignOp("MOD", 2, 0, 2, t),
     AssignOpInt("ADD", 2, 2, 3, t), AssignOp("CMP_LT", 2, 0, 2, t),
     AssignConvert("FLOAT", 2, 0, t), AssignConvert("INT", 2, 1, t),
     LoadGlobal(2, t), StoreGlobal(2, t), CallH(0, 2, t)}

Conditions(t) == {Condition("CMP_LT", 0, 2, t), Condition("CMP_EQ", 2, 1, t)}

\* A statement of W, then statements of S: straight-line code, an if, a while.
Straight(W, S(_)) == {w \o x \o y : w \in W, x \in S(6), y \in S(9)}
Branches(W, S(_)) == {w \o If(c, 6, x, y) : w \in W, c \in Conditions(6), x \in S(9), y \in S(12)}
LoopsOf(W, S(_)) ==
    {w \o While(Condition("CMP_LT", 0, 1, 6), 6, Condition("CMP_LT", 0, 1, 9), 9, x \o y) :
        w \in W, x \in S(12), y \in S(15)}

Bodies(W, S(_)) == Straight(W, S) \cup Branches(W, S) \cup LoopsOf(W, S)

Work(bodies, passes) == {[program |-> Program(b, 2), enabled |-> passes] : b \in bodies}

First == {AssignInt(0, 2, 3), AssignOp("ADD", 0, 0, 1, 3), LoadGlobal(2, 3)}

\* Every pass, on programs that do not copy a variable to a variable; every pass
\* but one on programs that do.
MCJobs ==
    Work(Bodies(First, ValueStmts), PassNames)
      \cup Work(Bodies(First \cup {Assign(2, 0, 3)}, LAMBDA t : CopyStmts(t) \cup ValueStmts(t)),
                PassNames \ {"redundant-stores"})

\*   c = a; a = b op b: a variable is kept in another before it is assigned to.
StoreJobs ==
    Work({Assign(2, 0, 3) \o AssignOp(op, 0, 1, 1, 6) : op \in {"ADD", "MOD", "CMP_LT"}}, PassNames)

\* An if or while whose comparison may have a NaN on one side.
NaNJobs ==
    Work(Branches({AssignInt(1, 2, 3)}, LAMBDA t : {AssignInt(2, 2, t), AssignInt(2, 3, t)}), PassNames)

\*   a = true; b = 1.0; c = a + b
BoolJobs ==
    Work({AssignBool(0, n, 3) \o AssignFloat(1, 1, 6) \o AssignOp("ADD", 2, 0, 1, 9) : n \in {0, 1}},
         PassNames)

MCIntMax == 3
MCMAX_STEPS == 60
MCMAX_CALL_DEPTH == 3
MCGlobals == 0 :> IntValue(1)

Whole ==
    {<<IntValue(m), IntValue(n)>> : m, n \in {1, 3}}
      \cup {<<FloatValue(1), IntValue(-4)>>, <<IntValue(2), NilValue>>}
NotANumber == {<<FloatValue(NaN), IntValue(1)>>}

=============================================================================
