------------------------------ MODULE MCPrograms -----------------------------
(* Instructions and statements in the form codegen emits them.               *)
EXTENDS IR

Move(d, s) == Instr("MOVE", d, <<s>>, 0, <<>>)
Load(d, n) == Instr("LOAD_IMM", d, <<>>, n, <<>>)
LoadFloat(d, n) == Instr("LOAD_FLOAT_IMM", d, <<>>, n, <<>>)
LoadBool(d, n) == Instr("LOAD_BOOL", d, <<>>, n, <<>>)
Op(op, d, x, y) == Instr(op, d, <<x, y>>, 0, <<>>)
Label(l) == Instr("LABEL", NoReg, <<>>, 0, <<l>>)
Jump(l) == Instr("JUMP", NoReg, <<>>, 0, <<l>>)
IfZero(r, l) == Instr("BRANCH_ZERO", NoReg, <<r>>, 0, <<l>>)
IfNotZero(r, l) == Instr("BRANCH_NOT_ZERO", NoReg, <<r>>, 0, <<l>>)
Open(s) == Instr("SCOPE_MARK", NoReg, <<>>, s, <<>>)
Close(s) == Instr("SCOPE_RELEASE", NoReg, <<>>, s, <<>>)
Ret == Instr("RETURN", NoReg, <<>>, 0, <<>>)

\* A statement whose temporaries are t, t + 1 and t + 2.
Assign(x, y, t) == <<Move(t, y), Move(x, t)>>
AssignInt(x, n, t) == <<Load(t, n), Move(x, t)>>
AssignFloat(x, n, t) == <<LoadFloat(t, n), Move(x, t)>>
AssignBool(x, n, t) == <<LoadBool(t, n), Move(x, t)>>
AssignOp(op, x, y, z, t) == <<Move(t, y), Move(t + 1, z), Op(op, t + 2, t, t + 1), Move(x, t + 2)>>
AssignOpInt(op, x, y, n, t) == <<Move(t, y), Load(t + 1, n), Op(op, t + 2, t, t + 1), Move(x, t + 2)>>
AssignConvert(hint, x, y, t) ==
    <<Move(t, y), Hinted(Instr("CONVERT", t + 1, <<t>>, 0, <<>>), hint), Move(x, t + 1)>>
StoreGlobal(x, t) == <<Move(t, x), Instr("STORE_GLOBAL", NoReg, <<t>>, 0, <<>>)>>
LoadGlobal(x, t) == <<Instr("LOAD_GLOBAL", t, <<>>, 0, <<>>), Move(x, t)>>
CallH(x, y, t) == <<Move(t, y), Instr("CALL", t + 1, <<t>>, 2, <<>>), Move(x, t + 1)>>

Condition(op, x, y, t) == <<Move(t, x), Move(t + 1, y), Op(op, t + 2, t, t + 1)>>

If(cond, t, then, else) ==
    cond \o <<IfZero(t + 2, "else"), Open(0)>> \o then \o <<Close(0), Jump("end"), Label("else"), Open(1)>>
      \o else \o <<Close(1), Label("end")>>

While(cond, t, again, u, body) ==
    <<Open(0)>> \o cond \o <<IfZero(t + 2, "endloop"), Label("loop")>> \o body
      \o <<Label("continue"), Close(0)>> \o again \o <<IfNotZero(u + 2, "loop"), Label("endloop"), Close(0)>>

Return(x, t) == <<Move(t, x), Move(0, t), Ret>>

Func(code, params) ==
    [code |-> code, params |-> params, max_registers |-> 24, is_coroutine |-> FALSE]

=============================================================================
