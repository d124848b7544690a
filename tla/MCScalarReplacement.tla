------------------------- MODULE MCScalarReplacement -------------------------
(***************************************************************************)
(*   func f(n):                            n is r0                         *)
(*       var x = 1; var y = 2; var z = 0   x is r1, y is r2, z is r5       *)
(*       var p = S(x, y)                   p is r3                         *)
(*       var q = S(y, p), or q = p         q is r4                         *)
(*       ... two statements, or two under an if, or in a loop ...          *)
(*       return v                                                          *)
(*                                                                         *)
(* with the copies codegen makes, and after enhanced-copy-propagation.     *)
(***************************************************************************)
EXTENDS ScalarReplacement, MCPrograms

Make(d, a, b) == Instr("MAKE_DICTIONARY_KEYED", d, <<a, b>>, 0, <<>>)
Get(d, s, k) == Instr("DICT_GET_CONST", d, <<s>>, k, <<>>)
Set(s, k, v) == Instr("DICT_SET_CONST", NoReg, <<s, v>>, k, <<>>)
CallOn(d, s) == Instr("CALL", d, <<s>>, 2, <<>>)

\* Statements over the temporaries t, t + 1.
Read(x, s, k, t) == <<Move(t, s), Get(t + 1, t, k), Move(x, t + 1)>>
Write(s, k, v, t) == <<Move(t, v), Set(s, k, t)>>
Again(s, t) == <<Move(t, 1), Make(t + 1, t, 2), Move(s, t + 1)>>
Pass(s, t) == <<Move(t, s), CallOn(t + 1, t)>>
Fresh(t) == <<Move(t, 1), Make(t + 1, t, 2), Get(t + 2, t + 1, 1), Move(2, t + 2)>>

\* x and y hold numbers: no instance is stored in a field of itself.
Statements(t) ==
    {Read(1, 3, 1, t), Read(5, 4, 2, t), Read(5, 4, 2, t) \o Read(1, 5, 1, t + 2), Read(4, 3, 2, t),
     Write(3, 1, 2, t), Write(4, 1, 1, t), Write(3, 2, 1, t),
     Assign(4, 3, t), Again(3, t), Pass(3, t), Pass(4, t), Fresh(t), AssignOpInt("ADD", 1, 1, 1, t)}

\* p.b = p, and the same through an alias or a nested instance.
SelfStores(t) == {Write(3, 2, 3, t), Write(4, 2, 3, t)}

Prologues == {<<Load(1, 1), Load(2, 2), Load(5, 0), Make(3, 1, 2), Make(4, 2, 3)>>,
              <<Load(1, 1), Load(2, 2), Load(5, 0), Make(3, 1, 2), Move(4, 3)>>}

Bodies(S(_)) ==
    {a \o b : a \in S(6), b \in S(10)}
      \cup {<<IfZero(0, "else")>> \o a \o <<Jump("end"), Label("else")>> \o b \o <<Label("end")>> :
              a \in S(6), b \in S(10)}
      \cup {While(Condition("CMP_LT", 1, 0, 14), 14, Condition("CMP_LT", 1, 0, 17), 17,
                   a \o b \o AssignOpInt("ADD", 1, 1, 1, 22)) : a \in S(6), b \in S(10)}

Returns == {Return(1, 20), Return(3, 20), Read(5, 4, 2, 25) \o Return(5, 20)}

Written(S(_)) ==
    {[Func(p \o b \o r, 1) EXCEPT !.max_registers = 28] :
        p \in Prologues, b \in Bodies(S), r \in Returns}

Propagated(f) == [f EXCEPT !.code = EnhancedCopyPropagation(f)]

MCIntMax == 7
MCMAX_STEPS == 80
MCMAX_CALL_DEPTH == 1
MCInputs == {<<IntValue(0)>>, <<IntValue(3)>>}
MCSources == UNION {{f, Propagated(f)} : f \in Written(Statements)}
MCSelfStores == {Propagated(f) : f \in Written(SelfStores)}

=============================================================================
