---------------------------- MODULE MCDefinedness ----------------------------
(***************************************************************************)
(* Definedness on every function of at most three instructions over two    *)
(* registers and one label, and on a family of longer functions built      *)
(* around a loop with a conditional exit.                                  *)
(***************************************************************************)
EXTENDS Definedness

MCTypes == {"INT", "FLOAT", "BOOL"}

Straight ==
    {Instr("LOAD_IMM", 0, <<>>, 1, <<>>),
     Instr("LOAD_FLOAT_IMM", 1, <<>>, 1, <<>>),
     Instr("LOAD_GLOBAL", 0, <<>>, 0, <<>>),
     Instr("MOVE", 1, <<0>>, 0, <<>>),
     Hinted(Instr("ADD", 0, <<0, 1>>, 0, <<>>), "INT"),
     Hinted(Instr("CONVERT", 1, <<0>>, 0, <<>>), "INT"),
     Instr("VARIANT_SET", 1, <<0>>, 0, <<>>)}

Mark == Instr("LABEL", NoReg, <<>>, 0, <<"a">>)
Back == Instr("JUMP", NoReg, <<>>, 0, <<"a">>)
If(r, l) == Instr("BRANCH_ZERO", NoReg, <<r>>, 0, <<l>>)
Ret == Instr("RETURN", NoReg, <<>>, 0, <<>>)

Control == {Mark, Back, If(0, "a"), Ret}

\* DST is an argument; AWAIT outside a coroutine; no type to convert to; r2.
Ill == {Instr("CALL", 0, <<0>>, 0, <<>>), Instr("AWAIT", 1, <<0>>, 0, <<>>),
        Instr("CONVERT", 1, <<0>>, 0, <<>>), Instr("LOAD_IMM", 2, <<>>, 0, <<>>)}

Func(c, p) == [code |-> c, params |-> p, max_registers |-> 2, is_coroutine |-> FALSE]

Short == UNION {[1..n -> Straight \cup Control] : n \in 1..3}

\* w; a: x; if goto b; y; jump a; b: z; return
Loops ==
    {<<w, Mark, x, If(1, "b"), y, Back, Instr("LABEL", NoReg, <<>>, 0, <<"b">>), z, Ret>> :
        w, x, y, z \in Straight}

MCFunctions ==
    {Func(c, p) : c \in Short, p \in {0, 1}}
      \cup {Func(c, p) : c \in Loops, p \in {0, 1, 2}}
      \cup {Func(<<i>>, 1) : i \in Ill} \cup {Func(<<>>, 1), Func(<<Ret>>, 3)}

-----------------------------------------------------------------------------

\* The reference: every register state that some path of the program, taken
\* instruction by instruction, reaches an instruction with.
PathStates ==
    LET After(S) == UNION {{<<j, Step(Code[s[1]], s[2])>> : j \in Flow(Code, s[1])} : s \in S}
        reach[k \in Nat] ==
          IF k = 0 THEN {<<1, EntryState>>}
          ELSE LET before == reach[k - 1] IN before \cup After(before)
    IN  reach[2 * Len(Code)]

\* The analysis is exact: ir_verify() throws only for an instruction that some
\* path reaches with an operand undefined, or with a type its hint contradicts.
RejectsOnlyRealFaults ==
    phase = "rejected" /\ pos # 0 =>
        \E s \in PathStates :
            s[1] = pos /\ ~(ReadsDefined(Code[pos], s[2]) /\ HintHolds(Code[pos], s[2]))

=============================================================================
