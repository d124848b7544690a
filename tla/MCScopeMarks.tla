---------------------------- MODULE MCScopeMarks ----------------------------
(***************************************************************************)
(* ScopeMarks on every function of three or four instructions over two     *)
(* scopes and one label, and on loops with an early exit.                  *)
(***************************************************************************)
EXTENDS ScopeMarks

Marks(s) == Instr("SCOPE_MARK", NoReg, <<>>, s, <<>>)
Release(s) == Instr("SCOPE_RELEASE", NoReg, <<>>, s, <<>>)
Load == Instr("LOAD_GLOBAL", 0, <<>>, 0, <<>>)
Label(l) == Instr("LABEL", NoReg, <<>>, 0, <<l>>)
Jump(l) == Instr("JUMP", NoReg, <<>>, 0, <<l>>)
If(l) == Instr("BRANCH_ZERO", NoReg, <<0>>, 0, <<l>>)
Ret == Instr("RETURN", NoReg, <<>>, 0, <<>>)

Straight == {Marks(0), Marks(1), Release(0), Release(1), Load}

Short == UNION {[1..n -> Straight \cup {Label("a"), Jump("a"), If("a"), Ret}] : n \in {0, 3, 4}}

\* w; x; a: y; if goto b; z; jump a; b: u; return
Loops ==
    {<<w, x, Label("a"), y, If("b"), z, Jump("a"), Label("b"), u, Ret>> :
        w, x, y, z, u \in Straight}

\* A label is defined at most once: check_labels() came first.
MCCodes ==
    {c \in Short \cup Loops :
        \A i, j \in 1..Len(c) : c[i].op = "LABEL" /\ c[i] = c[j] => i = j}

MCBase == 1
MCMaxOwned == 2

-----------------------------------------------------------------------------

\* The reference: the instructions some path from the start reaches without
\* having marked scope s.
ReachedUnmarked(c, s) ==
    LET After(S) == UNION {Flow(c, i) : i \in {j \in S : ~(c[j].op = "SCOPE_MARK" /\ c[j].imm = s)}}
        reach[k \in Nat] ==
          IF k = 0 THEN Indices(c) \cap {1}
          ELSE LET before == reach[k - 1] IN before \cup After(before)
    IN  reach[Len(c)]

\* The function handed to the pass is rejected only if it really has a path to
\* a release that misses the mark: sliding marks down to a label makes no such
\* path, and the analysis invents none.
RejectsOnlyUnmarked ==
    phase = "rejected" =>
        \E i \in Indices(source) :
            source[i].op = "SCOPE_RELEASE" /\ i \in ReachedUnmarked(source, source[i].imm)

=============================================================================
