-------------------------- MODULE TightenScopeMarks --------------------------
(***************************************************************************)
(* One iteration of the "scope-marks" pass, IROptimizer::                  *)
(* tighten_scope_marks(): a SCOPE_MARK slides down to the label that       *)
(* follows it when nothing but straight-line code is between them.         *)
(***************************************************************************)
EXTENDS IR

ScopeOps == {"SCOPE_MARK", "SCOPE_RELEASE"}

\* (A slip: the scan passes other marks and releases.)
StopsAtControlFlow(code, l) == IsControlFlow(code[l].op)

\* Where the scan from a mark stops.
StopsScan(code, l) == IsControlFlow(code[l].op) \/ code[l].op \in ScopeOps

\* The label the mark at i slides down to.
SlidesTo(code, i, l) ==
    /\ code[i].op = "SCOPE_MARK"
    /\ l > i + 1
    /\ code[l].op \in IR_LABEL
    /\ \A k \in (i + 1)..(l - 1) : ~StopsScan(code, k)

\* erase() at i, insert() in front of l.
SlideDown(code, i, l) ==
    [k \in Indices(code) |->
        IF k < i \/ k >= l THEN code[k] ELSE IF k = l - 1 THEN code[i] ELSE code[k + 1]]

=============================================================================
