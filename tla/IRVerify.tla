------------------------------- MODULE IRVerify -------------------------------
(***************************************************************************)
(* ir_verify() as the optimizer calls it after every pass: the checks of   *)
(* IRChecks, and what the two analyses over basic blocks compute.          *)
(***************************************************************************)
EXTENDS OptimizerPasses, IRChecks

\* The instructions some path reaches without passing one in stops before.
ReachedAvoiding(flow, stops) == Spread(flow, stops, {1})

\* check_definedness_and_types(), without the type hints.
ReadsDefined(f, flow) ==
    LET code == f.code
    IN  \A r \in UNION {Reads(code[i]) : i \in Indices(code)} \ 0..(f.params - 1) :
          LET unwritten == ReachedAvoiding(flow, {i \in Indices(code) : r \in Writes(code[i])})
          IN  \A i \in unwritten : code[i].op # "RETURN" => r \notin Reads(code[i])

\* check_scope_marks()
ReleasesMarked(f, flow) ==
    LET At(op, s) == {i \in Indices(f.code) : f.code[i].op = op /\ f.code[i].imm = s}
    IN  \A i \in Indices(f.code) : f.code[i].op = "SCOPE_RELEASE" =>
          i \notin ReachedAvoiding(flow, At("SCOPE_MARK", f.code[i].imm))

Verified(f) ==
    LET flow == <<>> @@ [i \in Indices(f.code) |-> Flow(f.code, i)]
    IN  StaticChecks(f) /\ (f.code # <<>> => ReadsDefined(f, flow) /\ ReleasesMarked(f, flow))

=============================================================================
