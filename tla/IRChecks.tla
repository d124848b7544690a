------------------------------ MODULE IRChecks ------------------------------
(***************************************************************************)
(* The checks of ir_verifier.cpp that look at one instruction at a time:   *)
(* Verifier::run() makes them before the two analyses over basic blocks.   *)
(***************************************************************************)
EXTENDS IR

\* check_register_range().
RegistersInRange(f) ==
    /\ f.params <= f.max_registers
    /\ \A i \in Indices(f.code) :
         SeqElems(f.code[i].srcs) \cup Writes(f.code[i]) \subseteq 0..(f.max_registers - 1)

\* check_call_destination(): the backend overwrites DST before the arguments
\* are read.
CallDestinationsFresh(f) ==
    \A i \in Indices(f.code) :
        f.code[i].op \in IR_CALL => Writes(f.code[i]) \cap Reads(f.code[i]) = {}

\* check_labels(): a label is defined once, and a branch target is defined.
LabelsResolve(f) ==
    LET Names(i) == SeqElems(f.code[i].lbls)
        Defs == {i \in Indices(f.code) : f.code[i].op \in IR_LABEL}
    IN  /\ \A i, j \in Defs : Names(i) \cap Names(j) # {} => i = j
        /\ \A i \in Indices(f.code) : \A l \in Names(i) : \E j \in Defs : l \in Names(j)

\* check_coroutine().
AwaitsAllowed(f) ==
    f.is_coroutine \/ \A i \in Indices(f.code) : f.code[i].op # "AWAIT"

StaticChecks(f) ==
    /\ RegistersInRange(f)
    /\ CallDestinationsFresh(f)
    /\ LabelsResolve(f)
    /\ AwaitsAllowed(f)

=============================================================================
