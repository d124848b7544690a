----------------------------- MODULE ScopeMarks -----------------------------
(***************************************************************************)
(* The "scope-marks" pass (IROptimizer::tighten_scope_marks), the          *)
(* verifier's check_scope_marks() that follows it, and a run of what it    *)
(* accepts.                                                                *)
(*                                                                         *)
(* SCOPE_MARK s stores the host's count of owned values in slot s of the   *)
(* frame; SCOPE_RELEASE s has the host release down to that count.  A slot *)
(* that was never marked holds zero, which would release the callers'      *)
(* values too, so the verifier demands a mark on every path to a release.  *)
(* Unlike the register analysis this one has a FIFO worklist, in which a   *)
(* block may stand more than once.                                         *)
(***************************************************************************)
EXTENDS TightenScopeMarks

CONSTANTS
    Codes,      \* the instruction sequences the pass may be handed
    Base,       \* values the callers own when the function is entered
    MaxOwned    \* bound: the most values a run creates

ASSUME BaseAssumption == Base \in Nat \ {0} /\ MaxOwned \in Nat

\* open_scope() numbers scopes from zero.
ASSUME CodesAssumption ==
    \A c \in Codes :
        /\ c \in Seq(IRInstruction({NoHint}))
        /\ \A i \in Indices(c) : c[i].op \in ScopeOps => c[i].imm \in Nat

VARIABLES
    source,  \* the instructions before the pass
    code,    \* m_func.instructions
    phase,   \* the pass or check that runs, then what became of the function
    pos,     \* the instruction a loop is at, 0 between walks
    entry,   \* entry[b], Unseen while !seen[b]
    queue,   \* the worklist
    marked,  \* transfer()'s set before instruction pos
    pending, \* successors the walked block's set has not reached yet
    walk,    \* history: the set instruction i was last walked with
    slot,    \* run: the frame's scope slots
    owned,   \* run: the host's count of owned values
    pc       \* run: the instruction about to execute

analysis == <<entry, queue, marked, pending, walk>>
run == <<slot, owned, pc>>
vars == <<source, code, phase, pos, entry, queue, marked, pending, walk, slot, owned, pc>>

\* Scope ids are not negative, so no marked set has this form.
Unseen == {-1}

Scopes == {source[i].imm : i \in {j \in Indices(source) : source[j].op \in ScopeOps}}

-----------------------------------------------------------------------------
\* check_scope_marks()

Step(instr, set) == IF instr.op = "SCOPE_MARK" THEN set \cup {instr.imm} ELSE set

ReleaseMarked(instr, set) == instr.op = "SCOPE_RELEASE" => instr.imm \in set

-----------------------------------------------------------------------------

Init ==
    /\ source \in Codes
    /\ code = source
    /\ phase = "tighten"
    /\ pos = 1
    /\ entry = <<>>
    /\ queue = <<>>
    /\ marked = Unseen
    /\ pending = {}
    /\ walk = [i \in Indices(source) |-> Unseen]
    /\ slot = [s \in Scopes |-> 0]
    /\ owned = Base
    /\ pc = 0

\* One iteration of the pass's loop.
TightenMark ==
    /\ phase = "tighten" /\ pos < Len(code)
    /\ \/ \E l \in Indices(code) : SlidesTo(code, pos, l) /\ code' = SlideDown(code, pos, l)
       \/ (\A l \in Indices(code) : ~SlidesTo(code, pos, l)) /\ UNCHANGED code
    /\ pos' = pos + 1
    /\ UNCHANGED <<source, phase>> /\ UNCHANGED analysis /\ UNCHANGED run

\* seen[0] = true, worklist.push(0); there is no block in an empty function.
StartFlow ==
    /\ phase = "tighten" /\ pos >= Len(code)
    /\ phase' = "flow"
    /\ pos' = 0
    /\ entry' = [b \in Leaders(code) |-> IF b = 1 THEN {} ELSE Unseen]
    /\ queue' = IF code = <<>> THEN <<>> ELSE <<1>>
    /\ UNCHANGED <<source, code, marked, pending, walk>> /\ UNCHANGED run

\* worklist.front(), worklist.pop().
PopBlock ==
    /\ phase = "flow" /\ pos = 0 /\ pending = {} /\ queue # <<>>
    /\ queue' = Tail(queue)
    /\ pos' = Head(queue)
    /\ marked' = entry[Head(queue)]
    /\ walk' = [walk EXCEPT ![Head(queue)] = entry[Head(queue)]]
    /\ UNCHANGED <<source, code, phase, entry, pending>> /\ UNCHANGED run

\* transfer(report = false), one instruction.
WalkInstr ==
    /\ phase = "flow" /\ pos # 0
    /\ marked' = Step(code[pos], marked)
    /\ IF IsLast(code, pos)
       THEN /\ pos' = 0
            /\ pending' = Successors(code, pos)
            /\ UNCHANGED walk
       ELSE /\ pos' = pos + 1
            /\ walk' = [walk EXCEPT ![pos + 1] = Step(code[pos], marked)]
            /\ UNCHANGED pending
    /\ UNCHANGED <<source, code, phase, entry, queue>> /\ UNCHANGED run

\* (A slip: marked on some path is taken for marked.)
PropagateUnion(s) ==
    LET new == IF entry[s] = Unseen THEN marked ELSE entry[s] \cup marked
    IN  /\ phase = "flow" /\ pos = 0
        /\ s \in pending
        /\ pending' = pending \ {s}
        /\ entry' = [entry EXCEPT ![s] = new]
        /\ queue' = IF entry[s] = new THEN queue ELSE Append(queue, s)
        /\ UNCHANGED <<source, code, phase, pos, marked, walk>> /\ UNCHANGED run

\* The loop over successors.
Propagate(s) ==
    LET new == IF entry[s] = Unseen THEN marked ELSE entry[s] \cap marked
    IN  /\ phase = "flow" /\ pos = 0
        /\ s \in pending
        /\ pending' = pending \ {s}
        /\ entry' = [entry EXCEPT ![s] = new]
        /\ queue' = IF entry[s] = new THEN queue ELSE Append(queue, s)
        /\ UNCHANGED <<source, code, phase, pos, marked, walk>> /\ UNCHANGED run

StartReport ==
    /\ phase = "flow" /\ pos = 0 /\ pending = {} /\ queue = <<>>
    /\ phase' = "report"
    /\ pos' = 1
    /\ UNCHANGED <<source, code>> /\ UNCHANGED analysis /\ UNCHANGED run

\* transfer(report = true), one instruction; unseen blocks are skipped.
ReportInstr ==
    LET set == IF pos \in Leaders(code) THEN entry[pos] ELSE marked
    IN  /\ phase = "report" /\ pos <= Len(code)
        /\ IF set # Unseen /\ ~ReleaseMarked(code[pos], set)
           THEN /\ phase' = "rejected"
                /\ UNCHANGED <<marked, pos>>
           ELSE /\ marked' = IF set = Unseen THEN Unseen ELSE Step(code[pos], set)
                /\ pos' = pos + 1
                /\ UNCHANGED phase
        /\ UNCHANGED <<source, code, entry, queue, pending, walk>> /\ UNCHANGED run

Accept ==
    /\ phase = "report" /\ pos > Len(code)
    /\ phase' = "accepted"
    /\ UNCHANGED <<source, code, pos>> /\ UNCHANGED analysis /\ UNCHANGED run

Call ==
    /\ phase = "accepted" /\ code # <<>>
    /\ phase' = "running"
    /\ pc' = 1
    /\ UNCHANGED <<source, code, pos, slot, owned>> /\ UNCHANGED analysis

\* One instruction executes.  A load may leave the host owning one value more;
\* ECALL_VSCOPE reads the count or releases down to it.
Execute ==
    LET instr == code[pc]
    IN  /\ phase = "running"
        /\ \/ /\ instr.op = "SCOPE_MARK"
              /\ slot' = [slot EXCEPT ![instr.imm] = owned]
              /\ UNCHANGED owned
           \/ /\ instr.op = "SCOPE_RELEASE"
              /\ owned' = IF slot[instr.imm] < owned THEN slot[instr.imm] ELSE owned
              /\ UNCHANGED slot
           \/ /\ instr.op = "LOAD_GLOBAL"
              /\ owned' = IF owned < Base + MaxOwned THEN owned + 1 ELSE owned
              /\ UNCHANGED slot
           \/ /\ instr.op \notin ScopeOps \cup {"LOAD_GLOBAL"}
              /\ UNCHANGED <<slot, owned>>
        /\ IF Flow(code, pc) = {}
           THEN phase' = "halted" /\ UNCHANGED pc
           ELSE pc' \in Flow(code, pc) /\ UNCHANGED phase
        /\ UNCHANGED <<source, code, pos>> /\ UNCHANGED analysis

Verify ==
    \/ TightenMark
    \/ StartFlow
    \/ PopBlock
    \/ WalkInstr
    \/ \E s \in pending : Propagate(s)
    \/ StartReport
    \/ ReportInstr
    \/ Accept

\* A function that was rejected, or has run, or has nothing to run.
Done ==
    /\ phase \in {"halted", "rejected"} \/ (phase = "accepted" /\ code = <<>>)
    /\ UNCHANGED vars

Next == Verify \/ Call \/ Execute \/ Done

Spec == Init /\ [][Next]_vars

-----------------------------------------------------------------------------

MarkSets == SUBSET Scopes

\* Every variable of the pass, the check and the run has its type.
TypeOK ==
    /\ source \in Seq(IRInstruction({NoHint})) /\ Scopes \subseteq Nat
    /\ code \in Seq(SeqElems(source)) /\ Len(code) = Len(source)
    /\ phase \in {"tighten", "flow", "report", "accepted", "rejected", "running", "halted"}
    /\ pos \in 0..(Len(source) + 1)
    /\ phase # "tighten" => entry \in [Leaders(code) -> MarkSets \cup {Unseen}]
    /\ queue \in Seq(Leaders(code))
    /\ marked \in MarkSets \cup {Unseen}
    /\ pending \subseteq Leaders(code)
    /\ walk \in [Indices(source) -> MarkSets \cup {Unseen}]
    /\ slot \in [Scopes -> Nat]
    /\ owned \in Nat
    /\ phase \in {"running", "halted"} => pc \in Indices(source)

\* What the check is for: no release of an accepted function ever takes the
\* host below what the callers owned, whatever path the run took.
CallersKeepTheirs == owned >= Base

=============================================================================
