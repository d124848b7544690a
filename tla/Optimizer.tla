------------------------------ MODULE Optimizer ------------------------------
(***************************************************************************)
(* IROptimizer::optimize() and optimize_function(): the pipeline over the  *)
(* functions of a program, with the pass selection, the skipping of passes *)
(* that have settled, the cached block analysis, and ir_verify() after     *)
(* every pass.  One step is one iteration of optimize_function()'s loop.   *)
(***************************************************************************)
EXTENDS IRVerify

CONSTANTS
    Jobs,     \* the programs codegen may hand over, each with a selection of passes
    Inputs,   \* the argument sequences they are called with
    Globals   \* the values of the globals before the call

ASSUME JobsAssumption == \A job \in Jobs : job.enabled \subseteq PassNames

VARIABLES
    enabled,   \* the passes that set_enabled_passes() selected
    program,   \* IRProgram::functions
    current,   \* the function being optimized
    step,      \* the position in the pipeline; 0 before the first pass
    settled,   \* the passes that changed nothing since the last change
    analysis,  \* m_analysis: whether it is valid, for which function, from which code
    phase,     \* "optimizing", then "done" or "rejected"
    source,    \* history: the program before the first pass
    expected   \* history: its outcome for each input

vars == <<enabled, program, current, step, settled, analysis, phase, source, expected>>

func == program[current]

-----------------------------------------------------------------------------

Init ==
    /\ \E job \in Jobs : source = job.program /\ enabled = job.enabled
    /\ program = source
    /\ current = 1
    /\ step = 0
    /\ settled = {}
    /\ analysis = NoAnalysis
    /\ phase = "optimizing"
    /\ expected = [args \in Inputs |-> Outcome(source, args, Globals)]

\* What ir_verify() lets happen to function f.
Judge(f) == phase' = IF Verified(f) THEN "optimizing" ELSE "rejected"

\* optimize_function() up to its loop.
StartFunction ==
    /\ phase = "optimizing" /\ step = 0
    /\ analysis' = invalidate_analysis(analysis)
    /\ settled' = {}
    /\ step' = 1
    /\ Judge(func)
    /\ UNCHANGED <<enabled, program, current, source, expected>>

\* (A slip: a change does not unsettle the other passes.)
SettledForGood(name, changed) == IF changed THEN settled ELSE settled \cup {name}

SettledAfter(name, changed) == IF changed THEN {} ELSE settled \cup {name}

Skipped(name) == name \notin enabled \/ name \in settled

ApplyPass ==
    /\ phase = "optimizing" /\ step \in 1..Len(Pipeline)
    /\ ~Skipped(Pipeline[step])
    /\ \E pass \in {RunPass(Pipeline[step], func, current, analysis)} :
         /\ program' = [program EXCEPT ![current].code = pass.code]
         /\ settled' = SettledAfter(Pipeline[step], pass.changed)
         /\ analysis' = pass.analysis
         /\ Judge([func EXCEPT !.code = pass.code])
    /\ step' = step + 1
    /\ UNCHANGED <<enabled, current, source, expected>>

SkipPass ==
    /\ phase = "optimizing" /\ step \in 1..Len(Pipeline)
    /\ Skipped(Pipeline[step])
    /\ step' = step + 1
    /\ UNCHANGED <<enabled, program, current, settled, analysis, phase, source, expected>>

\* (A slip: the highest register, not the count.)
HighestRegister(f) ==
    Max({f.params, 1} \cup UNION {SeqElems(RegisterOperands(f.code[i])) : i \in Indices(f.code)})

\* The register count is recomputed; on to the next function.
MaxRegisters(f) ==
    Max({f.params, 1} \cup {1 + r : r \in UNION {SeqElems(RegisterOperands(f.code[i])) : i \in Indices(f.code)}})

FinishFunction ==
    LET done == [func EXCEPT !.max_registers = MaxRegisters(func)]
    IN  /\ phase = "optimizing" /\ step > Len(Pipeline)
        /\ program' = [program EXCEPT ![current] = done]
        /\ IF ~Verified(done) THEN phase' = "rejected" /\ UNCHANGED <<current, step>>
           ELSE IF current < Len(program)
           THEN current' = current + 1 /\ step' = 0 /\ UNCHANGED phase
           ELSE phase' = "done" /\ UNCHANGED <<current, step>>
        /\ UNCHANGED <<enabled, settled, analysis, source, expected>>

Finished == phase \in {"done", "rejected"} /\ UNCHANGED vars

Next == StartFunction \/ ApplyPass \/ SkipPass \/ FinishFunction \/ Finished

Spec == Init /\ [][Next]_vars

-----------------------------------------------------------------------------

\* test_opt_invariance.cpp: "An optimizer pass must not change what a program
\* computes."  After every prefix of the pipeline, the return value and the
\* globals of every call that completes are those of the unoptimized program.
ResultsPreserved ==
    \A args \in Inputs : ~expected[args].threw =>
        SameOutcome(expected[args], Outcome(program, args, Globals))

\* A pass leaves IR that ir_verify() accepts: no read of a register that some
\* path did not write, no label lost, no release without its mark, no operand
\* beyond the frame once the register count is recomputed.
PassesKeepIRValid == phase # "rejected"

\* optimize_function() skips a pass that "reported no change" because it
\* "cannot change anything until another pass does": every settled pass is
\* still the identity on the function as it stands.
SettledPassesAreDone ==
    phase = "optimizing" /\ step # 0 =>
        \A name \in settled : RunPass(name, func, current, NoAnalysis).code = func.code

\* The cache answers for any code of the function with as many instructions,
\* and each pass has to invalidate it when it changes the code in place, moves it
\* or replaces it: where the cache would answer, it was computed from the code as
\* it stands (analysis(), replace_instructions()).
AnalysisIsCurrent ==
    phase = "optimizing" /\ step # 0 /\ Answers(analysis, current, func.code) =>
        analysis.code = func.code

RECURSIVE DeadCodeRounds(_)

\* Delete every pure instruction whose destination nothing reads, and repeat.
DeadCodeRounds(code) ==
    LET Dead(i) == /\ code[i].dst # NoReg
                   /\ IsPure(code[i].op)
                   /\ \A j \in Indices(code) : code[i].dst \notin Reads(code[j])
        live == Keep(code, {i \in Indices(code) : ~Dead(i)})
    IN  IF live = code THEN code ELSE DeadCodeRounds(live)

\* eliminate_dead_code() says its worklist reaches the "same fixpoint as the
\* per-round scan-and-rebuild", with its read counts and its requeueing.
DeadCodeIsTheFixpoint == EliminateDeadCode(func, NoAnalysis).code = DeadCodeRounds(func.code)

=============================================================================
