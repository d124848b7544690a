----------------------------- MODULE Definedness -----------------------------
(***************************************************************************)
(* Verifier::run() up to check_definedness_and_types() (ir_verifier.cpp),  *)
(* followed by a run of the function it accepted.                          *)
(*                                                                         *)
(* The analysis is a forward must-analysis over basic blocks with a        *)
(* min-priority worklist: a register counts as defined, and its type as    *)
(* known, only when every path agrees.  A report walk over the fixpoint    *)
(* then rejects a read that is not defined and a type hint that is         *)
(* contradicted.  One action is one iteration of a loop of the code.       *)
(***************************************************************************)
EXTENDS IRChecks

CONSTANTS
    Functions,  \* the functions that may be handed to ir_verify()
    Types       \* the Variant types

UNKNOWN == "UNKNOWN"

ASSUME TypesAssumption ==
    {"INT", "FLOAT", "BOOL"} \subseteq Types /\ {UNKNOWN, NoHint} \cap Types = {}

\* Operands have the shape check_operands() enforces.
ASSUME FunctionsAssumption ==
    \A f \in Functions : f \in IRFunction(Types \cup {NoHint})

VARIABLES
    func,    \* m_func
    phase,   \* which check runs, then what became of the function
    entry,   \* BasicBlock::entry per leader, Unset while !entry_initialized
    queued,  \* the worklist
    pos,     \* the instruction transfer() is at, 0 between walks
    state,   \* transfer()'s register state before instruction pos
    pending, \* successors the walked block's state has not reached yet
    walk,    \* history: the state instruction i was last walked with
    defined, \* run: the registers written so far (with the parameters)
    type,    \* run: the type of the value each register holds
    pc       \* run: the instruction about to execute

analysis == <<func, entry, queued, state, pending, walk>>
run == <<defined, type, pc>>
vars == <<func, phase, entry, queued, pos, state, pending, walk, defined, type, pc>>

\* No register state has this form.
Unset == [defined |-> {NoReg}, type |-> <<>>]

Code == func.code
Regs == 0..(func.max_registers - 1)
Params == 0..(func.params - 1)

-----------------------------------------------------------------------------
\* The lattice: RegisterState, merge_from(), and the order it descends in.

EntryState == [defined |-> Params, type |-> [r \in Regs |-> UNKNOWN]]

\* (A slip: defined on some path is taken for defined.)
MergeUnion(a, b) ==
    [defined |-> a.defined \cup b.defined,
     type |-> [r \in DOMAIN a.type |->
                 IF a.type[r] = b.type[r] THEN a.type[r] ELSE UNKNOWN]]

Merge(a, b) ==
    [defined |-> a.defined \cap b.defined,
     type |-> [r \in DOMAIN a.type |->
                 IF a.type[r] = b.type[r] THEN a.type[r] ELSE UNKNOWN]]

\* a promises no more than b does.
Weaker(a, b) ==
    /\ a.defined \subseteq b.defined
    /\ \A r \in DOMAIN b.type : a.type[r] \in {UNKNOWN, b.type[r]}

\* result_type(): what the opcode says about its result, given operand types.
ResultType(instr, types) ==
    CASE instr.op = "LOAD_IMM" -> "INT"
      [] instr.op = "LOAD_FLOAT_IMM" -> "FLOAT"
      [] instr.op = "LOAD_BOOL" -> "BOOL"
      [] instr.op = "CONVERT" -> instr.hint
      [] instr.op = "MOVE" -> types[instr.srcs[1]]
      [] instr.op \in IR_COMPARISON -> "BOOL"
      [] instr.op \in IR_ARITHMETIC \ IR_COMPARISON /\ instr.hint # NoHint -> instr.hint
      [] OTHER -> UNKNOWN

\* (A slip: a result of unknown type leaves the old type in place.)
StepKeepsType(instr, st) ==
    LET known == ResultType(instr, st.type)
    IN  IF instr.dst = NoReg THEN st
        ELSE [defined |-> st.defined \cup {instr.dst},
              type |-> IF known = UNKNOWN THEN st.type ELSE [st.type EXCEPT ![instr.dst] = known]]

\* One iteration of transfer().
Step(instr, st) ==
    IF instr.dst = NoReg THEN st
    ELSE [defined |-> st.defined \cup {instr.dst},
          type |-> [st.type EXCEPT ![instr.dst] = ResultType(instr, st.type)]]

\* The hint check_type_hint() holds source k to.
ExpectedType(instr, k) ==
    IF k = 1 /\ instr.lhs # NoHint THEN instr.lhs
    ELSE IF k = 2 /\ instr.rhs # NoHint THEN instr.rhs
    ELSE instr.hint

HintHolds(instr, st) ==
    /\ instr.op = "CONVERT" => instr.hint # NoHint
    /\ (instr.op \in IR_ARITHMETIC /\ instr.hint # NoHint) =>
         \A k \in 1..Len(instr.srcs) :
            st.type[instr.srcs[k]] \in {UNKNOWN, ExpectedType(instr, k)}

\* transfer(report = true): a bare RETURN's implicit read is not checked.
ReadsDefined(instr, st) == instr.op # "RETURN" => Reads(instr) \subseteq st.defined

-----------------------------------------------------------------------------

Init ==
    /\ func \in Functions
    /\ phase = "static"
    /\ entry = [b \in Leaders(Code) |-> Unset]
    /\ queued = {}
    /\ pos = 0
    /\ state = Unset
    /\ pending = {}
    /\ walk = [i \in Indices(Code) |-> Unset]
    /\ defined = {}
    /\ type = <<>>
    /\ pc = 0

\* The checks before the analysis, then the entry state of block 0.
RunStaticChecks ==
    /\ phase = "static"
    /\ IF StaticChecks(func)
       THEN /\ phase' = "flow"
            /\ entry' = [b \in Leaders(Code) |-> IF b = 1 THEN EntryState ELSE Unset]
            /\ queued' = Leaders(Code) \cap {1}
       ELSE /\ phase' = "rejected"
            /\ UNCHANGED <<entry, queued>>
    /\ UNCHANGED <<func, pos, state, pending, walk>> /\ UNCHANGED run

\* worklist.top(), worklist.pop().
PopBlock ==
    /\ phase = "flow" /\ pos = 0 /\ pending = {}
    /\ \E b \in queued :
         /\ \A c \in queued : b <= c
         /\ queued' = queued \ {b}
         /\ pos' = b
         /\ state' = entry[b]
         /\ walk' = [walk EXCEPT ![b] = entry[b]]
    /\ UNCHANGED <<func, phase, entry, pending>> /\ UNCHANGED run

\* transfer(report = false), one instruction.
WalkInstr ==
    /\ phase = "flow" /\ pos # 0
    /\ state' = Step(Code[pos], state)
    /\ IF IsLast(Code, pos)
       THEN /\ pos' = 0
            /\ pending' = Successors(Code, pos)
            /\ UNCHANGED walk
       ELSE /\ pos' = pos + 1
            /\ walk' = [walk EXCEPT ![pos + 1] = Step(Code[pos], state)]
            /\ UNCHANGED pending
    /\ UNCHANGED <<func, phase, entry, queued>> /\ UNCHANGED run

\* (A slip: a block is queued again although nothing changed.)
PropagateAlways(s) ==
    LET new == IF entry[s] = Unset THEN state ELSE Merge(entry[s], state)
    IN  /\ phase = "flow" /\ pos = 0
        /\ s \in pending
        /\ pending' = pending \ {s}
        /\ entry' = [entry EXCEPT ![s] = new]
        /\ queued' = queued \cup {s}
        /\ UNCHANGED <<func, phase, pos, state, walk>> /\ UNCHANGED run

\* The loop over successors.
Propagate(s) ==
    LET new == IF entry[s] = Unset THEN state ELSE Merge(entry[s], state)
    IN  /\ phase = "flow" /\ pos = 0
        /\ s \in pending
        /\ pending' = pending \ {s}
        /\ entry' = [entry EXCEPT ![s] = new]
        /\ queued' = IF entry[s] = new THEN queued ELSE queued \cup {s}
        /\ UNCHANGED <<func, phase, pos, state, walk>> /\ UNCHANGED run

\* The worklist is empty.
StartReport ==
    /\ phase = "flow" /\ pos = 0 /\ pending = {} /\ queued = {}
    /\ phase' = "report"
    /\ pos' = 1
    /\ UNCHANGED analysis /\ UNCHANGED run

\* (A slip: the walk carries its state over from the block before.)
ReportInstrCarriesOver ==
    LET st == IF pos = 1 THEN entry[pos] ELSE state
    IN  /\ phase = "report" /\ pos <= Len(Code)
        /\ IF ReadsDefined(Code[pos], st) /\ HintHolds(Code[pos], st)
           THEN /\ state' = Step(Code[pos], st)
                /\ pos' = pos + 1
                /\ UNCHANGED phase
           ELSE /\ phase' = "rejected"
                /\ UNCHANGED <<state, pos>>
        /\ UNCHANGED <<func, entry, queued, pending, walk>> /\ UNCHANGED run

\* transfer(report = true), one instruction; unreachable blocks are skipped.
ReportInstr ==
    LET st == IF pos \in Leaders(Code) THEN entry[pos] ELSE state
    IN  /\ phase = "report" /\ pos <= Len(Code)
        /\ IF st = Unset
           THEN /\ state' = Unset
                /\ pos' = pos + 1
                /\ UNCHANGED phase
           ELSE IF ReadsDefined(Code[pos], st) /\ HintHolds(Code[pos], st)
           THEN /\ state' = Step(Code[pos], st)
                /\ pos' = pos + 1
                /\ UNCHANGED phase
           ELSE /\ phase' = "rejected"
                /\ UNCHANGED <<state, pos>>
        /\ UNCHANGED <<func, entry, queued, pending, walk>> /\ UNCHANGED run

Accept ==
    /\ phase = "report" /\ pos > Len(Code)
    /\ phase' = "accepted"
    /\ UNCHANGED pos /\ UNCHANGED analysis /\ UNCHANGED run

\* An accepted function is called: the parameters are written, everything else
\* in the frame holds whatever was there.
Call ==
    /\ phase = "accepted"
    /\ Code # <<>>
    /\ phase' = "running"
    /\ pc' = 1
    /\ defined' = Params
    /\ type' \in [Regs -> Types]
    /\ UNCHANGED pos /\ UNCHANGED analysis

\* One instruction executes; an opcode whose result type the table does not
\* fix may produce any type.
Execute ==
    LET instr == Code[pc]
        known == ResultType(instr, type)
    IN  /\ phase = "running"
        /\ IF instr.dst = NoReg
           THEN UNCHANGED type
           ELSE \E t \in IF known = UNKNOWN THEN Types ELSE {known} :
                  type' = [type EXCEPT ![instr.dst] = t]
        /\ defined' = defined \cup Writes(instr)
        /\ IF Flow(Code, pc) = {}
           THEN phase' = "halted" /\ UNCHANGED pc
           ELSE pc' \in Flow(Code, pc) /\ UNCHANGED phase
        /\ UNCHANGED pos /\ UNCHANGED analysis

Verify ==
    \/ RunStaticChecks
    \/ PopBlock
    \/ WalkInstr
    \/ \E s \in pending : Propagate(s)
    \/ StartReport
    \/ ReportInstr
    \/ Accept

\* A function that was rejected, or has run, or has nothing to run.
Done ==
    /\ phase \in {"halted", "rejected"} \/ (phase = "accepted" /\ Code = <<>>)
    /\ UNCHANGED vars

Next == Verify \/ Call \/ Execute \/ Done

Spec == Init /\ [][Next]_vars

\* Verification is straight-line compiler code: it does not stop half way.
FairSpec == Spec /\ WF_vars(Verify)

-----------------------------------------------------------------------------

RegisterStates == [defined : SUBSET Regs, type : [Regs -> Types \cup {UNKNOWN, NoHint}]]

\* Every variable of the verifier and of the run it allows has its type.
TypeOK ==
    /\ func \in IRFunction(Types \cup {NoHint})
    /\ phase \in {"static", "flow", "report", "accepted", "rejected", "running", "halted"}
    /\ entry \in [Leaders(Code) -> RegisterStates \cup {Unset}]
    /\ queued \subseteq Leaders(Code)
    /\ pos \in 0..(Len(Code) + 1)
    /\ state \in RegisterStates \cup {Unset}
    /\ pending \subseteq Leaders(Code)
    /\ walk \in [Indices(Code) -> RegisterStates \cup {Unset}]
    /\ defined \subseteq Regs
    /\ phase \in {"running", "halted"} => type \in [Regs -> Types] /\ pc \in Indices(Code)

\* What the verifier is for: in a run of an accepted function no instruction
\* reads a register that nothing has written, whatever path was taken.  The
\* implicit read of a bare RETURN is the exception transfer() makes.
NoUndefinedRead ==
    phase = "running" => ReadsDefined(Code[pc], [defined |-> defined])

\* A type the analysis holds for known when it reaches an instruction is the
\* type the register really has in every run that gets there, so a type hint
\* that check_type_hint() let pass against a known type is right.
KnownTypesHold ==
    phase = "running" =>
        /\ walk[pc] # Unset
        /\ \A r \in Regs : walk[pc].type[r] \in {UNKNOWN, type[r]}

\* The worklist loop only ever lowers a block's entry state: merge_from()
\* takes definedness and types away and never gives any back, which is what
\* makes the loop terminate.
EntriesDescend ==
    [][\A b \in Leaders(Code) : entry[b] # Unset => Weaker(entry'[b], entry[b])]_vars

\* When the worklist has run empty the entry states are a fixpoint: what a
\* reachable block was last walked with promises, at each of its successors,
\* at least what that successor's entry says.
Fixpoint ==
    phase \notin {"static", "flow", "rejected"} =>
        \A i \in Indices(Code) : walk[i] # Unset =>
            \A j \in Flow(Code, i) :
                walk[j] # Unset /\ Weaker(walk[j], Step(Code[i], walk[i]))

\* ir_verify() returns or throws: the worklist, which a block may enter again
\* and again, runs empty.
Decides == <>(phase \in {"accepted", "rejected"})

=============================================================================
