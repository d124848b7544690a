-------------------------- MODULE DefinednessProofs --------------------------
(***************************************************************************)
(* What check_definedness_and_types() promises, for every function.        *)
(*                                                                         *)
(* The argument follows walk, the state each instruction was last walked   *)
(* with.  While the worklist runs, an edge of the flow graph is settled    *)
(* unless its block waits in the queue, is being walked, or has not handed *)
(* its result to this successor yet.  When the queue is empty all edges    *)
(* are settled, so walk is a fixpoint of the instruction-level flow, and   *)
(* a run can only strengthen what walk promises.                           *)
(***************************************************************************)
EXTENDS Definedness, IRProofs, TLAPS

Hints == Types \cup {NoHint}

-----------------------------------------------------------------------------
\* The lattice.

\* No register state looks like Unset.
LEMMA UnsetIsNone == func \in IRFunction(Hints) => Unset \notin RegisterStates
  <1>1. ASSUME func \in IRFunction(Hints) PROVE NoReg \notin Regs
    BY <1>1 DEF Regs, NoReg
  <1> QED
    BY <1>1 DEF Unset, RegisterStates

\* Weaker is a preorder, and Merge a lower bound in it.
LEMMA WeakerOrder ==
    ASSUME NEW a \in RegisterStates, NEW b \in RegisterStates, NEW c \in RegisterStates
    PROVE  /\ Weaker(a, a)
           /\ Weaker(a, b) /\ Weaker(b, c) => Weaker(a, c)
  BY DEF Weaker, RegisterStates

\* merge_from() yields a register state that is weaker than both sides.
LEMMA MergeLower ==
    ASSUME NEW a \in RegisterStates, NEW b \in RegisterStates
    PROVE  /\ Merge(a, b) \in RegisterStates
           /\ Weaker(Merge(a, b), a)
           /\ Weaker(Merge(a, b), b)
  <1>1. /\ Merge(a, b).defined = a.defined \cap b.defined
        /\ \A r \in Regs : Merge(a, b).type[r] =
               IF a.type[r] = b.type[r] THEN a.type[r] ELSE UNKNOWN
        /\ DOMAIN a.type = Regs /\ DOMAIN b.type = Regs
    BY DEF Merge, RegisterStates
  <1>2. Merge(a, b) \in RegisterStates
    BY DEF Merge, RegisterStates
  <1>3. Weaker(Merge(a, b), a)
    BY <1>1 DEF Weaker
  <1>4. Weaker(Merge(a, b), b)
    BY <1>1 DEF Weaker
  <1> QED
    BY <1>2, <1>3, <1>4

\* transfer() maps register states to register states.
LEMMA ResultTypeType ==
    ASSUME NEW instr \in IRInstruction(Hints), NEW types \in [Regs -> Hints \cup {UNKNOWN}],
           SeqElems(instr.srcs) \subseteq Regs
    PROVE  ResultType(instr, types) \in Hints \cup {UNKNOWN}
  <1>1. instr.hint \in Hints
    BY DEF IRInstruction
  <1>2. instr.op = "MOVE" => types[instr.srcs[1]] \in Hints \cup {UNKNOWN}
    <2>1. instr.op = "MOVE" => instr.srcs[1] \in SeqElems(instr.srcs)
      BY DEF IRInstruction, SeqElems
    <2> QED
      BY <2>1
  <1> QED
    BY <1>1, <1>2, TypesAssumption DEF ResultType, Hints

\* One instruction of transfer() keeps a register state a register state.
LEMMA StepType ==
    ASSUME NEW instr \in IRInstruction(Hints), NEW st \in RegisterStates,
           SeqElems(instr.srcs) \cup Writes(instr) \subseteq Regs
    PROVE  Step(instr, st) \in RegisterStates
  <1>1. CASE instr.dst = NoReg
    BY <1>1 DEF Step
  <1>2. CASE instr.dst # NoReg
    <2>1. instr.dst \in Regs
      BY <1>2 DEF Writes
    <2>2. st.type \in [Regs -> Hints \cup {UNKNOWN}] /\ st.defined \subseteq Regs
      BY DEF RegisterStates, Hints
    <2>3. ResultType(instr, st.type) \in Hints \cup {UNKNOWN}
      BY <2>2, ResultTypeType
    <2> QED
      BY <1>2, <2>1, <2>2, <2>3 DEF Step, RegisterStates, Hints
  <1> QED
    BY <1>1, <1>2

-----------------------------------------------------------------------------
\* The inductive invariant.

Checked(i) ==
    walk[i] # Unset => ReadsDefined(Code[i], walk[i]) /\ HintHolds(Code[i], walk[i])

\* What a walked instruction leaves behind has reached what comes after it, or
\* is still to be handed to that successor.
Settled(i) ==
    IF IsLast(Code, i)
    THEN \A s \in Successors(Code, i) :
            \/ s \in pending /\ state = Step(Code[i], walk[i])
            \/ entry[s] # Unset /\ Weaker(entry[s], Step(Code[i], walk[i]))
    ELSE walk[i + 1] = Step(Code[i], walk[i])

StaticInv ==
    phase = "static" =>
        /\ pos = 0 /\ queued = {} /\ pending = {}
        /\ \A b \in Leaders(Code) : entry[b] = Unset
        /\ \A i \in Indices(Code) : walk[i] = Unset

\* From the analysis on, whatever the phase.
AnalysisInv ==
    phase \notin {"static", "rejected"} =>
        /\ StaticChecks(func)
        /\ Code # <<>> => entry[1] # Unset /\ Weaker(entry[1], EntryState)
        /\ \A b \in queued : entry[b] # Unset
        /\ \A b \in Leaders(Code) : walk[b] # Unset => entry[b] # Unset
        /\ \A b \in Leaders(Code) : b \in queued \/ entry[b] = walk[b]
        /\ \A i \in Indices(Code) \ Leaders(Code) : walk[i] # Unset => walk[i - 1] # Unset
        /\ \A i \in Indices(Code) :
              walk[i] # Unset /\ ~(phase = "flow" /\ pos = i) => Settled(i)

FlowInv ==
    phase = "flow" =>
        /\ pos # 0 => pos \in Indices(Code) /\ pending = {} /\ walk[pos] = state /\ state # Unset
        /\ pending # {} => state # Unset

ReportInv ==
    /\ phase \notin {"static", "flow", "rejected"} => queued = {} /\ pending = {}
    /\ phase = "report" =>
        /\ pos # 0
        /\ pos \in Indices(Code) \ Leaders(Code) => state = walk[pos]
        /\ \A i \in Indices(Code) : i < pos => Checked(i)
    /\ phase \in {"accepted", "running"} => \A i \in Indices(Code) : Checked(i)

RunInv ==
    phase = "running" =>
        /\ walk[pc] # Unset
        /\ walk[pc].defined \subseteq defined
        /\ \A r \in Regs : walk[pc].type[r] \in {UNKNOWN, type[r]}

IInv == TypeOK /\ StaticInv /\ AnalysisInv /\ FlowInv /\ ReportInv /\ RunInv

\* What every state provides the steps below with.
LEMMA Context ==
    ASSUME TypeOK
    PROVE  /\ Code \in Seq(IRInstruction(Hints))
           /\ Len(Code) \in Nat
           /\ Indices(Code) = 1..Len(Code)
           /\ \A i \in Indices(Code) : Code[i] \in IRInstruction(Hints)
           /\ Unset \notin RegisterStates
           /\ Leaders(Code) \subseteq Indices(Code)
           /\ Code # <<>> => 1 \in Leaders(Code)
           /\ Indices(Code) # {} => Code # <<>>
  <1>1. func \in IRFunction(Hints)
    BY DEF TypeOK, Hints
  <1>2. Code \in Seq(IRInstruction(Hints))
    BY <1>1 DEF Code, IRFunction
  <1>3. Len(Code) \in Nat /\ Indices(Code) = 1..Len(Code)
    BY <1>2 DEF Indices
  <1>4. \A i \in Indices(Code) : Code[i] \in IRInstruction(Hints)
    BY <1>2, <1>3
  <1>5. Indices(Code) # {} => Code # <<>>
    BY <1>2, <1>3
  <1> QED
    BY <1>1, <1>2, <1>3, <1>4, <1>5, LeaderFacts, UnsetIsNone

\* A checked function keeps the walk inside the register states.
LEMMA StepInRange ==
    ASSUME TypeOK, StaticChecks(func), NEW i \in Indices(Code), NEW st \in RegisterStates
    PROVE  /\ Step(Code[i], st) \in RegisterStates
           /\ SeqElems(Code[i].srcs) \cup Writes(Code[i]) \subseteq Regs
  <1>1. SeqElems(Code[i].srcs) \cup Writes(Code[i]) \subseteq Regs
    BY DEF StaticChecks, RegistersInRange, Code, Regs
  <1> QED
    BY <1>1, Context, StepType

\* The parameters of a checked function fit its frame.
LEMMA EntryStateType ==
    ASSUME func \in IRFunction(Hints), RegistersInRange(func)
    PROVE  EntryState \in RegisterStates
  <1>1. Params \subseteq Regs
    BY DEF Params, Regs, RegistersInRange, IRFunction
  <1> QED
    BY <1>1 DEF EntryState, RegisterStates

\* Before the first check nothing has been claimed.
LEMMA InitIInv == Init => IInv
  <1> SUFFICES ASSUME Init PROVE IInv
    OBVIOUS
  <1>1. func \in IRFunction(Hints)
    BY ZenonT(30), FunctionsAssumption DEF Init, Hints
  <1>2. Code \in Seq(IRInstruction(Hints))
    BY <1>1 DEF Code, IRFunction
  <1>3. TypeOK
    BY <1>1, <1>2 DEF Init, TypeOK, Hints
  <1> QED
    BY <1>3 DEF Init, IInv, StaticInv, AnalysisInv, FlowInv, ReportInv, RunInv

\* The static checks start the analysis at block 0, or reject.
LEMMA RunStaticChecksIInv == IInv /\ RunStaticChecks => IInv'
  <1> SUFFICES ASSUME IInv, RunStaticChecks PROVE IInv'
    OBVIOUS
  <1>1. TypeOK /\ func \in IRFunction(Hints)
    BY DEF IInv, TypeOK, Hints
  <1>2. func' = func /\ Code' = Code /\ Regs' = Regs /\ RegisterStates' = RegisterStates
          /\ EntryState' = EntryState
    BY DEF RunStaticChecks, Code, Regs, RegisterStates, EntryState, Params
  <1>3. pos' = 0 /\ pending' = {} /\ \A i \in Indices(Code) : walk'[i] = Unset
    BY DEF IInv, StaticInv, RunStaticChecks
  <1>4. CASE ~StaticChecks(func)
    <2>1. phase' = "rejected" /\ entry' = entry /\ queued' = queued
      BY <1>4 DEF RunStaticChecks
    <2>2. TypeOK'
      BY <1>1, <1>2, <2>1 DEF TypeOK, RunStaticChecks, run
    <2> QED
      BY <2>1, <2>2 DEF IInv, StaticInv, AnalysisInv, FlowInv, ReportInv, RunInv
  <1>5. CASE StaticChecks(func)
    <2>1. /\ phase' = "flow"
          /\ entry' = [b \in Leaders(Code) |-> IF b = 1 THEN EntryState ELSE Unset]
          /\ queued' = Leaders(Code) \cap {1}
      BY <1>5 DEF RunStaticChecks
    <2>2. EntryState \in RegisterStates /\ EntryState # Unset /\ Weaker(EntryState, EntryState)
      BY <1>1, <1>5, EntryStateType, UnsetIsNone, WeakerOrder DEF StaticChecks
    <2>3. TypeOK'
      BY <1>1, <1>2, <2>1, <2>2 DEF TypeOK, RunStaticChecks, run
    <2>4. AnalysisInv'
      BY <1>1, <1>2, <1>3, <1>5, <2>1, <2>2, Context DEF AnalysisInv
    <2> QED
      BY <1>3, <2>1, <2>3, <2>4 DEF IInv, StaticInv, FlowInv, ReportInv, RunInv
  <1> QED
    BY <1>4, <1>5

\* Taking the lowest block off the worklist starts a walk from its entry.
LEMMA PopBlockIInv == IInv /\ PopBlock => IInv'
  <1> SUFFICES ASSUME IInv, PopBlock PROVE IInv'
    OBVIOUS
  <1>1. TypeOK /\ AnalysisInv
    BY DEF IInv
  <1>2. func' = func /\ Code' = Code /\ Regs' = Regs /\ RegisterStates' = RegisterStates
          /\ EntryState' = EntryState
    BY DEF PopBlock, Code, Regs, RegisterStates, EntryState, Params
  <1>3. PICK b \in queued : /\ queued' = queued \ {b} /\ pos' = b /\ state' = entry[b]
                            /\ walk' = [walk EXCEPT ![b] = entry[b]]
    BY Zenon DEF PopBlock
  <1>4. /\ phase = "flow" /\ phase' = phase /\ entry' = entry /\ pos = 0
        /\ pending = {} /\ pending' = {}
    BY DEF PopBlock
  <1>5. /\ b \in Leaders(Code) /\ b \in Indices(Code)
        /\ entry[b] \in RegisterStates /\ entry[b] # Unset
    BY <1>1, <1>4, Context DEF AnalysisInv, TypeOK
  <1>6. walk'[b] = entry[b] /\ \A i \in Indices(Code) : i # b => walk'[i] = walk[i]
    BY <1>1, <1>3, <1>5 DEF TypeOK
  <1>7. TypeOK'
    BY <1>1, <1>2, <1>3, <1>4, <1>5, Context DEF TypeOK, PopBlock, run
  <1>8. AnalysisInv'
    <2>1. /\ StaticChecks(func)'
          /\ (Code # <<>> => entry[1] # Unset /\ Weaker(entry[1], EntryState))'
          /\ (\A c \in queued : entry[c] # Unset)'
      BY <1>1, <1>2, <1>3, <1>4 DEF AnalysisInv
    <2>2. /\ (\A c \in Leaders(Code) : walk[c] # Unset => entry[c] # Unset)'
          /\ (\A c \in Leaders(Code) : c \in queued \/ entry[c] = walk[c])'
      BY <1>1, <1>2, <1>3, <1>4, <1>5, <1>6, Context DEF AnalysisInv
    <2>3. (\A i \in Indices(Code) \ Leaders(Code) : walk[i] # Unset => walk[i - 1] # Unset)'
      <3> SUFFICES ASSUME NEW i \in Indices(Code) \ Leaders(Code), walk'[i] # Unset
                   PROVE  walk'[i - 1] # Unset
        BY <1>2
      <3>1. walk'[i] = walk[i] /\ walk[i - 1] # Unset
        BY <1>1, <1>4, <1>5, <1>6 DEF AnalysisInv
      <3>2. i - 1 \in Indices(Code)
        BY <1>1, Context
      <3> QED
        BY <1>5, <1>6, <3>1, <3>2
    <2>4. ASSUME NEW i \in Indices(Code), walk'[i] # Unset, i # b
          PROVE  Settled(i)'
      <3>1. walk'[i] = walk[i] /\ Settled(i)
        BY <1>1, <1>3, <1>4, <1>6, <2>4, Context DEF AnalysisInv
      <3>2. CASE IsLast(Code, i)
        BY <1>2, <1>4, <3>1, <3>2 DEF Settled
      <3>3. CASE ~IsLast(Code, i)
        <4>1. i + 1 \in Indices(Code) /\ i + 1 # b
          BY <1>1, <1>5, <3>3, Context, FlowFacts
        <4> QED
          BY <1>2, <1>6, <3>1, <3>3, <4>1 DEF Settled
      <3> QED
        BY <3>2, <3>3
    <2> QED
      BY <1>2, <1>3, <1>4, <2>1, <2>2, <2>3, <2>4 DEF AnalysisInv
  <1> QED
    BY <1>2, <1>3, <1>4, <1>5, <1>6, <1>7, <1>8
       DEF IInv, StaticInv, FlowInv, ReportInv, RunInv

\* Walking an instruction extends the walk, or leaves its successors pending.
LEMMA WalkInstrIInv == IInv /\ WalkInstr => IInv'
  <1> SUFFICES ASSUME IInv, WalkInstr PROVE IInv'
    OBVIOUS
  <1> DEFINE new == Step(Code[pos], state)
  <1>1. TypeOK /\ AnalysisInv /\ FlowInv
    BY SMTT(30) DEF IInv
  <1>2. func' = func /\ Code' = Code /\ Regs' = Regs /\ RegisterStates' = RegisterStates
          /\ EntryState' = EntryState
    BY DEF WalkInstr, Code, Regs, RegisterStates, EntryState, Params
  <1>3. /\ phase = "flow" /\ phase' = phase /\ entry' = entry /\ queued' = queued
        /\ pos \in Indices(Code) /\ pos # 0 /\ state' = new
        /\ pending = {} /\ walk[pos] = state /\ state # Unset
    BY SMTT(30), <1>1 DEF WalkInstr, FlowInv
  <1>4. state \in RegisterStates /\ new \in RegisterStates /\ new # Unset
    BY SMTT(30), <1>1, <1>3, StepInRange, Context DEF AnalysisInv, TypeOK
  <1> HIDE DEF new
  <1>5. /\ StaticChecks(func)'
        /\ (Code # <<>> => entry[1] # Unset /\ Weaker(entry[1], EntryState))'
        /\ (\A c \in queued : entry[c] # Unset)'
    BY <1>1, <1>2, <1>3 DEF AnalysisInv
  <1>6. CASE IsLast(Code, pos)
    <2>1. pos' = 0 /\ pending' = Successors(Code, pos) /\ walk' = walk
      BY <1>6 DEF WalkInstr
    <2>2. TypeOK'
      BY <1>1, <1>2, <1>3, <1>4, <1>6, <2>1, Context, LeaderFacts DEF TypeOK, WalkInstr, run
    <2>3. ASSUME NEW i \in Indices(Code), walk[i] # Unset
          PROVE  Settled(i)'
      <3>1. CASE i = pos
        BY <1>2, <1>3, <1>6, <2>1, <3>1 DEF Settled, new
      <3>2. CASE i # pos
        <4>1. Settled(i)
          BY SMTT(30), <1>1, <1>3, <2>3, <3>2 DEF AnalysisInv
        <4> QED
          BY <1>2, <1>3, <2>1, <4>1 DEF Settled
      <3> QED
        BY SMTT(30), <3>1, <3>2
    <2>4. AnalysisInv'
      BY SMTT(30), <1>1, <1>2, <1>3, <1>5, <2>1, <2>3 DEF AnalysisInv
    <2> QED
      BY <1>2, <1>3, <1>4, <2>1, <2>2, <2>4 DEF IInv, StaticInv, FlowInv, ReportInv, RunInv
  <1>7. CASE ~IsLast(Code, pos)
    <2>1. pos' = pos + 1 /\ pending' = {} /\ walk' = [walk EXCEPT ![pos + 1] = new]
      BY <1>3, <1>7 DEF WalkInstr, new
    <2>2. pos + 1 \in Indices(Code) \ Leaders(Code)
      BY <1>1, <1>3, <1>7, Context, FlowFacts
    <2>3. walk'[pos + 1] = new /\ \A i \in Indices(Code) : i # pos + 1 => walk'[i] = walk[i]
      BY SMTT(30), <1>1, <2>1, <2>2 DEF TypeOK
    <2>4. TypeOK'
      BY SMTT(30), <1>1, <1>2, <1>3, <1>4, <2>1, <2>2, Context DEF TypeOK, WalkInstr, run
    <2>5. /\ (\A c \in Leaders(Code) : walk[c] # Unset => entry[c] # Unset)'
          /\ (\A c \in Leaders(Code) : c \in queued \/ entry[c] = walk[c])'
      BY SMTT(30), <1>1, <1>2, <1>3, <2>2, <2>3, Context DEF AnalysisInv
    <2>6. (\A i \in Indices(Code) \ Leaders(Code) : walk[i] # Unset => walk[i - 1] # Unset)'
      <3> SUFFICES ASSUME NEW i \in Indices(Code) \ Leaders(Code), walk'[i] # Unset
                   PROVE  walk'[i - 1] # Unset
        BY <1>2
      <3>1. i \in Int /\ pos \in Int /\ (i = pos + 1 => i - 1 = pos)
        BY <1>1, <1>3, Context
      <3>2. walk[i - 1] # Unset
        BY <1>1, <1>3, <2>3, <3>1 DEF AnalysisInv
      <3>3. i - 1 \in Indices(Code)
        BY <1>1, Context
      <3> QED
        BY <1>4, <2>3, <3>2, <3>3
    <2>7. ASSUME NEW i \in Indices(Code), walk'[i] # Unset, i # pos + 1
          PROVE  Settled(i)'
      <3>1. walk'[i] = walk[i]
        BY <2>3, <2>7
      <3>2. CASE i = pos
        BY <1>2, <1>3, <1>7, <2>3, <3>1, <3>2 DEF Settled, new
      <3>3. CASE i # pos
        <4>1. Settled(i)
          BY SMTT(30), <1>1, <1>3, <2>7, <3>1, <3>3 DEF AnalysisInv
        <4>2. CASE IsLast(Code, i)
          BY SMTT(30), <1>2, <1>3, <3>1, <4>1, <4>2 DEF Settled
        <4>3. CASE ~IsLast(Code, i)
          <5>1. i + 1 \in Indices(Code) /\ i + 1 # pos + 1
            BY <1>1, <1>3, <3>3, <4>3, Context, FlowFacts
          <5> QED
            BY <1>2, <2>3, <3>1, <4>1, <4>3, <5>1 DEF Settled
        <4> QED
          BY SMTT(30), <4>2, <4>3
      <3> QED
        BY <3>2, <3>3
    <2>8. AnalysisInv'
      BY <1>2, <1>3, <1>5, <2>1, <2>5, <2>6, <2>7 DEF AnalysisInv
    <2> QED
      BY <1>2, <1>3, <1>4, <2>1, <2>2, <2>3, <2>4, <2>8
         DEF IInv, StaticInv, FlowInv, ReportInv, RunInv
  <1> QED
    BY <1>6, <1>7

\* What a successor's entry becomes is weaker than what it was and than what
\* the block hands it.
LEMMA PropagateLowers ==
    ASSUME IInv, NEW s \in pending, Propagate(s)
    PROVE  /\ s \in Leaders(Code) /\ state \in RegisterStates
           /\ entry'[s] \in RegisterStates
           /\ Weaker(entry'[s], state)
           /\ entry[s] # Unset => Weaker(entry'[s], entry[s])
           /\ \A t \in Leaders(Code) : t # s => entry'[t] = entry[t]
           /\ entry' \in [Leaders(Code) -> RegisterStates \cup {Unset}]
           /\ entry'[s] = entry[s] \/ s \in queued'
           /\ queued' \in {queued, queued \cup {s}}
  <1> DEFINE new == IF entry[s] = Unset THEN state ELSE Merge(entry[s], state)
  <1>1. TypeOK /\ FlowInv /\ phase = "flow" /\ pos = 0
    BY DEF IInv, Propagate
  <1>2. s \in Leaders(Code) /\ state \in RegisterStates
    BY <1>1 DEF TypeOK, FlowInv
  <1>3. entry[s] \in RegisterStates \cup {Unset}
    BY <1>1, <1>2 DEF TypeOK
  <1>4. /\ new \in RegisterStates /\ Weaker(new, state)
        /\ entry[s] # Unset => Weaker(new, entry[s])
    BY <1>2, <1>3, MergeLower, WeakerOrder
  <1>5. /\ entry' = [entry EXCEPT ![s] = new]
        /\ queued' = IF entry[s] = new THEN queued ELSE queued \cup {s}
    BY DEF Propagate
  <1> HIDE DEF new
  <1>6. entry'[s] = new /\ \A t \in Leaders(Code) : t # s => entry'[t] = entry[t]
    BY <1>1, <1>2, <1>5 DEF TypeOK
  <1>7. entry' \in [Leaders(Code) -> RegisterStates \cup {Unset}]
    BY SMTT(30), <1>1, <1>2, <1>4, <1>5 DEF TypeOK
  <1> QED
    BY <1>2, <1>4, <1>5, <1>6, <1>7

\* Merging into a successor keeps every walked block justified or queued.
LEMMA PropagateIInv == ASSUME IInv, NEW s \in pending, Propagate(s) PROVE IInv'
  <1>1. TypeOK /\ AnalysisInv
    BY DEF IInv
  <1>2. func' = func /\ Code' = Code /\ Regs' = Regs /\ RegisterStates' = RegisterStates
          /\ EntryState' = EntryState
    BY DEF Propagate, Code, Regs, RegisterStates, EntryState, Params
  <1>3. /\ phase = "flow" /\ phase' = phase /\ pos = 0 /\ pos' = 0 /\ state' = state /\ walk' = walk
        /\ pending' = pending \ {s}
    BY SMTT(30) DEF Propagate
  <1>4. /\ s \in Leaders(Code) /\ state \in RegisterStates /\ state # Unset
        /\ entry'[s] \in RegisterStates /\ entry'[s] # Unset
        /\ Weaker(entry'[s], state)
        /\ entry[s] # Unset => Weaker(entry'[s], entry[s])
        /\ \A t \in Leaders(Code) : t # s => entry'[t] = entry[t]
        /\ entry'[s] = entry[s] \/ s \in queued'
        /\ queued' \in {queued, queued \cup {s}}
    BY <1>1, PropagateLowers, Context
  <1>5. TypeOK'
    <2>1. entry' \in [Leaders(Code) -> RegisterStates \cup {Unset}]
      BY PropagateLowers
    <2> QED
      BY SMTT(30), <1>1, <1>2, <1>3, <1>4, <2>1 DEF TypeOK, Propagate, run
  <1>6. \A b \in Leaders(Code) : entry[b] \in RegisterStates \cup {Unset}
    BY <1>1 DEF TypeOK
  <1>7. AnalysisInv'
    <2>1. (Code # <<>> => entry[1] # Unset /\ Weaker(entry[1], EntryState))'
      <3> SUFFICES ASSUME Code # <<>> PROVE entry'[1] # Unset /\ Weaker(entry'[1], EntryState)
        BY SMTT(30), <1>2
      <3>1. entry[1] # Unset /\ Weaker(entry[1], EntryState) /\ StaticChecks(func)
        BY <1>1, <1>3 DEF AnalysisInv
      <3>2. EntryState \in RegisterStates
        BY <1>1, <3>1, EntryStateType DEF TypeOK, Hints, StaticChecks
      <3> QED
        BY <1>1, <1>4, <1>6, <3>1, <3>2, Context, WeakerOrder
    <2>2. /\ StaticChecks(func)'
          /\ (\A c \in queued : entry[c] # Unset)'
          /\ (\A c \in Leaders(Code) : walk[c] # Unset => entry[c] # Unset)'
          /\ (\A c \in Leaders(Code) : c \in queued \/ entry[c] = walk[c])'
          /\ (\A i \in Indices(Code) \ Leaders(Code) : walk[i] # Unset => walk[i - 1] # Unset)'
      BY <1>1, <1>2, <1>3, <1>4 DEF AnalysisInv, TypeOK
    <2>3. ASSUME NEW i \in Indices(Code), walk[i] # Unset
          PROVE  Settled(i)'
      <3>1. Settled(i) /\ StaticChecks(func)
        BY SMTT(30), <1>1, <1>3, <2>3, Context DEF AnalysisInv
      <3>2. CASE ~IsLast(Code, i)
        BY <1>2, <1>3, <3>1, <3>2 DEF Settled
      <3>3. CASE IsLast(Code, i)
        <4> DEFINE out == Step(Code[i], walk[i])
        <4>1. out \in RegisterStates
          BY <1>1, <2>3, <3>1, StepInRange DEF TypeOK
        <4> HIDE DEF out
        <4>2. ASSUME NEW t \in Successors(Code, i)
              PROVE  \/ t \in pending' /\ state = out
                     \/ entry'[t] # Unset /\ Weaker(entry'[t], out)
          <5>1. t \in Leaders(Code)
            BY <1>1, <3>3, Context, LeaderFacts
          <5>2. \/ t \in pending /\ state = out
                \/ entry[t] # Unset /\ Weaker(entry[t], out)
            BY <3>1, <3>3 DEF Settled, out
          <5>3. CASE t # s
            BY SMTT(30), <1>3, <1>4, <5>1, <5>2, <5>3
          <5>4. CASE t = s
            BY SMTT(30), <1>4, <1>6, <4>1, <5>1, <5>2, <5>4, WeakerOrder
          <5> QED
            BY <5>3, <5>4
        <4> QED
          BY <1>2, <1>3, <3>3, <4>2 DEF Settled, out
      <3> QED
        BY SMTT(30), <3>2, <3>3
    <2> QED
      BY SMTT(30), <1>2, <1>3, <2>1, <2>2, <2>3 DEF AnalysisInv
  <1> QED
    BY <1>2, <1>3, <1>4, <1>5, <1>7 DEF IInv, StaticInv, FlowInv, ReportInv, RunInv

\* The report starts with the worklist and the pending set empty.
LEMMA StartReportIInv == IInv /\ StartReport => IInv'
  <1> SUFFICES ASSUME IInv, StartReport PROVE IInv'
    OBVIOUS
  <1>1. TypeOK /\ AnalysisInv
    BY DEF IInv
  <1>2. func' = func /\ Code' = Code /\ Regs' = Regs /\ RegisterStates' = RegisterStates
          /\ EntryState' = EntryState
    BY DEF StartReport, analysis, Code, Regs, RegisterStates, EntryState, Params
  <1>3. /\ phase = "flow" /\ phase' = "report" /\ pos = 0 /\ pos' = 1
        /\ entry' = entry /\ queued' = {} /\ queued = {} /\ state' = state
        /\ pending' = {} /\ pending = {} /\ walk' = walk
    BY DEF StartReport, analysis
  <1>4. TypeOK'
    BY <1>1, <1>2, <1>3, Context DEF TypeOK, StartReport, run
  <1>5. \A i \in Indices(Code) : i # pos /\ ~(i < 1)
    BY <1>1, <1>3, Context
  <1>6. AnalysisInv'
    BY ZenonT(30), <1>1, <1>2, <1>3, <1>5 DEF AnalysisInv, Settled
  <1>7. 1 \in Indices(Code) => 1 \in Leaders(Code)
    BY SMTT(30), <1>1, Context
  <1> QED
    BY SMTT(30), <1>2, <1>3, <1>4, <1>5, <1>6, <1>7 DEF IInv, StaticInv, FlowInv, ReportInv, RunInv

\* Between the report walk and the end nothing of the analysis moves.
LEMMA AnalysisKept ==
    ASSUME AnalysisInv, phase \notin {"static", "flow", "rejected"}, phase' # "flow",
           func' = func, entry' = entry, queued' = queued, walk' = walk,
           pending = {}, pending' = {}
    PROVE  AnalysisInv'
  <1>1. Code' = Code /\ EntryState' = EntryState
    BY DEF Code, EntryState, Params, Regs
  <1>2. \A i \in Indices(Code) : Settled(i) => Settled(i)'
    BY <1>1 DEF Settled
  <1> QED
    BY <1>1, <1>2 DEF AnalysisInv

\* The report walk retraces the last walk of each block.
LEMMA ReportInstrIInv == IInv /\ ReportInstr => IInv'
  <1> SUFFICES ASSUME IInv, ReportInstr PROVE IInv'
    OBVIOUS
  <1> DEFINE st == IF pos \in Leaders(Code) THEN entry[pos] ELSE state
  <1>1. TypeOK /\ AnalysisInv /\ ReportInv
    BY SMTT(30) DEF IInv
  <1>2. func' = func /\ Code' = Code /\ Regs' = Regs /\ RegisterStates' = RegisterStates
    BY SMTT(30) DEF ReportInstr, Code, Regs, RegisterStates
  <1>3. /\ phase = "report" /\ entry' = entry /\ queued' = queued /\ pending' = pending
        /\ walk' = walk /\ queued = {} /\ pending = {}
    BY SMTT(30), <1>1 DEF ReportInstr, ReportInv
  <1>4. pos \in Indices(Code) /\ pos + 1 \in 0..(Len(Code) + 1)
    BY SMTT(30), <1>1, <1>3, Context DEF ReportInstr, ReportInv, TypeOK
  <1>5. st = walk[pos]
    BY SMTT(30), <1>1, <1>3, <1>4 DEF AnalysisInv, ReportInv
  <1>6. CASE phase' = "rejected"
    <2>1. state' = state /\ pos' = pos
      BY <1>3, <1>6 DEF ReportInstr
    <2>2. TypeOK'
      BY SMTT(30), <1>1, <1>2, <1>3, <1>6, <2>1 DEF TypeOK, ReportInstr, run
    <2> QED
      BY <1>6, <2>2 DEF IInv, StaticInv, AnalysisInv, FlowInv, ReportInv, RunInv
  <1>7. CASE phase' # "rejected"
    <2>1. /\ phase' = "report" /\ pos' = pos + 1
          /\ \/ st = Unset /\ state' = Unset
             \/ /\ st # Unset /\ state' = Step(Code[pos], st)
                /\ ReadsDefined(Code[pos], st) /\ HintHolds(Code[pos], st)
      BY SMTT(30), <1>3, <1>7 DEF ReportInstr
    <2>2. state' \in RegisterStates \cup {Unset}
      BY SMTT(30), <1>1, <1>3, <1>4, <1>5, <2>1, StepInRange DEF AnalysisInv, TypeOK
    <2>3. TypeOK'
      BY <1>1, <1>2, <1>3, <1>4, <2>1, <2>2 DEF TypeOK, ReportInstr, run
    <2>4. AnalysisInv'
      BY SMTT(30), <1>1, <1>2, <1>3, <2>1, AnalysisKept
    <2>5. ASSUME pos + 1 \in Indices(Code) \ Leaders(Code)
          PROVE  state' = walk[pos + 1]
      <3>1. ~IsLast(Code, pos) /\ (pos + 1) - 1 = pos
        BY <1>1, <1>4, <2>5, Context DEF IsLast
      <3>2. walk[pos] = Unset => walk[pos + 1] = Unset
        BY SMTT(30), <1>1, <1>3, <2>5, <3>1 DEF AnalysisInv
      <3>3. walk[pos] # Unset => walk[pos + 1] = Step(Code[pos], walk[pos])
        BY <1>1, <1>3, <1>4, <3>1 DEF AnalysisInv, Settled
      <3> QED
        BY <1>5, <2>1, <3>2, <3>3
    <2>6. \A i \in Indices(Code) : i < pos + 1 => Checked(i)
      <3>1. Checked(pos)
        BY <1>5, <2>1 DEF Checked
      <3>2. \A i \in Indices(Code) : i < pos => Checked(i)
        BY <1>1, <1>3 DEF ReportInv
      <3>3. \A i \in Indices(Code) : i < pos + 1 => i < pos \/ i = pos
        BY <1>1, <1>4, Context
      <3> QED
        BY SMTT(30), <3>1, <3>2, <3>3
    <2>7. \A i \in Indices(Code) : Checked(i) => Checked(i)'
      BY SMTT(30), <1>2, <1>3 DEF Checked
    <2>8. ReportInv'
      <3>1. pos + 1 # 0
        BY SMTT(30), <1>1, <1>4, Context
      <3> QED
        BY <1>2, <1>3, <2>1, <2>5, <2>6, <2>7, <3>1 DEF ReportInv
    <2> QED
      BY SMTT(30), <2>1, <2>3, <2>4, <2>8 DEF IInv, StaticInv, FlowInv, RunInv
  <1> QED
    BY <1>6, <1>7

\* Accepting means every reachable instruction was reported clean.
LEMMA AcceptIInv == IInv /\ Accept => IInv'
  <1> SUFFICES ASSUME IInv, Accept PROVE IInv'
    OBVIOUS
  <1>1. TypeOK /\ AnalysisInv /\ ReportInv
    BY DEF IInv
  <1>2. func' = func /\ Code' = Code /\ Regs' = Regs /\ RegisterStates' = RegisterStates
    BY DEF Accept, analysis, Code, Regs, RegisterStates
  <1>3. /\ phase = "report" /\ phase' = "accepted" /\ pos > Len(Code) /\ pos' = pos
        /\ entry' = entry /\ queued' = queued /\ pending' = pending /\ walk' = walk /\ state' = state
        /\ queued = {} /\ pending = {}
    BY SMTT(30), <1>1 DEF Accept, analysis, ReportInv
  <1>4. TypeOK'
    BY <1>1, <1>2, <1>3 DEF TypeOK, Accept, run
  <1>5. AnalysisInv'
    BY <1>1, <1>2, <1>3, AnalysisKept
  <1>6. \A i \in Indices(Code) : i < pos
    BY SMTT(30), <1>1, <1>3, Context DEF TypeOK
  <1>7. ReportInv'
    BY SMTT(30), <1>1, <1>2, <1>3, <1>6 DEF ReportInv, Checked
  <1> QED
    BY <1>3, <1>4, <1>5, <1>7 DEF IInv, StaticInv, FlowInv, RunInv

\* A call enters with the state the entry block promises.
LEMMA CallIInv == IInv /\ Call => IInv'
  <1> SUFFICES ASSUME IInv, Call PROVE IInv'
    OBVIOUS
  <1>1. TypeOK /\ AnalysisInv /\ ReportInv
    BY DEF IInv
  <1>2. func' = func /\ Code' = Code /\ Regs' = Regs /\ RegisterStates' = RegisterStates
    BY DEF Call, analysis, Code, Regs, RegisterStates
  <1>3. /\ phase = "accepted" /\ phase' = "running" /\ pos' = pos
        /\ entry' = entry /\ queued' = queued /\ pending' = pending /\ walk' = walk /\ state' = state
        /\ queued = {} /\ pending = {}
        /\ pc' = 1 /\ defined' = Params /\ type' \in [Regs -> Types] /\ Code # <<>>
    BY <1>1 DEF Call, analysis, ReportInv
  <1>4. EntryState \in RegisterStates /\ Params \subseteq Regs
    <2>1. StaticChecks(func) /\ func \in IRFunction(Hints)
      BY <1>1, <1>3 DEF AnalysisInv, TypeOK, Hints
    <2> QED
      BY SMTT(30), <2>1, EntryStateType DEF StaticChecks, EntryState, RegisterStates
  <1>5. 1 \in Leaders(Code) /\ 1 \in Indices(Code)
    BY SMTT(30), <1>1, <1>3, Context
  <1>6. TypeOK'
    BY <1>1, <1>2, <1>3, <1>4, <1>5 DEF TypeOK
  <1>7. AnalysisInv'
    BY <1>1, <1>2, <1>3, AnalysisKept
  <1>8. ReportInv'
    BY SMTT(30), <1>1, <1>2, <1>3 DEF ReportInv, Checked
  <1>9. walk[1] # Unset /\ Weaker(walk[1], EntryState)
    BY SMTT(30), <1>1, <1>3, <1>5 DEF AnalysisInv
  <1>10. walk[1].defined \subseteq Params /\ \A r \in Regs : walk[1].type[r] = UNKNOWN
    BY SMTT(30), <1>9 DEF Weaker, EntryState
  <1>11. RunInv'
    BY SMTT(30), <1>2, <1>3, <1>9, <1>10 DEF RunInv
  <1> QED
    BY <1>3, <1>6, <1>7, <1>8, <1>11 DEF IInv, StaticInv, FlowInv

\* The fixpoint, stated on the instruction-level flow.
LEMMA FixpointFromIInv == IInv => Fixpoint
  <1> SUFFICES ASSUME IInv, phase \notin {"static", "flow", "rejected"},
                      NEW i \in Indices(Code), walk[i] # Unset, NEW j \in Flow(Code, i)
               PROVE  walk[j] # Unset /\ Weaker(walk[j], Step(Code[i], walk[i]))
    BY DEF Fixpoint
  <1>1. TypeOK /\ AnalysisInv /\ queued = {} /\ pending = {}
    BY DEF IInv, ReportInv
  <1>2. Settled(i) /\ StaticChecks(func) /\ walk[i] \in RegisterStates
    BY SMTT(30), <1>1 DEF AnalysisInv, TypeOK
  <1>3. Step(Code[i], walk[i]) \in RegisterStates
    BY SMTT(30), <1>1, <1>2, StepInRange
  <1>4. CASE IsLast(Code, i)
    <2>1. j \in Successors(Code, i) /\ j \in Leaders(Code)
      BY SMTT(30), <1>1, <1>4, Context, FlowFacts, LeaderFacts
    <2>2. entry[j] = walk[j]
      BY SMTT(30), <1>1, <2>1 DEF AnalysisInv
    <2> QED
      BY <1>1, <1>2, <1>4, <2>1, <2>2 DEF Settled
  <1>5. CASE ~IsLast(Code, i)
    <2>1. j = i + 1
      BY SMTT(30), <1>1, <1>5, Context, FlowFacts
    <2>2. walk[j] = Step(Code[i], walk[i])
      BY SMTT(30), <1>2, <1>5, <2>1 DEF Settled
    <2> QED
      BY <1>1, <1>3, <2>2, WeakerOrder, Context
  <1> QED
    BY SMTT(30), <1>4, <1>5

\* The result type the analysis knows is the one a run produces, when the
\* operand types it knows are right.
LEMMA ResultTypeSound ==
    ASSUME NEW instr \in IRInstruction(Hints), NEW st \in RegisterStates, HintHolds(instr, st),
           NEW types \in [Regs -> Types], SeqElems(instr.srcs) \subseteq Regs,
           \A r \in Regs : st.type[r] \in {UNKNOWN, types[r]}
    PROVE  /\ ResultType(instr, types) \in Types \cup {UNKNOWN}
           /\ ResultType(instr, st.type) \in {UNKNOWN, ResultType(instr, types)}
  <1>1. instr.hint \in Hints /\ (instr.op = "CONVERT" => instr.hint \in Types)
    BY DEF IRInstruction, HintHolds, Hints
  <1>2. instr.op = "MOVE" => instr.srcs[1] \in Regs
    <2>1. instr.op = "MOVE" => instr.srcs[1] \in SeqElems(instr.srcs)
      BY DEF IRInstruction, SeqElems
    <2> QED
      BY <2>1
  <1>3. ResultType(instr, types) \in Types \cup {UNKNOWN}
    BY <1>1, <1>2, TypesAssumption DEF ResultType, Hints
  <1>4. CASE instr.op = "MOVE"
    BY <1>2, <1>3, <1>4 DEF ResultType
  <1>5. CASE instr.op # "MOVE"
    <2>1. ResultType(instr, st.type) = ResultType(instr, types)
      BY <1>5 DEF ResultType
    <2> QED
      BY <1>3, <2>1
  <1> QED
    BY SMTT(30), <1>3, <1>4, <1>5

\* A step of the run goes where the fixpoint says, with what it promises.
LEMMA ExecuteIInv == IInv /\ Execute => IInv'
  <1> SUFFICES ASSUME IInv, Execute PROVE IInv'
    OBVIOUS
  <1> DEFINE instr == Code[pc]
             before == walk[pc]
             known == ResultType(instr, type)
             after == Step(instr, before)
  <1>1. TypeOK /\ AnalysisInv /\ ReportInv /\ RunInv /\ Fixpoint
    BY FixpointFromIInv DEF IInv
  <1>2. func' = func /\ Code' = Code /\ Regs' = Regs /\ RegisterStates' = RegisterStates
    BY DEF Execute, analysis, Code, Regs, RegisterStates
  <1>3. /\ phase = "running" /\ phase' \in {"running", "halted"} /\ pos' = pos
        /\ entry' = entry /\ queued' = queued /\ pending' = pending /\ walk' = walk /\ state' = state
        /\ queued = {} /\ pending = {}
        /\ defined' = defined \cup Writes(instr)
        /\ phase' = "running" => pc' \in Flow(Code, pc)
        /\ pc' \in Flow(Code, pc) \cup {pc}
    BY SMTT(30), <1>1 DEF Execute, analysis, ReportInv
  <1>4. /\ pc \in Indices(Code) /\ type \in [Regs -> Types] /\ instr \in IRInstruction(Hints)
        /\ before # Unset /\ before \in RegisterStates /\ HintHolds(instr, before)
        /\ before.defined \subseteq defined
        /\ \A r \in Regs : before.type[r] \in {UNKNOWN, type[r]}
    BY SMTT(30), <1>1, <1>3, Context DEF TypeOK, RunInv, ReportInv, Checked
  <1>5. SeqElems(instr.srcs) \cup Writes(instr) \subseteq Regs
    BY ZenonT(30), <1>1, <1>3, <1>4, StepInRange DEF AnalysisInv
  <1>6. known \in Types \cup {UNKNOWN} /\ ResultType(instr, before.type) \in {UNKNOWN, known}
    BY <1>4, <1>5, ResultTypeSound
  <1> HIDE DEF known
  <1>7. IF instr.dst = NoReg
        THEN type' = type
        ELSE /\ instr.dst \in Regs
             /\ \E t \in Types : /\ type' = [type EXCEPT ![instr.dst] = t]
                                 /\ known \in {UNKNOWN, t}
    <2>1. CASE instr.dst = NoReg
      BY SMTT(30), <2>1 DEF Execute
    <2>2. CASE instr.dst # NoReg
      <3>1. PICK t \in (IF known = UNKNOWN THEN Types ELSE {known}) :
                 type' = [type EXCEPT ![instr.dst] = t]
        BY <2>2 DEF Execute, known
      <3>2. instr.dst \in Regs
        BY <1>5, <2>2 DEF Writes
      <3> QED
        BY ZenonT(30), <1>6, <2>2, <3>1, <3>2
    <2> QED
      BY <2>1, <2>2
  <1>8. /\ type' \in [Regs -> Types] /\ defined' \subseteq Regs
        /\ pc' \in Indices(Code)
    <2>1. type' \in [Regs -> Types]
      BY SMTT(30), <1>4, <1>7
    <2>2. pc' \in Indices(Code)
      BY SMTT(30), <1>1, <1>3, <1>4, Context, FlowFacts
    <2> QED
      BY <1>1, <1>3, <1>5, <2>1, <2>2 DEF TypeOK
  <1>9. TypeOK'
    BY <1>1, <1>2, <1>3, <1>8 DEF TypeOK
  <1>10. AnalysisInv'
    BY SMTT(30), <1>1, <1>2, <1>3, AnalysisKept
  <1>11. ReportInv'
    BY SMTT(30), <1>1, <1>2, <1>3 DEF ReportInv, Checked
  <1>12. /\ after.defined \subseteq defined'
         /\ \A r \in Regs : after.type[r] \in {UNKNOWN, type'[r]}
    <2>1. CASE instr.dst = NoReg
      BY SMTT(30), <1>3, <1>4, <1>7, <2>1 DEF Step
    <2>2. CASE instr.dst # NoReg
      <3>1. /\ after.defined = before.defined \cup {instr.dst}
            /\ after.type = [before.type EXCEPT ![instr.dst] = ResultType(instr, before.type)]
        BY SMTT(30), <2>2 DEF Step
      <3>2. after.defined \subseteq defined'
        BY <1>3, <1>4, <2>2, <3>1 DEF Writes
      <3>3. PICK t \in Types : type' = [type EXCEPT ![instr.dst] = t] /\ known \in {UNKNOWN, t}
        BY SMTT(30), <1>7, <2>2
      <3>4. \A r \in Regs : after.type[r] \in {UNKNOWN, type'[r]}
        <4>1. before.type \in [Regs -> Types \cup {UNKNOWN, NoHint}]
          BY <1>4 DEF RegisterStates
        <4> HIDE DEF before, instr, after
        <4> QED
          BY SMTT(30), <1>4, <1>6, <3>1, <3>3, <4>1
      <3> QED
        BY SMTT(30), <3>2, <3>4
    <2> QED
      BY SMTT(30), <2>1, <2>2
  <1>13. RunInv'
    <2> SUFFICES ASSUME phase' = "running"
                 PROVE  /\ walk[pc'] # Unset
                        /\ walk[pc'].defined \subseteq defined'
                        /\ \A r \in Regs : walk[pc'].type[r] \in {UNKNOWN, type'[r]}
      BY SMTT(30), <1>2, <1>3 DEF RunInv
    <2>1. walk[pc'] # Unset /\ Weaker(walk[pc'], after)
      BY SMTT(30), <1>1, <1>3, <1>4 DEF Fixpoint
    <2>2. after \in RegisterStates
      BY <1>1, <1>3, <1>4, StepInRange DEF AnalysisInv
    <2>3. DOMAIN after.type = Regs
      BY <2>2 DEF RegisterStates
    <2> HIDE DEF after
    <2> QED
      BY SMTT(30), <1>12, <2>1, <2>3 DEF Weaker
  <1> QED
    BY <1>3, <1>9, <1>10, <1>11, <1>13 DEF IInv, StaticInv, FlowInv

\* Every step keeps the invariant.
LEMMA NextIInv == IInv /\ [Next]_vars => IInv'
  <1> SUFFICES ASSUME IInv, [Next]_vars PROVE IInv'
    BY SMTT(30)
  <1>1. CASE UNCHANGED vars
    <2>1. func' = func /\ Code' = Code /\ Regs' = Regs /\ RegisterStates' = RegisterStates
            /\ EntryState' = EntryState
      BY <1>1 DEF vars, Code, Regs, RegisterStates, EntryState, Params
    <2> QED
      BY ZenonT(30), <1>1, <2>1 DEF vars, IInv, TypeOK, StaticInv, AnalysisInv, FlowInv, ReportInv, RunInv,
                        Settled, Checked
  <1>2. CASE \E s \in pending : Propagate(s)
    BY <1>2, PropagateIInv
  <1>3. CASE Done
    BY <1>1, <1>3 DEF Done
  <1> QED
    BY <1>1, <1>2, <1>3, RunStaticChecksIInv, PopBlockIInv, WalkInstrIInv, StartReportIInv,
       ReportInstrIInv, AcceptIInv, CallIInv, ExecuteIInv DEF Next, Verify

-----------------------------------------------------------------------------

\* The strengthened invariant holds in every reachable state.
THEOREM IInvInvariant == Spec => []IInv
  BY InitIInv, NextIInv, PTL DEF Spec

\* Every variable of the verifier and of the run keeps its type.
THEOREM TypeCorrect == Spec => []TypeOK
  <1>1. IInv => TypeOK
    BY DEF IInv
  <1> QED
    BY <1>1, IInvInvariant, PTL

\* For every function: once ir_verify() accepts it, no run of it reads a
\* register before something wrote it, on any path, loops included.
THEOREM AcceptedReadsDefined == Spec => []NoUndefinedRead
  <1>1. IInv => NoUndefinedRead
    <2> SUFFICES ASSUME IInv, phase = "running"
                 PROVE  ReadsDefined(Code[pc], [defined |-> defined])
      BY SMTT(30) DEF NoUndefinedRead
    <2>1. pc \in Indices(Code) /\ Checked(pc) /\ walk[pc] # Unset /\ walk[pc].defined \subseteq defined
      BY SMTT(30) DEF IInv, TypeOK, ReportInv, RunInv
    <2> QED
      BY <2>1 DEF Checked, ReadsDefined
  <1> QED
    BY <1>1, IInvInvariant, PTL

\* For every function: a register type the analysis holds for known at an
\* instruction is the type of the value there, in every run.
THEOREM KnownTypesSound == Spec => []KnownTypesHold
  <1>1. IInv => KnownTypesHold
    BY DEF IInv, RunInv, KnownTypesHold
  <1> QED
    BY <1>1, IInvInvariant, PTL

\* The loop leaves a fixpoint of the instruction-level flow when its worklist
\* is empty: no block is left with a result a successor has not seen.
THEOREM WorklistReachesFixpoint == Spec => []Fixpoint
  BY FixpointFromIInv, IInvInvariant, PTL

\* Every entry state only descends, by every step of the analysis.
THEOREM EntriesOnlyDescend == Spec => EntriesDescend
  <1> DEFINE Descend == \A b \in Leaders(Code) : entry[b] # Unset => Weaker(entry'[b], entry[b])
  <1>1. IInv /\ [Next]_vars => [Descend]_vars
    <2> SUFFICES ASSUME IInv, Next, NEW b \in Leaders(Code), entry[b] # Unset
                 PROVE  Weaker(entry'[b], entry[b])
      BY DEF Descend
    <2>1. TypeOK
      BY DEF IInv
    <2>2. Weaker(entry[b], entry[b])
      BY <2>1, WeakerOrder DEF TypeOK
    <2>3. CASE entry' = entry
      BY <2>2, <2>3
    <2>4. CASE RunStaticChecks
      BY SMTT(30), <2>4 DEF IInv, StaticInv, RunStaticChecks
    <2>5. CASE \E s \in pending : Propagate(s)
      <3>1. PICK s \in pending : Propagate(s)
        BY <2>5
      <3> QED
        BY <2>2, <3>1, PropagateLowers
    <2> QED
      BY <2>3, <2>4, <2>5 DEF Next, Verify, PopBlock, WalkInstr, StartReport, ReportInstr, Accept,
                              Call, Execute, Done, vars, analysis
  <1> QED
    BY <1>1, IInvInvariant, PTL DEF Spec, EntriesDescend

=============================================================================
