-------------------------- MODULE ScopeMarksProofs --------------------------
(***************************************************************************)
(* What check_scope_marks() promises, for every function, number of scopes *)
(* and depth of callers.  The shape of the argument is that of             *)
(* DefinednessProofs; what differs is the pass that moves marks first, the *)
(* queue, which is a sequence that may name a block twice, and the run,    *)
(* where a marked scope is one whose slot is not below the callers' count. *)
(***************************************************************************)
EXTENDS ScopeMarks, IRProofs, SequenceTheorems, TLAPS

\* What a walked instruction leaves behind has reached what comes after it, or
\* is still to be handed to that successor.
Settled(i) ==
    IF IsLast(code, i)
    THEN \A s \in Successors(code, i) :
            \/ s \in pending /\ marked = Step(code[i], walk[i])
            \/ entry[s] # Unseen /\ entry[s] \subseteq Step(code[i], walk[i])
    ELSE walk[i + 1] = Step(code[i], walk[i])

Checked(i) == walk[i] # Unseen => ReleaseMarked(code[i], walk[i])

TightenInv ==
    phase = "tighten" =>
        /\ queue = <<>> /\ pending = {} /\ pos # 0
        /\ \A i \in Indices(code) : walk[i] = Unseen

AnalysisInv ==
    phase \notin {"tighten", "rejected"} =>
        /\ code # <<>> => entry[1] = {}
        /\ \A b \in SeqElems(queue) : entry[b] # Unseen
        /\ \A b \in Leaders(code) : walk[b] # Unseen => entry[b] # Unseen
        /\ \A b \in Leaders(code) : b \in SeqElems(queue) \/ entry[b] = walk[b]
        /\ \A i \in Indices(code) \ Leaders(code) : walk[i] # Unseen => walk[i - 1] # Unseen
        /\ \A i \in Indices(code) :
              walk[i] # Unseen /\ ~(phase = "flow" /\ pos = i) => Settled(i)

FlowInv ==
    phase = "flow" =>
        /\ pos # 0 => pos \in Indices(code) /\ pending = {} /\ walk[pos] = marked /\ marked # Unseen
        /\ pending # {} => marked # Unseen

ReportInv ==
    /\ phase \notin {"tighten", "flow", "rejected"} => queue = <<>> /\ pending = {}
    /\ phase = "report" =>
        /\ pos # 0
        /\ pos \in Indices(code) \ Leaders(code) => marked = walk[pos]
        /\ \A i \in Indices(code) : i < pos => Checked(i)
    /\ phase \in {"accepted", "running"} => \A i \in Indices(code) : Checked(i)

RunInv ==
    /\ owned >= Base
    /\ phase = "running" => walk[pc] # Unseen /\ \A s \in walk[pc] : slot[s] >= Base

IInv == TypeOK /\ TightenInv /\ AnalysisInv /\ FlowInv /\ ReportInv /\ RunInv

-----------------------------------------------------------------------------

\* What every state provides the steps below with.
LEMMA Context ==
    ASSUME TypeOK
    PROVE  /\ code \in Seq(SeqElems(source))
           /\ Len(code) \in Nat /\ Len(source) = Len(code)
           /\ Indices(code) = 1..Len(code) /\ Indices(source) = Indices(code)
           /\ \A i \in Indices(code) : code[i] \in SeqElems(source)
           /\ \A i \in Indices(code) : code[i].op \in ScopeOps => code[i].imm \in Scopes
           /\ Unseen \notin MarkSets
           /\ Leaders(code) \subseteq Indices(code)
           /\ code # <<>> => 1 \in Leaders(code)
           /\ Indices(code) # {} => code # <<>>
  <1>1. code \in Seq(SeqElems(source)) /\ Len(source) = Len(code)
    BY DEF TypeOK
  <1>2. Len(code) \in Nat /\ Indices(code) = 1..Len(code) /\ Indices(source) = Indices(code)
    BY <1>1 DEF Indices
  <1>3. \A i \in Indices(code) : code[i] \in SeqElems(source)
    BY <1>1, <1>2
  <1>4. \A i \in Indices(code) : code[i].op \in ScopeOps => code[i].imm \in Scopes
    BY <1>3 DEF Scopes, SeqElems, Indices
  <1>5. Unseen \notin MarkSets
    BY DEF TypeOK, Unseen, MarkSets
  <1>6. Indices(code) # {} => code # <<>>
    BY <1>1, <1>2
  <1> QED
    BY <1>1, <1>2, <1>3, <1>4, <1>5, <1>6, LeaderFacts

\* One instruction of the check keeps a set of scopes a set of scopes.
LEMMA StepType ==
    ASSUME TypeOK, NEW i \in Indices(code), NEW set \in MarkSets
    PROVE  Step(code[i], set) \in MarkSets /\ Step(code[i], set) # Unseen
  BY Context DEF Step, MarkSets, ScopeOps

\* Sliding a mark down permutes the instructions.
LEMMA SlideDownType ==
    ASSUME TypeOK, NEW i \in Indices(code), NEW l \in Indices(code), SlidesTo(code, i, l)
    PROVE  SlideDown(code, i, l) \in Seq(SeqElems(source)) /\ Len(SlideDown(code, i, l)) = Len(code)
  <1> DEFINE n == Len(code)
             S == SeqElems(source)
             e(k) == IF k < i \/ k >= l THEN code[k] ELSE IF k = l - 1 THEN code[i] ELSE code[k + 1]
  <1>1. n \in Nat /\ i \in 1..n /\ l \in 1..n /\ \A k \in 1..n : code[k] \in S
    BY Context
  <1>2. \A k \in 1..n : e(k) \in S
    <2> SUFFICES ASSUME NEW k \in 1..n, ~(k < i \/ k >= l), k # l - 1
                 PROVE  code[k + 1] \in S
      BY <1>1
    <2>1. k + 1 \in 1..n
      BY <1>1
    <2> QED
      BY <1>1, <2>1
  <1>3. SlideDown(code, i, l) = [k \in 1..n |-> e(k)]
    BY DEF SlideDown, Indices
  <1> HIDE DEF n, S, e
  <1>4. [k \in 1..n |-> e(k)] \in Seq(S)
    BY <1>1, <1>2
  <1>5. Len([k \in 1..n |-> e(k)]) = n
    BY <1>1
  <1> QED
    BY <1>3, <1>4, <1>5 DEF n, S

\* Before the pass nothing has been claimed.
LEMMA InitIInv == Init => IInv
  <1> SUFFICES ASSUME Init PROVE IInv
    OBVIOUS
  <1>1. /\ source \in Seq(IRInstruction({NoHint})) /\ code = source
        /\ \A i \in Indices(source) : source[i].op \in ScopeOps => source[i].imm \in Nat
    BY Zenon, CodesAssumption DEF Init
  <1>2. Scopes \subseteq Nat
    BY <1>1 DEF Scopes
  <1>3. Len(source) \in Nat /\ source \in Seq(SeqElems(source))
    BY <1>1 DEF SeqElems
  <1>4. <<>> \in Seq(Leaders(code))
    OBVIOUS
  <1>5. TypeOK
    BY <1>1, <1>2, <1>3, <1>4, BaseAssumption DEF Init, TypeOK
  <1> QED
    BY <1>5, BaseAssumption DEF Init, IInv, TightenInv, AnalysisInv, FlowInv, ReportInv, RunInv

\* Sliding a mark changes the code and no claim about it.
LEMMA TightenMarkIInv == IInv /\ TightenMark => IInv'
  <1> SUFFICES ASSUME IInv, TightenMark PROVE IInv'
    OBVIOUS
  <1>1. TypeOK /\ TightenInv /\ RunInv
    BY DEF IInv
  <1>2. /\ phase = "tighten" /\ phase' = phase /\ source' = source /\ pos' = pos + 1
        /\ entry' = entry /\ queue' = <<>> /\ marked' = marked /\ pending' = {} /\ walk' = walk
        /\ slot' = slot /\ owned' = owned /\ pc' = pc /\ pos # 0 /\ pos < Len(code)
    BY <1>1 DEF TightenMark, TightenInv, analysis, run
  <1>3. pos \in Indices(code) /\ pos + 1 \in 0..(Len(source) + 1) /\ pos + 1 # 0
    BY <1>1, <1>2, Context DEF TypeOK
  <1>4. code' \in Seq(SeqElems(source)) /\ Len(code') = Len(code)
    BY <1>1, <1>3, SlideDownType, Context DEF TightenMark
  <1>5. Scopes' = Scopes /\ MarkSets' = MarkSets
    BY <1>2 DEF Scopes, MarkSets
  <1>6. <<>> \in Seq(Leaders(code)')
    OBVIOUS
  <1>7. TypeOK'
    BY <1>1, <1>2, <1>3, <1>4, <1>5, <1>6 DEF TypeOK
  <1>8. Indices(code)' = Indices(code)
    BY <1>4 DEF Indices
  <1>9. TightenInv'
    BY <1>1, <1>2, <1>3, <1>8 DEF TightenInv
  <1> QED
    BY <1>1, <1>2, <1>7, <1>9 DEF IInv, AnalysisInv, FlowInv, ReportInv, RunInv

\* The check starts with nothing marked at block 0.
LEMMA StartFlowIInv == IInv /\ StartFlow => IInv'
  <1> SUFFICES ASSUME IInv, StartFlow PROVE IInv'
    OBVIOUS
  <1>1. TypeOK /\ TightenInv /\ RunInv
    BY DEF IInv
  <1>2. /\ phase = "tighten" /\ phase' = "flow" /\ source' = source /\ code' = code /\ pos' = 0
        /\ entry' = [b \in Leaders(code) |-> IF b = 1 THEN {} ELSE Unseen]
        /\ queue' = IF code = <<>> THEN <<>> ELSE <<1>>
        /\ marked' = marked /\ pending' = {} /\ walk' = walk
        /\ slot' = slot /\ owned' = owned /\ pc' = pc
        /\ \A i \in Indices(code) : walk[i] = Unseen
    BY <1>1 DEF StartFlow, TightenInv, run
  <1>3. Scopes' = Scopes /\ MarkSets' = MarkSets
    BY <1>2 DEF Scopes, MarkSets
  <1>4. /\ queue' \in Seq(Leaders(code))
        /\ code # <<>> => SeqElems(queue') = {1}
        /\ code = <<>> => SeqElems(queue') = {}
    <2>1. CASE code = <<>>
      BY <1>2, <2>1 DEF SeqElems
    <2>2. CASE code # <<>>
      <3>1. queue' = <<1>> /\ 1 \in Leaders(code)
        BY <1>1, <1>2, <2>2, Context
      <3> QED
        BY <2>2, <3>1 DEF SeqElems
    <2> QED
      BY <2>1, <2>2
  <1>5. TypeOK'
    BY <1>1, <1>2, <1>3, <1>4 DEF TypeOK, MarkSets
  <1>6. AnalysisInv'
    <2>1. Unseen # {} /\ Leaders(code) \subseteq Indices(code)
      BY <1>1, Context DEF Unseen
    <2>2. Leaders(code) # {} => code # <<>> /\ 1 \in Leaders(code)
      BY <1>1, Context
    <2> QED
      BY <1>2, <1>4, <2>1, <2>2 DEF AnalysisInv
  <1> QED
    BY <1>1, <1>2, <1>5, <1>6 DEF IInv, TightenInv, FlowInv, ReportInv, RunInv

\* Taking the front block off the queue starts a walk from its entry.
LEMMA PopBlockIInv == IInv /\ PopBlock => IInv'
  <1> SUFFICES ASSUME IInv, PopBlock PROVE IInv'
    OBVIOUS
  <1> DEFINE b == Head(queue)
  <1>1. TypeOK /\ AnalysisInv /\ RunInv
    BY DEF IInv
  <1>2. /\ phase = "flow" /\ phase' = phase /\ source' = source /\ code' = code
        /\ pos = 0 /\ pos' = b /\ entry' = entry /\ queue # <<>> /\ queue' = Tail(queue)
        /\ marked' = entry[b] /\ pending = {} /\ pending' = {}
        /\ walk' = [walk EXCEPT ![b] = entry[b]]
        /\ slot' = slot /\ owned' = owned /\ pc' = pc
    BY DEF PopBlock, run
  <1>3. Scopes' = Scopes /\ MarkSets' = MarkSets
    BY <1>2 DEF Scopes, MarkSets
  <1>4. /\ b \in Leaders(code) /\ b \in SeqElems(queue)
        /\ queue' \in Seq(Leaders(code))
        /\ SeqElems(queue') \subseteq SeqElems(queue)
        /\ SeqElems(queue) \subseteq SeqElems(queue') \cup {b}
    <2>1. queue \in Seq(Leaders(code)) /\ Len(queue) \in Nat /\ Len(queue) > 0
      BY <1>1, <1>2 DEF TypeOK
    <2>2. b = queue[1] /\ queue' \in Seq(Leaders(code)) /\ Len(queue') = Len(queue) - 1
            /\ \A i \in 1..Len(queue') : queue'[i] = queue[i + 1]
      <3>1. b = queue[1]
        BY <1>2, <2>1
      <3>2. /\ Tail(queue) \in Seq(Leaders(code)) /\ Len(Tail(queue)) = Len(queue) - 1
            /\ \A i \in 1..Len(Tail(queue)) : Tail(queue)[i] = queue[i + 1]
        BY <1>2, <2>1, HeadTailProperties
      <3> QED
        BY <1>2, <3>1, <3>2
    <2>3. SeqElems(queue') \subseteq SeqElems(queue)
      BY <2>1, <2>2 DEF SeqElems
    <2>4. SeqElems(queue) \subseteq SeqElems(queue') \cup {b}
      <3> SUFFICES ASSUME NEW i \in 1..Len(queue), i # 1 PROVE queue[i] \in SeqElems(queue')
        BY Zenon, <2>2 DEF SeqElems
      <3>1. i - 1 \in 1..Len(queue') /\ (i - 1) + 1 = i
        BY <2>1, <2>2
      <3> QED
        BY Zenon, <2>2, <3>1 DEF SeqElems
    <2>5. b \in SeqElems(queue) /\ b \in Leaders(code)
      <3>1. 1 \in 1..Len(queue)
        BY <2>1
      <3> QED
        BY <2>1, <2>2, <3>1 DEF SeqElems
    <2> QED
      BY <2>2, <2>3, <2>4, <2>5
  <1>5. /\ b \in Indices(code) /\ entry[b] \in MarkSets /\ entry[b] # Unseen
    BY SMTT(30), <1>1, <1>2, <1>4, Context DEF AnalysisInv, TypeOK
  <1> HIDE DEF b
  <1>6. walk'[b] = entry[b] /\ \A i \in Indices(code) : i # b => walk'[i] = walk[i]
    BY <1>1, <1>2, <1>5, Context DEF TypeOK
  <1>7. TypeOK'
    BY SMTT(30), <1>1, <1>2, <1>3, <1>4, <1>5, Context DEF TypeOK
  <1>8. AnalysisInv'
    <2>1. /\ (code # <<>> => entry[1] = {})'
          /\ (\A c \in SeqElems(queue) : entry[c] # Unseen)'
      BY SMTT(30), <1>1, <1>2, <1>4 DEF AnalysisInv
    <2>2. /\ (\A c \in Leaders(code) : walk[c] # Unseen => entry[c] # Unseen)'
          /\ (\A c \in Leaders(code) : c \in SeqElems(queue) \/ entry[c] = walk[c])'
      BY <1>1, <1>2, <1>4, <1>5, <1>6, Context DEF AnalysisInv
    <2>3. (\A i \in Indices(code) \ Leaders(code) : walk[i] # Unseen => walk[i - 1] # Unseen)'
      <3> SUFFICES ASSUME NEW i \in Indices(code) \ Leaders(code), walk'[i] # Unseen
                   PROVE  walk'[i - 1] # Unseen
        BY <1>2
      <3>1. walk'[i] = walk[i] /\ walk[i - 1] # Unseen
        BY <1>1, <1>2, <1>4, <1>6 DEF AnalysisInv
      <3>2. i - 1 \in Indices(code)
        BY <1>1, Context
      <3> QED
        BY <1>5, <1>6, <3>1, <3>2
    <2>4. ASSUME NEW i \in Indices(code), walk'[i] # Unseen, i # b
          PROVE  Settled(i)'
      <3>1. walk'[i] = walk[i] /\ Settled(i)
        BY SMTT(30), <1>1, <1>2, <1>6, <2>4, Context DEF AnalysisInv
      <3>2. CASE IsLast(code, i)
        BY <1>2, <3>1, <3>2 DEF Settled
      <3>3. CASE ~IsLast(code, i)
        <4>1. i + 1 \in Indices(code) /\ i + 1 # b
          BY <1>1, <1>4, <3>3, Context, FlowFacts
        <4> QED
          BY <1>2, <1>6, <3>1, <3>3, <4>1 DEF Settled
      <3> QED
        BY <3>2, <3>3
    <2> QED
      BY SMTT(30), <1>2, <2>1, <2>2, <2>3, <2>4 DEF AnalysisInv
  <1> QED
    BY <1>1, <1>2, <1>5, <1>6, <1>7, <1>8 DEF IInv, TightenInv, FlowInv, ReportInv, RunInv

\* Walking an instruction extends the walk, or leaves its successors pending.
LEMMA WalkInstrIInv == IInv /\ WalkInstr => IInv'
  <1> SUFFICES ASSUME IInv, WalkInstr PROVE IInv'
    OBVIOUS
  <1> DEFINE new == Step(code[pos], marked)
  <1>1. TypeOK /\ AnalysisInv /\ FlowInv /\ RunInv
    BY DEF IInv
  <1>2. /\ phase = "flow" /\ phase' = phase /\ source' = source /\ code' = code
        /\ entry' = entry /\ queue' = queue
        /\ slot' = slot /\ owned' = owned /\ pc' = pc
        /\ pos \in Indices(code) /\ pos # 0 /\ marked' = new
        /\ pending = {} /\ walk[pos] = marked /\ marked # Unseen
    BY <1>1 DEF WalkInstr, FlowInv, run
  <1>3. Scopes' = Scopes /\ MarkSets' = MarkSets
    BY <1>2 DEF Scopes, MarkSets
  <1>4. marked \in MarkSets /\ new \in MarkSets /\ new # Unseen
    BY SMTT(30), <1>1, <1>2, StepType DEF TypeOK
  <1> HIDE DEF new
  <1>5. /\ (code # <<>> => entry[1] = {})'
        /\ (\A c \in SeqElems(queue) : entry[c] # Unseen)'
    BY <1>1, <1>2 DEF AnalysisInv
  <1>6. CASE IsLast(code, pos)
    <2>1. pos' = 0 /\ pending' = Successors(code, pos) /\ walk' = walk
      BY <1>6 DEF WalkInstr
    <2>2. pending' \subseteq Leaders(code)
      BY <1>1, <1>2, <1>6, <2>1, Context, LeaderFacts
    <2>3. TypeOK'
      BY <1>1, <1>2, <1>3, <1>4, <2>1, <2>2 DEF TypeOK
    <2>4. ASSUME NEW i \in Indices(code), walk[i] # Unseen
          PROVE  Settled(i)'
      <3>1. CASE i = pos
        BY SMTT(30), <1>2, <1>6, <2>1, <3>1 DEF Settled, new
      <3>2. CASE i # pos
        <4>1. Settled(i)
          BY SMTT(30), <1>1, <1>2, <2>4, <3>2 DEF AnalysisInv
        <4> QED
          BY <1>2, <2>1, <4>1 DEF Settled
      <3> QED
        BY SMTT(30), <3>1, <3>2
    <2>5. AnalysisInv'
      BY SMTT(30), <1>1, <1>2, <1>5, <2>1, <2>4 DEF AnalysisInv
    <2> QED
      BY <1>1, <1>2, <1>4, <2>1, <2>3, <2>5 DEF IInv, TightenInv, FlowInv, ReportInv, RunInv
  <1>7. CASE ~IsLast(code, pos)
    <2>1. pos' = pos + 1 /\ pending' = {} /\ walk' = [walk EXCEPT ![pos + 1] = new]
      BY <1>2, <1>7 DEF WalkInstr, new
    <2>2. pos + 1 \in Indices(code) \ Leaders(code)
      BY <1>1, <1>2, <1>7, Context, FlowFacts
    <2>3. walk'[pos + 1] = new /\ \A i \in Indices(code) : i # pos + 1 => walk'[i] = walk[i]
      BY SMTT(30), <1>1, <2>1, <2>2, Context DEF TypeOK
    <2>4. TypeOK'
      BY SMTT(30), <1>1, <1>2, <1>3, <1>4, <2>1, <2>2, Context DEF TypeOK
    <2>5. /\ (\A c \in Leaders(code) : walk[c] # Unseen => entry[c] # Unseen)'
          /\ (\A c \in Leaders(code) : c \in SeqElems(queue) \/ entry[c] = walk[c])'
      BY SMTT(30), <1>1, <1>2, <2>2, <2>3, Context DEF AnalysisInv
    <2>6. (\A i \in Indices(code) \ Leaders(code) : walk[i] # Unseen => walk[i - 1] # Unseen)'
      <3> SUFFICES ASSUME NEW i \in Indices(code) \ Leaders(code), walk'[i] # Unseen
                   PROVE  walk'[i - 1] # Unseen
        BY <1>2
      <3>1. i \in Int /\ pos \in Int /\ (i = pos + 1 => i - 1 = pos)
        BY <1>1, <1>2, Context
      <3>2. walk[i - 1] # Unseen
        BY <1>1, <1>2, <2>3, <3>1 DEF AnalysisInv
      <3>3. i - 1 \in Indices(code)
        BY <1>1, Context
      <3> QED
        BY <1>4, <2>3, <3>2, <3>3
    <2>7. ASSUME NEW i \in Indices(code), walk'[i] # Unseen, i # pos + 1
          PROVE  Settled(i)'
      <3>1. walk'[i] = walk[i]
        BY SMTT(30), <2>3, <2>7
      <3>2. CASE i = pos
        BY SMTT(30), <1>2, <1>7, <2>3, <3>1, <3>2 DEF Settled, new
      <3>3. CASE i # pos
        <4>1. Settled(i)
          BY SMTT(30), <1>1, <1>2, <2>7, <3>1, <3>3 DEF AnalysisInv
        <4>2. CASE IsLast(code, i)
          BY SMTT(30), <1>2, <3>1, <4>1, <4>2 DEF Settled
        <4>3. CASE ~IsLast(code, i)
          <5>1. i + 1 \in Indices(code) /\ i + 1 # pos + 1
            BY SMTT(30), <1>1, <1>2, <3>3, <4>3, Context, FlowFacts
          <5> QED
            BY SMTT(30), <1>2, <2>3, <3>1, <4>1, <4>3, <5>1 DEF Settled
        <4> QED
          BY <4>2, <4>3
      <3> QED
        BY <3>2, <3>3
    <2>8. AnalysisInv'
      BY SMTT(30), <1>2, <1>5, <2>1, <2>5, <2>6, <2>7 DEF AnalysisInv
    <2> QED
      BY <1>1, <1>2, <1>4, <2>1, <2>2, <2>3, <2>4, <2>8
         DEF IInv, TightenInv, FlowInv, ReportInv, RunInv
  <1> QED
    BY <1>6, <1>7

\* Appending to the queue adds exactly the appended block.
LEMMA AppendElems ==
    ASSUME NEW S, NEW q \in Seq(S), NEW x \in S
    PROVE  Append(q, x) \in Seq(S) /\ SeqElems(Append(q, x)) = SeqElems(q) \cup {x}
  <1>1. /\ Append(q, x) \in Seq(S) /\ Len(Append(q, x)) = Len(q) + 1 /\ Len(q) \in Nat
        /\ \A i \in 1..Len(q) : Append(q, x)[i] = q[i]
        /\ Append(q, x)[Len(q) + 1] = x
    OBVIOUS
  <1> DEFINE r == Append(q, x)
             n == Len(q)
  <1>2. r \in Seq(S) /\ Len(r) = n + 1 /\ n \in Nat /\ r[n + 1] = x /\ \A i \in 1..n : r[i] = q[i]
    BY <1>1
  <1> HIDE DEF r, n
  <1>3. {r[i] : i \in 1..(n + 1)} = {q[i] : i \in 1..n} \cup {x}
    <2>1. \A i \in 1..(n + 1) : i \in 1..n \/ i = n + 1
      BY <1>2
    <2>2. \A i \in 1..n : i \in 1..(n + 1)
      BY <1>2
    <2>3. n + 1 \in 1..(n + 1)
      BY SMTT(30), <1>2
    <2> QED
      BY <1>2, <2>1, <2>2, <2>3
  <1> QED
    BY <1>1, <1>2, <1>3 DEF SeqElems, r, n

\* Intersecting into a successor keeps every walked block justified or queued.
LEMMA PropagateIInv == ASSUME IInv, NEW s \in pending, Propagate(s) PROVE IInv'
  <1> DEFINE new == IF entry[s] = Unseen THEN marked ELSE entry[s] \cap marked
  <1>1. TypeOK /\ AnalysisInv /\ FlowInv /\ RunInv
    BY DEF IInv
  <1>2. /\ phase = "flow" /\ phase' = phase /\ source' = source /\ code' = code
        /\ pos = 0 /\ pos' = 0 /\ marked' = marked /\ walk' = walk
        /\ pending' = pending \ {s}
        /\ entry' = [entry EXCEPT ![s] = new]
        /\ queue' = IF entry[s] = new THEN queue ELSE Append(queue, s)
        /\ slot' = slot /\ owned' = owned /\ pc' = pc
    BY DEF Propagate, run
  <1>3. Scopes' = Scopes /\ MarkSets' = MarkSets
    BY <1>2 DEF Scopes, MarkSets
  <1>4. s \in Leaders(code) /\ marked \in MarkSets /\ marked # Unseen
    BY <1>1, <1>2 DEF TypeOK, FlowInv
  <1>5. \A b \in Leaders(code) : entry[b] \in MarkSets \cup {Unseen}
    BY <1>1, <1>2 DEF TypeOK
  <1>6. /\ new \in MarkSets /\ new # Unseen /\ new \subseteq marked
        /\ entry[s] # Unseen => new \subseteq entry[s]
    <2>1. new \in MarkSets /\ new \subseteq marked /\ (entry[s] # Unseen => new \subseteq entry[s])
      BY <1>4, <1>5 DEF MarkSets
    <2> QED
      BY Zenon, <1>1, <2>1, Context
  <1> HIDE DEF new
  <1>7. entry'[s] = new /\ \A t \in Leaders(code) : t # s => entry'[t] = entry[t]
    BY <1>1, <1>2, <1>4 DEF TypeOK
  <1>8. /\ queue' \in Seq(Leaders(code))
        /\ SeqElems(queue') \subseteq SeqElems(queue) \cup {s}
        /\ SeqElems(queue) \subseteq SeqElems(queue')
        /\ entry[s] = new \/ s \in SeqElems(queue')
    <2>1. queue \in Seq(Leaders(code))
      BY <1>1 DEF TypeOK
    <2> QED
      BY <1>2, <1>4, <2>1, AppendElems
  <1>9. TypeOK'
    BY SMTT(30), <1>1, <1>2, <1>3, <1>4, <1>6, <1>8 DEF TypeOK
  <1>10. AnalysisInv'
    <2>1. (code # <<>> => entry[1] = {})'
      BY ZenonT(30), <1>1, <1>2, <1>4, <1>6, <1>7, Context DEF AnalysisInv, Unseen
    <2>2. /\ (\A c \in SeqElems(queue) : entry[c] # Unseen)'
          /\ (\A c \in Leaders(code) : walk[c] # Unseen => entry[c] # Unseen)'
          /\ (\A c \in Leaders(code) : c \in SeqElems(queue) \/ entry[c] = walk[c])'
          /\ (\A i \in Indices(code) \ Leaders(code) : walk[i] # Unseen => walk[i - 1] # Unseen)'
      <3>1. SeqElems(queue') \subseteq Leaders(code)
        BY <1>8 DEF SeqElems
      <3> QED
        BY <1>1, <1>2, <1>6, <1>7, <1>8, <3>1 DEF AnalysisInv
    <2>3. ASSUME NEW i \in Indices(code), walk[i] # Unseen
          PROVE  Settled(i)'
      <3>1. Settled(i)
        BY <1>1, <1>2, <2>3, Context DEF AnalysisInv
      <3>2. CASE ~IsLast(code, i)
        BY SMTT(30), <1>2, <3>1, <3>2 DEF Settled
      <3>3. CASE IsLast(code, i)
        <4> DEFINE out == Step(code[i], walk[i])
        <4>1. ASSUME NEW t \in Successors(code, i)
              PROVE  \/ t \in pending' /\ marked = out
                     \/ entry'[t] # Unseen /\ entry'[t] \subseteq out
          <5>1. t \in Leaders(code)
            BY SMTT(30), <1>1, <3>3, Context, LeaderFacts
          <5>2. \/ t \in pending /\ marked = out
                \/ entry[t] # Unseen /\ entry[t] \subseteq out
            BY SMTT(30), <3>1, <3>3 DEF Settled
          <5> HIDE DEF out
          <5> QED
            BY SMTT(30), <1>2, <1>6, <1>7, <5>1, <5>2
        <4> QED
          BY <1>2, <3>3, <4>1 DEF Settled
      <3> QED
        BY <3>2, <3>3
    <2> QED
      BY SMTT(30), <1>2, <2>1, <2>2, <2>3 DEF AnalysisInv
  <1> QED
    BY <1>1, <1>2, <1>4, <1>9, <1>10 DEF IInv, TightenInv, FlowInv, ReportInv, RunInv

\* The report starts with the queue and the pending set empty.
LEMMA StartReportIInv == IInv /\ StartReport => IInv'
  <1> SUFFICES ASSUME IInv, StartReport PROVE IInv'
    OBVIOUS
  <1>1. TypeOK /\ AnalysisInv /\ RunInv
    BY DEF IInv
  <1>2. /\ phase = "flow" /\ phase' = "report" /\ pos = 0 /\ pos' = 1
        /\ source' = source /\ code' = code /\ entry' = entry /\ queue' = <<>> /\ queue = <<>>
        /\ marked' = marked /\ pending' = {} /\ pending = {} /\ walk' = walk
        /\ slot' = slot /\ owned' = owned /\ pc' = pc
    BY DEF StartReport, analysis, run
  <1>3. Scopes' = Scopes /\ MarkSets' = MarkSets
    BY <1>2 DEF Scopes, MarkSets
  <1>4. TypeOK'
    BY <1>1, <1>2, <1>3, Context DEF TypeOK
  <1>5. \A i \in Indices(code) : i # pos /\ ~(i < 1)
    BY SMTT(30), <1>1, <1>2, Context
  <1>6. AnalysisInv'
    BY <1>1, <1>2, <1>5 DEF AnalysisInv, Settled
  <1>7. 1 \in Indices(code) => 1 \in Leaders(code)
    BY SMTT(30), <1>1, Context
  <1> QED
    BY <1>1, <1>2, <1>4, <1>5, <1>6, <1>7 DEF IInv, TightenInv, FlowInv, ReportInv, RunInv

\* Between the report walk and the end nothing of the analysis moves.
LEMMA AnalysisKept ==
    ASSUME AnalysisInv, phase \notin {"tighten", "flow", "rejected"}, phase' # "flow",
           code' = code, entry' = entry, queue' = queue, walk' = walk, pending = {}, pending' = {}
    PROVE  AnalysisInv'
  <1>1. \A i \in Indices(code) : Settled(i) => Settled(i)'
    BY DEF Settled
  <1> QED
    BY SMTT(30), <1>1 DEF AnalysisInv

\* The report walk retraces the last walk of each block.
LEMMA ReportInstrIInv == IInv /\ ReportInstr => IInv'
  <1> SUFFICES ASSUME IInv, ReportInstr PROVE IInv'
    OBVIOUS
  <1> DEFINE set == IF pos \in Leaders(code) THEN entry[pos] ELSE marked
  <1>1. TypeOK /\ AnalysisInv /\ ReportInv /\ RunInv
    BY DEF IInv
  <1>2. /\ phase = "report" /\ source' = source /\ code' = code /\ entry' = entry
        /\ queue' = queue /\ pending' = pending /\ walk' = walk /\ queue = <<>> /\ pending = {}
        /\ slot' = slot /\ owned' = owned /\ pc' = pc
    BY <1>1 DEF ReportInstr, ReportInv, run
  <1>3. Scopes' = Scopes /\ MarkSets' = MarkSets
    BY SMTT(30), <1>2 DEF Scopes, MarkSets
  <1>4. pos \in Indices(code) /\ pos + 1 \in 0..(Len(source) + 1) /\ pos + 1 # 0
    BY <1>1, <1>2, Context DEF ReportInstr, ReportInv, TypeOK
  <1>5. SeqElems(queue) = {}
    BY SMTT(30), <1>2 DEF SeqElems
  <1>6. set = walk[pos] /\ set \in MarkSets \cup {Unseen}
    BY SMTT(30), <1>1, <1>2, <1>4, <1>5, Context DEF AnalysisInv, ReportInv, TypeOK
  <1>7. CASE phase' = "rejected"
    <2>1. marked' = marked /\ pos' = pos
      BY <1>2, <1>7 DEF ReportInstr
    <2>2. TypeOK'
      BY SMTT(30), <1>1, <1>2, <1>3, <1>7, <2>1 DEF TypeOK
    <2> QED
      BY <1>1, <1>2, <1>7, <2>2 DEF IInv, TightenInv, AnalysisInv, FlowInv, ReportInv, RunInv
  <1>8. CASE phase' # "rejected"
    <2>1. /\ phase' = "report" /\ pos' = pos + 1
          /\ marked' = IF set = Unseen THEN Unseen ELSE Step(code[pos], set)
          /\ set = Unseen \/ ReleaseMarked(code[pos], set)
      BY <1>2, <1>8 DEF ReportInstr
    <2> HIDE DEF set
    <2>2. marked' \in MarkSets \cup {Unseen}
      BY SMTT(30), <1>1, <1>4, <1>6, <2>1, StepType
    <2>3. TypeOK'
      BY <1>1, <1>2, <1>3, <1>4, <2>1, <2>2 DEF TypeOK
    <2>4. AnalysisInv'
      BY <1>1, <1>2, <2>1, AnalysisKept
    <2>5. ASSUME pos + 1 \in Indices(code) \ Leaders(code)
          PROVE  marked' = walk[pos + 1]
      <3>1. ~IsLast(code, pos) /\ (pos + 1) - 1 = pos
        BY SMTT(30), <1>1, <1>4, <2>5, Context DEF IsLast
      <3>2. walk[pos] = Unseen => walk[pos + 1] = Unseen
        BY SMTT(30), <1>1, <1>2, <2>5, <3>1 DEF AnalysisInv
      <3>3. walk[pos] # Unseen => walk[pos + 1] = Step(code[pos], walk[pos])
        BY <1>1, <1>2, <1>4, <3>1 DEF AnalysisInv, Settled
      <3> QED
        BY <1>6, <2>1, <3>2, <3>3
    <2>6. \A i \in Indices(code) : i < pos + 1 => Checked(i)
      <3>1. Checked(pos)
        BY <1>6, <2>1 DEF Checked
      <3>2. \A i \in Indices(code) : i < pos => Checked(i)
        BY <1>1, <1>2 DEF ReportInv
      <3>3. \A i \in Indices(code) : i < pos + 1 => i < pos \/ i = pos
        BY <1>1, <1>4, Context
      <3> QED
        BY <3>1, <3>2, <3>3
    <2>7. \A i \in Indices(code) : Checked(i) => Checked(i)'
      BY <1>2 DEF Checked
    <2>8. ReportInv'
      BY SMTT(30), <1>2, <1>4, <2>1, <2>5, <2>6, <2>7 DEF ReportInv
    <2> QED
      BY SMTT(30), <1>1, <1>2, <2>1, <2>3, <2>4, <2>8 DEF IInv, TightenInv, FlowInv, RunInv
  <1> QED
    BY <1>7, <1>8

\* Accepting means every reachable release was reported marked.
LEMMA AcceptIInv == IInv /\ Accept => IInv'
  <1> SUFFICES ASSUME IInv, Accept PROVE IInv'
    OBVIOUS
  <1>1. TypeOK /\ AnalysisInv /\ ReportInv /\ RunInv
    BY DEF IInv
  <1>2. /\ phase = "report" /\ phase' = "accepted" /\ pos > Len(code) /\ pos' = pos
        /\ source' = source /\ code' = code /\ entry' = entry /\ queue' = queue
        /\ pending' = pending /\ walk' = walk /\ marked' = marked /\ queue = <<>> /\ pending = {}
        /\ slot' = slot /\ owned' = owned /\ pc' = pc
    BY SMTT(30), <1>1 DEF Accept, analysis, run, ReportInv
  <1>3. Scopes' = Scopes /\ MarkSets' = MarkSets
    BY SMTT(30), <1>2 DEF Scopes, MarkSets
  <1>4. TypeOK'
    BY <1>1, <1>2, <1>3 DEF TypeOK
  <1>5. AnalysisInv'
    BY <1>1, <1>2, AnalysisKept
  <1>6. \A i \in Indices(code) : i < pos
    BY <1>1, <1>2, Context DEF TypeOK
  <1>7. ReportInv'
    BY <1>1, <1>2, <1>6 DEF ReportInv, Checked
  <1> QED
    BY <1>1, <1>2, <1>4, <1>5, <1>7 DEF IInv, TightenInv, FlowInv, RunInv

\* A call enters with no scope marked and the callers' values owned.
LEMMA CallIInv == IInv /\ Call => IInv'
  <1> SUFFICES ASSUME IInv, Call PROVE IInv'
    OBVIOUS
  <1>1. TypeOK /\ AnalysisInv /\ ReportInv /\ RunInv
    BY DEF IInv
  <1>2. /\ phase = "accepted" /\ phase' = "running" /\ code # <<>> /\ pos' = pos /\ pc' = 1
        /\ source' = source /\ code' = code /\ entry' = entry /\ queue' = queue
        /\ pending' = pending /\ walk' = walk /\ marked' = marked /\ queue = <<>> /\ pending = {}
        /\ slot' = slot /\ owned' = owned
    BY <1>1 DEF Call, analysis, ReportInv
  <1>3. Scopes' = Scopes /\ MarkSets' = MarkSets
    BY <1>2 DEF Scopes, MarkSets
  <1>4. 1 \in Leaders(code) /\ 1 \in Indices(source) /\ SeqElems(queue) = {}
    BY <1>1, <1>2, Context DEF SeqElems
  <1>5. TypeOK'
    BY <1>1, <1>2, <1>3, <1>4 DEF TypeOK
  <1>6. AnalysisInv'
    BY <1>1, <1>2, AnalysisKept
  <1>7. ReportInv'
    BY SMTT(30), <1>1, <1>2 DEF ReportInv, Checked
  <1>8. walk[1] = {} /\ {} # Unseen
    BY SMTT(30), <1>1, <1>2, <1>4 DEF AnalysisInv, Unseen
  <1> QED
    BY <1>1, <1>2, <1>5, <1>6, <1>7, <1>8 DEF IInv, TightenInv, FlowInv, RunInv

\* When the queue is empty the sets are a fixpoint of the instruction-level flow.
LEMMA FixpointFromIInv ==
    ASSUME IInv, phase \notin {"tighten", "flow", "rejected"},
           NEW i \in Indices(code), walk[i] # Unseen, NEW j \in Flow(code, i)
    PROVE  walk[j] # Unseen /\ walk[j] \subseteq Step(code[i], walk[i])
  <1>1. TypeOK /\ AnalysisInv /\ queue = <<>> /\ pending = {}
    BY SMTT(30) DEF IInv, ReportInv
  <1>2. Settled(i) /\ walk[i] \in MarkSets /\ SeqElems(queue) = {}
    BY SMTT(30), <1>1, Context DEF AnalysisInv, TypeOK, SeqElems
  <1>3. CASE IsLast(code, i)
    <2>1. j \in Successors(code, i) /\ j \in Leaders(code)
      BY SMTT(30), <1>1, <1>3, Context, FlowFacts, LeaderFacts
    <2>2. entry[j] = walk[j]
      BY SMTT(30), <1>1, <1>2, <2>1 DEF AnalysisInv
    <2> QED
      BY ZenonT(30), <1>1, <1>2, <1>3, <2>1, <2>2 DEF Settled
  <1>4. CASE ~IsLast(code, i)
    <2>1. j = i + 1
      BY SMTT(30), <1>1, <1>4, Context, FlowFacts
    <2>2. walk[j] = Step(code[i], walk[i])
      BY SMTT(30), <1>2, <1>4, <2>1 DEF Settled
    <2> QED
      BY <1>1, <1>2, <2>2, StepType
  <1> QED
    BY <1>3, <1>4

\* A step of the run goes where the fixpoint says, with the scopes it promises.
LEMMA ExecuteIInv == IInv /\ Execute => IInv'
  <1> SUFFICES ASSUME IInv, Execute PROVE IInv'
    OBVIOUS
  <1> DEFINE instr == code[pc]
  <1>1. TypeOK /\ AnalysisInv /\ ReportInv /\ RunInv
    BY DEF IInv
  <1>2. /\ phase = "running" /\ phase' \in {"running", "halted"} /\ pos' = pos
        /\ source' = source /\ code' = code /\ entry' = entry /\ queue' = queue
        /\ pending' = pending /\ walk' = walk /\ marked' = marked /\ queue = <<>> /\ pending = {}
        /\ phase' = "running" => pc' \in Flow(code, pc)
        /\ pc' \in Flow(code, pc) \cup {pc}
    BY SMTT(30), <1>1 DEF Execute, analysis, ReportInv
  <1>3. Scopes' = Scopes /\ MarkSets' = MarkSets
    BY SMTT(30), <1>2 DEF Scopes, MarkSets
  <1>4. /\ pc \in Indices(code) /\ walk[pc] # Unseen /\ walk[pc] \in MarkSets
        /\ ReleaseMarked(instr, walk[pc])
        /\ \A s \in walk[pc] : s \in Scopes /\ slot[s] >= Base
        /\ slot \in [Scopes -> Nat] /\ owned \in Nat /\ owned >= Base
    BY SMTT(30), <1>1, <1>2, Context DEF TypeOK, RunInv, ReportInv, Checked, MarkSets
  <1>5. instr.op \in ScopeOps => instr.imm \in Scopes
    BY SMTT(30), <1>1, <1>4, Context
  <1>6. pc' \in Indices(code)
    BY SMTT(30), <1>1, <1>2, <1>4, Context, FlowFacts
  <1>7. /\ slot' \in [Scopes -> Nat] /\ owned' \in Nat /\ owned' >= Base
        /\ \A s \in Step(instr, walk[pc]) : slot'[s] >= Base
    <2>1. CASE instr.op = "SCOPE_MARK"
      <3>1. slot' = [slot EXCEPT ![instr.imm] = owned] /\ owned' = owned /\ instr.imm \in Scopes
        BY <1>5, <2>1 DEF Execute, ScopeOps
      <3>2. Step(instr, walk[pc]) = walk[pc] \cup {instr.imm}
        BY SMTT(30), <2>1 DEF Step
      <3> QED
        BY <1>4, <3>1, <3>2
    <2>2. CASE instr.op = "SCOPE_RELEASE"
      <3>1. /\ slot' = slot /\ owned' = IF slot[instr.imm] < owned THEN slot[instr.imm] ELSE owned
            /\ instr.imm \in walk[pc]
        BY <1>4, <2>2 DEF Execute, ScopeOps, ReleaseMarked
      <3>2. Step(instr, walk[pc]) = walk[pc]
        BY SMTT(30), <2>2 DEF Step
      <3> QED
        BY SMTT(30), <1>4, <3>1, <3>2
    <2>3. CASE instr.op \notin ScopeOps
      <3>1. slot' = slot /\ owned' \in {owned, owned + 1}
        BY <2>3 DEF Execute, ScopeOps
      <3>2. Step(instr, walk[pc]) = walk[pc]
        BY SMTT(30), <2>3 DEF Step, ScopeOps
      <3> QED
        BY <1>4, <3>1, <3>2, BaseAssumption
    <2> QED
      BY SMTT(30), <2>1, <2>2, <2>3 DEF ScopeOps
  <1>8. TypeOK'
    BY SMTT(30), <1>1, <1>2, <1>3, <1>6, <1>7, Context DEF TypeOK
  <1>9. AnalysisInv'
    BY <1>1, <1>2, AnalysisKept
  <1>10. ReportInv'
    BY SMTT(30), <1>1, <1>2 DEF ReportInv, Checked
  <1>11. phase' = "running" => walk[pc'] # Unseen /\ walk[pc'] \subseteq Step(instr, walk[pc])
    BY <1>2, <1>4, FixpointFromIInv
  <1> QED
    BY SMTT(30), <1>2, <1>7, <1>8, <1>9, <1>10, <1>11 DEF IInv, TightenInv, FlowInv, RunInv

\* Every step keeps the invariant.
LEMMA NextIInv == IInv /\ [Next]_vars => IInv'
  <1> SUFFICES ASSUME IInv, [Next]_vars PROVE IInv'
    BY SMTT(30)
  <1>1. CASE UNCHANGED vars
    <2>1. Scopes' = Scopes /\ MarkSets' = MarkSets
      BY Zenon, <1>1 DEF vars, Scopes, MarkSets
    <2> QED
      BY SMTT(30), <1>1, <2>1 DEF vars, IInv, TypeOK, TightenInv, AnalysisInv, FlowInv, ReportInv, RunInv,
                        Settled, Checked
  <1>2. CASE \E s \in pending : Propagate(s)
    BY <1>2, PropagateIInv
  <1>3. CASE Done
    BY <1>1, <1>3 DEF Done
  <1> QED
    BY <1>1, <1>2, <1>3, TightenMarkIInv, StartFlowIInv, PopBlockIInv, WalkInstrIInv,
       StartReportIInv, ReportInstrIInv, AcceptIInv, CallIInv, ExecuteIInv DEF Next, Verify

-----------------------------------------------------------------------------

\* The strengthened invariant holds in every reachable state.
THEOREM IInvInvariant == Spec => []IInv
  BY InitIInv, NextIInv, PTL DEF Spec

\* Every variable of the pass, the check and the run keeps its type; the pass
\* in particular only permutes the instructions.
THEOREM TypeCorrect == Spec => []TypeOK
  <1>1. IInv => TypeOK
    BY DEF IInv
  <1> QED
    BY <1>1, IInvInvariant, PTL

\* For every function: after tighten_scope_marks() and check_scope_marks() no
\* run releases a value that a caller owns.
THEOREM CallersKeepTheirsAlways == Spec => []CallersKeepTheirs
  <1>1. IInv => CallersKeepTheirs
    BY DEF IInv, RunInv, CallersKeepTheirs
  <1> QED
    BY <1>1, IInvInvariant, PTL

=============================================================================
