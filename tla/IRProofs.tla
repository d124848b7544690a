------------------------------ MODULE IRProofs ------------------------------
(***************************************************************************)
(* Facts about the flow graph of a function that the proofs about the      *)
(* verifier's analyses share.                                              *)
(***************************************************************************)
EXTENDS IR, TLAPS

\* Leaders are indices, the first instruction is one, and so is everything a
\* block's last instruction can go on to.
LEMMA LeaderFacts ==
    ASSUME NEW S, NEW code \in Seq(S)
    PROVE  /\ Leaders(code) \subseteq Indices(code)
           /\ code # <<>> => 1 \in Leaders(code)
           /\ \A i \in Indices(code) : IsLast(code, i) => Successors(code, i) \subseteq Leaders(code)
  BY DEF Leaders, Indices, IsLast, Successors, Targets

\* Instruction-level flow leaves a block only at its end, and then along the
\* block's successors.
LEMMA FlowFacts ==
    ASSUME NEW S, NEW code \in Seq(S), NEW i \in Indices(code)
    PROVE  /\ Flow(code, i) \subseteq Indices(code)
           /\ IsLast(code, i) => Flow(code, i) \subseteq Successors(code, i)
           /\ ~IsLast(code, i) => /\ i + 1 \in Indices(code) \ Leaders(code)
                                  /\ Flow(code, i) \subseteq {i + 1}
  <1>1. Len(code) \in Nat /\ i \in 1..Len(code)
    BY DEF Indices
  <1>2. Flow(code, i) \subseteq Successors(code, i)
    BY <1>1 DEF Flow, Successors, IR_TERMINATOR
  <1>3. Successors(code, i) \subseteq Indices(code)
    BY <1>1 DEF Successors, Targets, Indices
  <1>4. ASSUME ~IsLast(code, i)
        PROVE  /\ i + 1 \in Indices(code) \ Leaders(code)
               /\ Flow(code, i) \subseteq {i + 1}
    <2>1. i + 1 \in Indices(code) /\ i + 1 \notin Leaders(code)
      BY <1>1, <1>4 DEF IsLast, Indices
    <2>2. code[i].op \notin IR_BRANCH \cup IR_TERMINATOR
      <3>1. (i + 1) - 1 = i /\ i + 1 > 1
        BY <1>1
      <3> QED
        BY <2>1, <3>1 DEF Leaders
    <2>3. Flow(code, i) \subseteq {i + 1}
      BY <2>2 DEF Flow, IR_TERMINATOR
    <2> QED
      BY <2>1, <2>3
  <1> QED
    BY <1>2, <1>3, <1>4

=============================================================================
