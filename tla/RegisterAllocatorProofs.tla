---------------------- MODULE RegisterAllocatorProofs ----------------------
(***************************************************************************)
(* The safety invariants of RegisterAllocator for every register file,     *)
(* pool and set of clobber lists.  The conjunction IInv is inductive: each *)
(* operation keeps the two maps inverse to each other because a register   *)
(* only leaves the free list for a vreg that has none, and only returns to *)
(* it when its occupant is dropped.                                        *)
(***************************************************************************)
EXTENDS RegisterAllocator, SequenceTheorems, WellFoundedInduction, TLAPS

\* TypeOK, strengthened: values live in pool registers, and a clobber list names
\* argument registers only.
PoolTypeOK ==
    /\ vreg_to_preg \in [VRegs -> PoolRegs \cup {None}]
    /\ preg_to_vreg \in [PRegs -> VRegs \cup {None}]
    /\ free_registers \in Seq(PoolRegs)
    /\ all_uses \in [VRegs -> SUBSET InstrIdx]
    /\ idx \in 0..NumInstrs
    /\ reserved \subseteq PoolRegs
    /\ clobbered \in Seq(AbiRegs)

\* The inductive invariant.
IInv ==
    /\ PoolTypeOK
    /\ MapsInverse
    /\ FreeIsUnused
    /\ NoRegisterLost
    /\ ReservedStaysUnmapped

\* None is no register, and the pool and the argument registers are disjoint.
LEMMA Registers ==
    /\ PoolRegs \subseteq Nat
    /\ PRegs \subseteq Nat
    /\ None \notin VRegs /\ None \notin PRegs /\ None \notin PoolRegs
    /\ AbiRegs \cap PoolRegs = {}
  <1>1. PoolRegs \subseteq Nat
    BY PoolAssumption DEF PoolRegs, Elems
  <1>2. None \notin Nat
    BY DEF None
  <1> QED
    BY Zenon, <1>1, <1>2, AbiAssumption, VRegsAssumption DEF PRegs

\* Popping the last element of a duplicate-free stack.
LEMMA PopBack ==
    ASSUME NEW S, NEW s \in Seq(S), s # <<>>, Distinct(s)
    PROVE  LET t == SubSeq(s, 1, Len(s) - 1)
               x == s[Len(s)]
           IN  /\ x \in Elems(s) /\ x \in S
               /\ t \in Seq(S)
               /\ Distinct(t)
               /\ Elems(t) = Elems(s) \ {x}
  <1> DEFINE t == SubSeq(s, 1, Len(s) - 1)
             x == s[Len(s)]
  <1>1. Len(s) \in Nat /\ Len(s) > 0
    OBVIOUS
  <1>2. t \in Seq(S) /\ Len(t) = Len(s) - 1 /\ \A i \in 1..Len(t) : t[i] = s[i]
    <2>1. Len(s) - 1 \in Int /\ \A i \in 1..(Len(s) - 1) : s[i] \in S
      BY <1>1
    <2>2. /\ t \in Seq(S)
          /\ Len(t) = IF 1 <= Len(s) - 1 THEN Len(s) - 1 - 1 + 1 ELSE 0
          /\ \A i \in 1..(Len(s) - 1 - 1 + 1) : t[i] = s[1 + i - 1]
      BY <2>1, SubSeqProperties
    <2> HIDE DEF t
    <2>3. Len(t) = Len(s) - 1
      <3> DEFINE n == Len(s)
                 m == Len(t)
      <3>1. n \in Nat /\ n > 0 /\ m = IF 1 <= n - 1 THEN n - 1 - 1 + 1 ELSE 0
        BY <1>1, <2>2
      <3> HIDE DEF n, m
      <3>2. m = n - 1
        BY <3>1
      <3> QED
        BY <3>2 DEF n, m
    <2>4. ASSUME NEW i \in 1..Len(t) PROVE t[i] = s[i]
      <3>1. i \in 1..(Len(s) - 1 - 1 + 1) /\ 1 + i - 1 = i
        BY <1>1, <2>3
      <3>2. t[i] = s[1 + i - 1]
        BY <2>2, <3>1
      <3> QED
        BY <3>1, <3>2
    <2> QED
      BY <2>2, <2>3, <2>4
  <1>3. x \in Elems(s) /\ x \in S
    BY <1>1 DEF Elems
  <1>4. Distinct(t)
    BY <1>1, <1>2 DEF Distinct
  <1>5. Elems(t) = Elems(s) \ {x}
    <2>1. ASSUME NEW e \in Elems(t) PROVE e \in Elems(s) \ {x}
      BY <1>1, <1>2, <2>1 DEF Elems, Distinct
    <2>2. ASSUME NEW e \in Elems(s) \ {x} PROVE e \in Elems(t)
      <3>1. PICK i \in 1..Len(s) : s[i] = e
        BY <2>2 DEF Elems
      <3>2. i \in 1..Len(t) /\ t[i] = e
        BY <1>1, <1>2, <2>2, <3>1
      <3> QED
        BY <3>2 DEF Elems
    <2> QED
      BY <2>1, <2>2
  <1> QED
    BY <1>2, <1>3, <1>4, <1>5

\* Pushing a new element onto a duplicate-free stack.
LEMMA PushBack ==
    ASSUME NEW S, NEW s \in Seq(S), Distinct(s), NEW x \in S, x \notin Elems(s)
    PROVE  /\ Append(s, x) \in Seq(S)
           /\ Distinct(Append(s, x))
           /\ Elems(Append(s, x)) = Elems(s) \cup {x}
  <1> DEFINE t == Append(s, x)
  <1>1. /\ t \in Seq(S)
        /\ Len(s) \in Nat
        /\ Len(t) = Len(s) + 1
        /\ t[Len(s) + 1] = x
        /\ \A i \in 1..Len(s) : t[i] = s[i]
    OBVIOUS
  <1>2. Distinct(t)
    BY <1>1 DEF Distinct, Elems
  <1>3. Elems(t) = Elems(s) \cup {x}
    <2>1. ASSUME NEW e \in Elems(t) PROVE e \in Elems(s) \cup {x}
      BY <1>1 DEF Elems
    <2>2. ASSUME NEW e \in Elems(s) PROVE e \in Elems(t)
      BY <1>1 DEF Elems
    <2>3. x \in Elems(t)
      BY <1>1 DEF Elems
    <2> QED
      BY <2>1, <2>2, <2>3
  <1> QED
    BY <1>1, <1>2, <1>3

\* Erasing an element from a duplicate-free stack, wherever it is.
LEMMA RemoveElem ==
    ASSUME NEW S, NEW s \in Seq(S), Distinct(s), NEW p
    PROVE  /\ Remove(s, p) \in Seq(S)
           /\ Distinct(Remove(s, p))
           /\ Elems(Remove(s, p)) = Elems(s) \ {p}
  <1>1. CASE ~ \E i \in 1..Len(s) : s[i] = p
    BY <1>1 DEF Remove, Elems
  <1>2. CASE \E i \in 1..Len(s) : s[i] = p
    <2> DEFINE k == CHOOSE i \in 1..Len(s) : s[i] = p
               t == Erase(s, k)
    <2>1. k \in 1..Len(s) /\ s[k] = p /\ Remove(s, p) = t
      BY <1>2 DEF Remove
    <2> HIDE DEF k
    <2>2. Len(s) \in Nat /\ Len(s) - 1 \in Nat
      BY <2>1
    <2>3. /\ t \in Seq(S)
          /\ Len(t) = Len(s) - 1
          /\ \A j \in 1..Len(t) : t[j] = IF j < k THEN s[j] ELSE s[j + 1]
      BY <2>1, <2>2 DEF Erase
    <2> HIDE DEF t
    <2>4. Distinct(t)
      BY SMTT(30), <2>1, <2>2, <2>3 DEF Distinct
    <2>5. ASSUME NEW e \in Elems(t) PROVE e \in Elems(s) \ {p}
      <3>1. PICK j \in 1..Len(t) : t[j] = e
        BY DEF Elems
      <3>2. CASE j < k
        BY SMTT(30), <2>1, <2>2, <2>3, <3>1, <3>2 DEF Elems, Distinct
      <3>3. CASE j >= k
        BY SMTT(30), <2>1, <2>2, <2>3, <3>1, <3>3 DEF Elems, Distinct
      <3> QED
        BY <2>1, <2>2, <3>2, <3>3
    <2>6. ASSUME NEW e \in Elems(s) \ {p} PROVE e \in Elems(t)
      <3>1. PICK i \in 1..Len(s) : s[i] = e
        BY DEF Elems
      <3>2. CASE i < k
        <4>1. i \in 1..Len(t) /\ t[i] = e
          BY <2>1, <2>2, <2>3, <3>1, <3>2
        <4> QED
          BY <4>1 DEF Elems
      <3>3. CASE i > k
        <4>1. (i - 1) \in 1..Len(t) /\ t[i - 1] = e
          BY <2>1, <2>2, <2>3, <3>1, <3>3
        <4> QED
          BY <4>1 DEF Elems
      <3> QED
        BY <2>1, <2>2, <3>1, <3>2, <3>3
    <2> QED
      BY <2>1, <2>3, <2>4, <2>5, <2>6
  <1> QED
    BY <1>1, <1>2

\* The constructor establishes the invariant.
LEMMA InitIInv == Init => IInv
  <1> SUFFICES ASSUME Init PROVE IInv
    OBVIOUS
  <1> USE Registers DEF Init
  <1>1. 0 \in 0..NumInstrs
    BY NumInstrsAssumption
  <1>2. free_registers \in Seq(PoolRegs)
    BY SMTT(30), PoolAssumption DEF PoolRegs, Elems
  <1>3. PoolTypeOK
    BY <1>1, <1>2 DEF PoolTypeOK
  <1>4. MapsInverse
    BY DEF MapsInverse
  <1>5. FreeIsUnused /\ NoRegisterLost /\ ReservedStaysUnmapped
    BY PoolAssumption DEF FreeIsUnused, NoRegisterLost, ReservedStaysUnmapped,
                          FreeSet, PoolRegs, PRegs
  <1> QED
    BY <1>3, <1>4, <1>5 DEF IInv

\* What IInv says about one vreg: its register is in the pool, is mapped back
\* to it, and is neither free nor reserved.
LEMMA MappedFacts ==
    ASSUME IInv, NEW v \in VRegs, vreg_to_preg[v] # None
    PROVE  /\ vreg_to_preg[v] \in PoolRegs
           /\ preg_to_vreg[vreg_to_preg[v]] = v
           /\ vreg_to_preg[v] \notin FreeSet
           /\ vreg_to_preg[v] \notin reserved
  BY Registers DEF IInv, PoolTypeOK, MapsInverse, FreeIsUnused, ReservedStaysUnmapped, PRegs

\* allocate_register() from the free list keeps it: the popped register is nobody's.
LEMMA AllocateFreeIInv ==
    ASSUME IInv, NEW v \in VRegs, AllocateFree(v)
    PROVE  IInv'
  <1> DEFINE p == free_registers[Len(free_registers)]
  <1> USE Registers
  <1>1. /\ p \in FreeSet /\ p \in PoolRegs
        /\ free_registers' \in Seq(PoolRegs)
        /\ Distinct(free_registers')
        /\ FreeSet' = FreeSet \ {p}
    BY PopBack DEF IInv, PoolTypeOK, FreeIsUnused, AllocateFree, FreeSet
  <1>2. /\ vreg_to_preg[v] = None
        /\ vreg_to_preg' = [vreg_to_preg EXCEPT ![v] = p]
        /\ preg_to_vreg' = [preg_to_vreg EXCEPT ![p] = v]
        /\ UNCHANGED <<all_uses, idx, reserved, clobbered>>
    BY DEF AllocateFree
  <1> HIDE DEF p
  <1>3. preg_to_vreg[p] = None /\ p \notin reserved /\ p \in PRegs
    BY <1>1 DEF IInv, FreeIsUnused, PRegs
  <1>4. PoolTypeOK'
    BY <1>1, <1>2, <1>3 DEF IInv, PoolTypeOK
  <1>5. MapsInverse'
    BY <1>2, <1>3 DEF IInv, PoolTypeOK, MapsInverse
  <1>6. FreeIsUnused'
    BY <1>1, <1>2, <1>3 DEF IInv, PoolTypeOK, FreeIsUnused, PRegs
  <1>7. NoRegisterLost'
    BY <1>1, <1>2, <1>3 DEF IInv, PoolTypeOK, NoRegisterLost, PRegs
  <1>8. ReservedStaysUnmapped'
    BY <1>2, <1>3 DEF IInv, PoolTypeOK, ReservedStaysUnmapped, PRegs
  <1> QED
    BY <1>4, <1>5, <1>6, <1>7, <1>8 DEF IInv

\* allocate_register() with an eviction keeps it: the register changes hands.
LEMMA AllocateSpillingIInv ==
    ASSUME IInv, NEW v \in VRegs, AllocateSpilling(v)
    PROVE  IInv'
  <1> USE Registers
  <1>1. PICK c \in VRegs :
          /\ vreg_to_preg[c] # None
          /\ vreg_to_preg' = [vreg_to_preg EXCEPT ![c] = None, ![v] = vreg_to_preg[c]]
          /\ preg_to_vreg' = [preg_to_vreg EXCEPT ![vreg_to_preg[c]] = v]
    BY Zenon DEF AllocateSpilling, SpillCandidates, Dead, Mapped
  <1>2. /\ vreg_to_preg[v] = None
        /\ UNCHANGED <<free_registers, all_uses, idx, reserved, clobbered>>
    BY DEF AllocateSpilling
  <1> DEFINE p == vreg_to_preg[c]
  <1>3. /\ p \in PoolRegs /\ p \in PRegs /\ preg_to_vreg[p] = c
        /\ p \notin FreeSet /\ p \notin reserved
    BY <1>1, MappedFacts DEF PRegs
  <1>4. PoolTypeOK'
    BY SMTT(30), <1>1, <1>2, <1>3 DEF IInv, PoolTypeOK
  <1>5. MapsInverse'
    BY <1>1, <1>2, <1>3 DEF IInv, PoolTypeOK, MapsInverse
  <1>6. FreeIsUnused' /\ NoRegisterLost' /\ ReservedStaysUnmapped'
    BY <1>1, <1>2, <1>3 DEF IInv, PoolTypeOK, FreeIsUnused, NoRegisterLost,
                            ReservedStaysUnmapped, FreeSet, PRegs
  <1> QED
    BY <1>4, <1>5, <1>6 DEF IInv

\* spill_register() keeps it: the register goes back to the free list once.
LEMMA SpillRegisterIInv ==
    ASSUME IInv, NEW v \in VRegs, SpillRegister(v)
    PROVE  IInv'
  <1> DEFINE p == vreg_to_preg[v]
  <1> USE Registers
  <1>1. /\ p # None
        /\ free_registers' = Append(free_registers, p)
        /\ preg_to_vreg' = [preg_to_vreg EXCEPT ![p] = None]
        /\ vreg_to_preg' = [vreg_to_preg EXCEPT ![v] = None]
        /\ UNCHANGED <<all_uses, idx, reserved, clobbered>>
    BY DEF SpillRegister
  <1>2. /\ p \in PoolRegs /\ p \in PRegs /\ preg_to_vreg[p] = v
        /\ p \notin FreeSet /\ p \notin reserved
    BY <1>1, MappedFacts DEF PRegs
  <1>3. /\ free_registers' \in Seq(PoolRegs)
        /\ Distinct(free_registers')
        /\ FreeSet' = FreeSet \cup {p}
    BY <1>1, <1>2, PushBack DEF IInv, PoolTypeOK, FreeIsUnused, FreeSet
  <1>4. PoolTypeOK'
    BY <1>1, <1>2, <1>3 DEF IInv, PoolTypeOK
  <1>5. MapsInverse'
    BY <1>1, <1>2 DEF IInv, PoolTypeOK, MapsInverse
  <1>6. FreeIsUnused' /\ NoRegisterLost' /\ ReservedStaysUnmapped'
    BY <1>1, <1>2, <1>3 DEF IInv, PoolTypeOK, FreeIsUnused, NoRegisterLost,
                            ReservedStaysUnmapped, PRegs
  <1> QED
    BY <1>4, <1>5, <1>6 DEF IInv

\* reserve_register() keeps it: nothing is mapped yet, so the register is unused.
LEMMA ReserveRegisterIInv ==
    ASSUME IInv, NEW p \in PoolRegs, ReserveRegister(p)
    PROVE  IInv'
  <1> USE Registers
  <1>1. /\ free_registers' \in Seq(PoolRegs)
        /\ Distinct(free_registers')
        /\ FreeSet' = FreeSet \ {p}
    BY RemoveElem DEF IInv, PoolTypeOK, FreeIsUnused, ReserveRegister, FreeSet
  <1>2. /\ reserved' = reserved \cup {p}
        /\ UNCHANGED <<vreg_to_preg, preg_to_vreg, all_uses, idx, clobbered>>
        /\ \A v \in VRegs : vreg_to_preg[v] = None
    BY DEF ReserveRegister, Mapped
  <1>3. preg_to_vreg[p] = None
    BY <1>2 DEF IInv, PoolTypeOK, MapsInverse, PRegs
  <1> QED
    BY <1>1, <1>2, <1>3 DEF IInv, PoolTypeOK, MapsInverse, FreeIsUnused,
                            NoRegisterLost, ReservedStaysUnmapped, PRegs

\* force_register_mapping() keeps it, whoever held the register or the vreg before.
LEMMA ForceRegisterMappingIInv ==
    ASSUME IInv, NEW v \in VRegs, NEW p \in PoolRegs, ForceRegisterMapping(v, p)
    PROVE  IInv'
  <1> DEFINE w == preg_to_vreg[p]
             old == vreg_to_preg[v]
             moved == old # None /\ old # p
             released == IF moved THEN Append(free_registers, old) ELSE free_registers
  <1> USE Registers
  <1>1. /\ p \notin reserved
        /\ vreg_to_preg' = IF w # None /\ w # v
                           THEN [[vreg_to_preg EXCEPT ![v] = p] EXCEPT ![w] = None]
                           ELSE [vreg_to_preg EXCEPT ![v] = p]
        /\ preg_to_vreg' = IF moved
                           THEN [preg_to_vreg EXCEPT ![old] = None, ![p] = v]
                           ELSE [preg_to_vreg EXCEPT ![p] = v]
        /\ free_registers' = Remove(released, p)
        /\ UNCHANGED <<all_uses, idx, reserved, clobbered>>
    BY DEF ForceRegisterMapping
  <1>2. p \in PRegs /\ w \in VRegs \cup {None} /\ old \in PoolRegs \cup {None}
    BY DEF IInv, PoolTypeOK, PRegs
  <1>3. old # None => /\ old \in PoolRegs /\ old \in PRegs
                      /\ preg_to_vreg[old] = v
                      /\ old \notin FreeSet /\ old \notin reserved
    BY MappedFacts DEF PRegs
  <1>4. /\ released \in Seq(PoolRegs)
        /\ Distinct(released)
        /\ Elems(released) = FreeSet \cup (IF moved THEN {old} ELSE {})
    <2>1. CASE moved
      BY <1>3, <2>1, PushBack DEF IInv, PoolTypeOK, FreeIsUnused, FreeSet
    <2>2. CASE ~moved
      BY <2>2 DEF IInv, PoolTypeOK, FreeIsUnused, FreeSet
    <2> QED
      BY <2>1, <2>2
  <1>5. /\ free_registers' \in Seq(PoolRegs)
        /\ Distinct(free_registers')
        /\ FreeSet' = (FreeSet \cup (IF moved THEN {old} ELSE {})) \ {p}
    <2> HIDE DEF released
    <2> QED
      BY <1>1, <1>4, RemoveElem DEF FreeSet
  <1>6. PoolTypeOK'
    BY ZenonT(30), <1>1, <1>2, <1>3, <1>5 DEF IInv, PoolTypeOK
  <1>7. MapsInverse'
    BY <1>1, <1>2, <1>3 DEF IInv, PoolTypeOK, MapsInverse
  <1>8. FreeIsUnused'
    <2> HIDE DEF released
    <2>1. ASSUME NEW q \in FreeSet' PROVE preg_to_vreg'[q] = None /\ q \notin reserved'
      <3>1. q # p /\ (q \in FreeSet \/ (moved /\ q = old))
        BY <1>5
      <3>2. CASE moved /\ q = old
        BY <1>1, <1>2, <1>3, <3>1, <3>2 DEF IInv, PoolTypeOK
      <3>3. CASE q \in FreeSet
        <4>1. q \in PRegs
          BY <3>3 DEF IInv, PoolTypeOK, FreeSet, Elems, PRegs
        <4> QED
          BY <1>1, <1>2, <1>3, <3>1, <3>3, <4>1 DEF IInv, PoolTypeOK, FreeIsUnused
      <3> QED
        BY <3>1, <3>2, <3>3
    <2> QED
      BY <1>5, <2>1 DEF FreeIsUnused
  <1>9. NoRegisterLost'
    BY <1>1, <1>2, <1>3, <1>5 DEF IInv, PoolTypeOK, NoRegisterLost, PRegs
  <1>10. ReservedStaysUnmapped'
    BY SMTT(30), <1>1, <1>2, <1>3 DEF IInv, PoolTypeOK, ReservedStaysUnmapped, PRegs
  <1> QED
    BY <1>6, <1>7, <1>8, <1>9, <1>10 DEF IInv

\* No value is ever in an argument register, so the loop finds no occupant.
LEMMA ClobberNobody ==
    ASSUME IInv, clobbered # <<>>
    PROVE  Head(clobbered) \in AbiRegs /\ preg_to_vreg[Head(clobbered)] = None
  <1>1. Head(clobbered) \in AbiRegs
    BY DEF IInv, PoolTypeOK
  <1>2. preg_to_vreg[Head(clobbered)] \in VRegs \cup {None}
    BY <1>1 DEF IInv, PoolTypeOK, PRegs
  <1>3. ASSUME NEW v \in VRegs PROVE vreg_to_preg[v] # Head(clobbered)
    <2>1. vreg_to_preg[v] \in PoolRegs \cup {None}
      BY DEF IInv, PoolTypeOK
    <2>2. Head(clobbered) \notin PoolRegs \cup {None}
      BY <1>1, Registers DEF PRegs
    <2> QED
      BY <2>1, <2>2
  <1> QED
    BY <1>1, <1>2, <1>3 DEF IInv, MapsInverse, PRegs

\* Every operation keeps the invariant.
LEMMA NextIInv == IInv /\ [Next]_vars => IInv'
  <1> SUFFICES ASSUME IInv, [Next]_vars PROVE IInv'
    OBVIOUS
  <1>1. CASE InitFunction
    <2>1. Init'
      BY <1>1 DEF InitFunction, Init
    <2> QED
      BY <2>1, InitIInv, PTL
  <1>2. ASSUME NEW p \in PoolRegs, ReserveRegister(p) PROVE IInv'
    BY <1>2, ReserveRegisterIInv
  <1>3. ASSUME NEW v \in VRegs, AllocateFree(v) PROVE IInv'
    BY <1>3, AllocateFreeIInv
  <1>4. ASSUME NEW v \in VRegs, AllocateSpilling(v) PROVE IInv'
    BY <1>4, AllocateSpillingIInv
  <1>5. ASSUME NEW v \in VRegs, SpillRegister(v) PROVE IInv'
    BY <1>5, SpillRegisterIInv
  <1>6. ASSUME NEW v \in VRegs, NEW p \in PoolRegs, ForceRegisterMapping(v, p)
        PROVE  IInv'
    BY <1>6, ForceRegisterMappingIInv
  <1>7. ASSUME NEW list \in ClobberLists, HandleSyscallClobbering(list) PROVE IInv'
    BY <1>7, ClobberAssumption
       DEF HandleSyscallClobbering, IInv, PoolTypeOK, MapsInverse, FreeIsUnused,
           NoRegisterLost, ReservedStaysUnmapped, FreeSet
  <1>8. CASE ClobberNext
    <2>1. /\ UNCHANGED <<vreg_to_preg, preg_to_vreg, free_registers, all_uses, idx, reserved>>
          /\ clobbered' \in Seq(AbiRegs)
      BY <1>8, ClobberNobody DEF ClobberNext, IInv, PoolTypeOK
    <2> QED
      BY <2>1 DEF IInv, PoolTypeOK, MapsInverse, FreeIsUnused, NoRegisterLost,
                  ReservedStaysUnmapped, FreeSet
  <1>9. CASE NextInstr
    BY <1>9, NumInstrsAssumption
       DEF NextInstr, IInv, PoolTypeOK, MapsInverse, FreeIsUnused, NoRegisterLost,
           ReservedStaysUnmapped, FreeSet, InstrIdx
  <1>10. CASE UNCHANGED vars
    BY <1>10 DEF vars, IInv, PoolTypeOK, MapsInverse, FreeIsUnused, NoRegisterLost,
                 ReservedStaysUnmapped, FreeSet
  <1> QED
    BY <1>1, <1>2, <1>3, <1>4, <1>5, <1>6, <1>7, <1>8, <1>9, <1>10 DEF Next

-----------------------------------------------------------------------------

\* The conjunction is invariant under every sequence of allocator calls.
THEOREM IInvInvariant == Spec => []IInv
  BY InitIInv, NextIInv, PTL DEF Spec

\* The maps keep their types for every register file.
THEOREM TypeCorrect == Spec => []TypeOK
  <1>1. IInv => TypeOK
    <2>1. ASSUME PoolTypeOK PROVE clobbered \in Seq(PRegs)
      BY <2>1 DEF PoolTypeOK, PRegs
    <2> QED
      BY <2>1 DEF IInv, PoolTypeOK, TypeOK, PRegs
  <1> QED
    BY <1>1, IInvInvariant, PTL

\* Two virtual registers never share a physical one: the maps stay inverse.
THEOREM MapsInverseInvariant == Spec => []MapsInverse
  BY IInvInvariant, PTL DEF IInv

\* allocate_register() only hands out registers that are nobody's, and no
\* pool register is ever lost.
THEOREM FreeListInvariant ==
    Spec => [](FreeIsUnused /\ NoRegisterLost /\ ReservedStaysUnmapped)
  BY IInvInvariant, PTL DEF IInv

\* get_next_use() returns the least use after i of a vreg that has one.
LEMMA NextUseIsLeast ==
    ASSUME NEW v, NEW i, UsesAfter(v, i) \subseteq Nat, UsesAfter(v, i) # {}
    PROVE  /\ GetNextUse(v, i) \in UsesAfter(v, i)
           /\ GetNextUse(v, i) # None
           /\ \A x \in UsesAfter(v, i) : GetNextUse(v, i) <= x
  <1> DEFINE U == UsesAfter(v, i)
  <1> USE DEF None
  <1>1. \E u \in U : \A w \in U : u <= w
    <2> DEFINE R == {ss \in Nat \X Nat : ss[1] < ss[2]}
    <2>1. IsWellFoundedOn(R, Nat)
      BY NatLessThanWellFounded DEF OpToRel
    <2>2. PICK u \in U : \A w \in U : ~ (<<w, u>> \in R)
      <3> HIDE DEF R
      <3> QED
        BY <2>1, WFMin
    <2>3. ASSUME NEW w \in U PROVE u <= w
      <3>1. u \in Nat /\ w \in Nat
        OBVIOUS
      <3>2. <<w, u>> \notin R
        BY <2>2
      <3> HIDE DEF U
      <3>3. ~ (w < u)
        BY <3>1, <3>2
      <3> QED
        BY <3>1, <3>3
    <2> QED
      BY <2>3
  <1> HIDE DEF U
  <1>2. GetNextUse(v, i) = CHOOSE u \in U : \A w \in U : u <= w
    BY DEF GetNextUse, U
  <1>3. GetNextUse(v, i) \in U /\ \A x \in U : GetNextUse(v, i) <= x
    BY <1>1, <1>2
  <1>4. GetNextUse(v, i) # None
    BY <1>3 DEF U
  <1> QED
    BY <1>3, <1>4 DEF U

\* The eviction choice of allocate_register() is furthest-next-use: every
\* future use of the evicted vreg comes after some use of each vreg kept.
THEOREM EvictionFurthest == Spec => EvictsFurthest
  <1> DEFINE Furthest ==
        \A v \in VRegs : AllocateSpilling(v) =>
          \A c, w \in VRegs :
            (vreg_to_preg[c] # None /\ vreg_to_preg'[c] = None
               /\ vreg_to_preg[w] # None /\ vreg_to_preg'[w] # None) =>
            \A x \in UsesAfter(c, idx) : \E y \in UsesAfter(w, idx) : y <= x
  <1>1. ASSUME IInv PROVE Furthest
    <2> SUFFICES ASSUME NEW v \in VRegs, AllocateSpilling(v),
                        NEW c \in VRegs, NEW w \in VRegs,
                        vreg_to_preg[c] # None, vreg_to_preg'[c] = None,
                        vreg_to_preg[w] # None,
                        NEW x \in UsesAfter(c, idx)
                 PROVE  \E y \in UsesAfter(w, idx) : y <= x
      BY DEF Furthest
    <2> USE <1>1
    <2>1. PICK d \in SpillCandidates(idx) :
            vreg_to_preg' = [vreg_to_preg EXCEPT ![d] = None, ![v] = vreg_to_preg[d]]
      BY Zenon DEF AllocateSpilling
    <2>2. d \in VRegs /\ vreg_to_preg[d] # None
      BY DEF SpillCandidates, Dead, Mapped
    <2>3. c = d
      BY <2>1, <2>2 DEF IInv, PoolTypeOK
    <2>4. UsesAfter(c, idx) \subseteq Nat /\ UsesAfter(w, idx) \subseteq Nat
      BY NumInstrsAssumption DEF IInv, PoolTypeOK, UsesAfter, InstrIdx
    <2>5. c \notin Dead(idx) /\ w \notin Dead(idx)
      <3>1. GetNextUse(c, idx) \in UsesAfter(c, idx) /\ GetNextUse(c, idx) # None
        BY <2>4, NextUseIsLeast
      <3>2. c \notin Dead(idx)
        BY <3>1 DEF Dead
      <3> QED
        BY <2>2, <2>3, <3>2 DEF SpillCandidates, Dead, Mapped
    <2>6. UsesAfter(w, idx) # {}
      BY <2>5 DEF Dead, Mapped, GetNextUse
    <2>7. GetNextUse(w, idx) \in UsesAfter(w, idx)
      BY <2>4, <2>6, NextUseIsLeast
    <2>8. GetNextUse(c, idx) <= x /\ GetNextUse(c, idx) \in Nat
      BY <2>4, NextUseIsLeast
    <2>9. GetNextUse(w, idx) <= GetNextUse(c, idx)
      BY <2>3, <2>5 DEF SpillCandidates, Mapped, Dead
    <2> QED
      BY <2>4, <2>7, <2>8, <2>9
  <1>2. IInv /\ [Next]_vars => [Furthest]_vars
    BY <1>1
  <1> QED
    BY <1>2, IInvInvariant, PTL DEF Spec, EvictsFurthest

=============================================================================
