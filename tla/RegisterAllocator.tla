------------------------- MODULE RegisterAllocator -------------------------
(***************************************************************************)
(* The backend's register allocator (register_allocator.cpp): a partial    *)
(* map between virtual and physical registers, its inverse, and a stack of *)
(* free physical registers.  One action per operation of the class; the    *)
(* caller's protocol (init, then reservations, then allocation while the   *)
(* instruction index grows) is the one plan_frame() and the generator use. *)
(***************************************************************************)
EXTENDS Integers, Sequences, FiniteSets

CONSTANTS
    VRegs,      \* virtual registers a function names
    Pool,       \* the registers init_free_registers() lists, in that order
    AbiRegs,    \* registers outside the pool that a host call clobbers
    NumInstrs,  \* instructions of a function
    ClobberLists \* the lists spill_around_syscall() is called with

Elems(s) == {s[i] : i \in 1..Len(s)}
Distinct(s) == \A i, j \in 1..Len(s) : s[i] = s[j] => i = j

PoolRegs == Elems(Pool)
PRegs == PoolRegs \cup AbiRegs
InstrIdx == 0..(NumInstrs - 1)

\* get_physical_register() and get_vreg_for_preg() answer -1 for "none".
None == -1

ASSUME PoolAssumption == Pool \in Seq(Nat) /\ Distinct(Pool)
ASSUME AbiAssumption == AbiRegs \subseteq Nat /\ AbiRegs \cap PoolRegs = {}
ASSUME ClobberAssumption == ClobberLists \subseteq Seq(AbiRegs)
ASSUME VRegsAssumption == VRegs \subseteq Nat
ASSUME NumInstrsAssumption == NumInstrs \in Nat \ {0}

VARIABLES
    vreg_to_preg,   \* m_vreg_to_preg, None where there is no entry
    preg_to_vreg,   \* m_preg_to_vreg, None where there is no entry
    free_registers, \* m_free_registers, a stack: back() is the last element
    all_uses,       \* m_vreg_all_uses: the indices a vreg appears at
    idx,            \* the caller's current_instr_idx
    reserved,       \* the registers reserve_register() was called for
    clobbered       \* what handle_syscall_clobbering() has left to visit

vars == <<vreg_to_preg, preg_to_vreg, free_registers, all_uses, idx, reserved,
          clobbered>>

FreeSet == Elems(free_registers)
Mapped == {v \in VRegs : vreg_to_preg[v] # None}

(***************************************************************************)
(* get_next_use(): the first use strictly after i, None for a dead vreg.   *)
(***************************************************************************)
UsesAfter(v, i) == {u \in all_uses[v] : u > i}

GetNextUse(v, i) ==
    IF UsesAfter(v, i) = {}
    THEN None
    ELSE CHOOSE u \in UsesAfter(v, i) : \A w \in UsesAfter(v, i) : u <= w

(***************************************************************************)
(* find_spill_candidate() walks an unordered map: the first dead vreg it   *)
(* meets ends the walk, otherwise a vreg whose next use is furthest wins.  *)
(* Which dead vreg, or which of several equally far ones, is the hash      *)
(* table's choice.                                                         *)
(***************************************************************************)
Dead(i) == {v \in Mapped : GetNextUse(v, i) = None}

\* (A slip: a dead vreg's -1 taken for a near use.)
SpillCandidatesDeadIsNear(i) ==
    {v \in Mapped : \A w \in Mapped : GetNextUse(w, i) <= GetNextUse(v, i)}

SpillCandidates(i) ==
    IF Dead(i) # {}
    THEN Dead(i)
    ELSE {v \in Mapped : \A w \in Mapped : GetNextUse(w, i) <= GetNextUse(v, i)}

\* m_free_registers.erase(it): what follows position i moves down by one.
Erase(s, i) == [j \in 1..(Len(s) - 1) |-> IF j < i THEN s[j] ELSE s[j + 1]]

Remove(s, p) ==
    IF \E i \in 1..Len(s) : s[i] = p
    THEN Erase(s, CHOOSE i \in 1..Len(s) : s[i] = p)
    ELSE s

-----------------------------------------------------------------------------

Init ==
    /\ vreg_to_preg = [v \in VRegs |-> None]
    /\ preg_to_vreg = [p \in PRegs |-> None]
    /\ free_registers = Pool
    /\ all_uses \in [VRegs -> SUBSET InstrIdx]
    /\ idx = 0
    /\ reserved = {}
    /\ clobbered = <<>>

\* init(func), once the previous function's last instruction is generated:
\* forget everything and tabulate the uses of the next function.
InitFunction ==
    /\ clobbered = <<>> /\ idx = NumInstrs
    /\ vreg_to_preg' = [v \in VRegs |-> None]
    /\ preg_to_vreg' = [p \in PRegs |-> None]
    /\ free_registers' = Pool
    /\ all_uses' \in [VRegs -> SUBSET InstrIdx]
    /\ idx' = 0
    /\ reserved' = {}
    /\ UNCHANGED clobbered

\* reserve_register(preg): the header asks for it before the first allocation.
ReserveRegister(p) ==
    /\ clobbered = <<>>
    /\ idx = 0 /\ Mapped = {}
    /\ free_registers' = Remove(free_registers, p)
    /\ reserved' = reserved \cup {p}
    /\ UNCHANGED <<vreg_to_preg, preg_to_vreg, all_uses, idx, clobbered>>

\* allocate_register() with a register on the free list; a vreg that already
\* has a register keeps it, and nothing changes.
AllocateFree(v) ==
    /\ clobbered = <<>>
    /\ vreg_to_preg[v] = None
    /\ free_registers # <<>>
    /\ LET p == free_registers[Len(free_registers)]
       IN  /\ vreg_to_preg' = [vreg_to_preg EXCEPT ![v] = p]
           /\ preg_to_vreg' = [preg_to_vreg EXCEPT ![p] = v]
    /\ free_registers' = SubSeq(free_registers, 1, Len(free_registers) - 1)
    /\ UNCHANGED <<all_uses, idx, reserved, clobbered>>

\* allocate_register() with an empty free list: the candidate's register is
\* pushed and popped again, so it passes straight to vreg.  Nothing mapped
\* means no candidate, and the call returns -1 with no change.
AllocateSpilling(v) ==
    /\ clobbered = <<>>
    /\ vreg_to_preg[v] = None
    /\ free_registers = <<>>
    /\ \E c \in SpillCandidates(idx) :
         /\ vreg_to_preg' = [vreg_to_preg EXCEPT ![c] = None, ![v] = vreg_to_preg[c]]
         /\ preg_to_vreg' = [preg_to_vreg EXCEPT ![vreg_to_preg[c]] = v]
    /\ UNCHANGED <<free_registers, all_uses, idx, reserved, clobbered>>

\* (A slip: the register is not given back.)
SpillRegisterLeaks(v) ==
    /\ clobbered = <<>>
    /\ vreg_to_preg[v] # None
    /\ preg_to_vreg' = [preg_to_vreg EXCEPT ![vreg_to_preg[v]] = None]
    /\ vreg_to_preg' = [vreg_to_preg EXCEPT ![v] = None]
    /\ UNCHANGED <<free_registers, all_uses, idx, reserved, clobbered>>

\* spill_register(), free_register() and invalidate_register() share this body.
SpillRegister(v) ==
    /\ clobbered = <<>>
    /\ vreg_to_preg[v] # None
    /\ free_registers' = Append(free_registers, vreg_to_preg[v])
    /\ preg_to_vreg' = [preg_to_vreg EXCEPT ![vreg_to_preg[v]] = None]
    /\ vreg_to_preg' = [vreg_to_preg EXCEPT ![v] = None]
    /\ UNCHANGED <<all_uses, idx, reserved, clobbered>>

\* (A slip: the occupant keeps its entry.)
ForceRegisterMappingNoEviction(v, p) ==
    LET old == vreg_to_preg[v]
        moved == old # None /\ old # p
    IN  /\ clobbered = <<>>
        /\ p \notin reserved
        /\ vreg_to_preg' = [vreg_to_preg EXCEPT ![v] = p]
        /\ preg_to_vreg' = IF moved
                           THEN [preg_to_vreg EXCEPT ![old] = None, ![p] = v]
                           ELSE [preg_to_vreg EXCEPT ![p] = v]
        /\ free_registers' = Remove(IF moved
                                    THEN Append(free_registers, old)
                                    ELSE free_registers, p)
        /\ UNCHANGED <<all_uses, idx, reserved, clobbered>>

\* force_register_mapping(): evict preg's occupant, give back vreg's old
\* register, and take preg out of the free list.
\* That preg is not reserved is left to the caller:
\* the code does not test it.
ForceRegisterMapping(v, p) ==
    LET w == preg_to_vreg[p]
        old == vreg_to_preg[v]
        evicted == [vreg_to_preg EXCEPT ![v] = p]
        moved == old # None /\ old # p
    IN  /\ clobbered = <<>>
        /\ p \notin reserved
        /\ vreg_to_preg' = IF w # None /\ w # v
                           THEN [evicted EXCEPT ![w] = None]
                           ELSE evicted
        /\ preg_to_vreg' = IF moved
                           THEN [preg_to_vreg EXCEPT ![old] = None, ![p] = v]
                           ELSE [preg_to_vreg EXCEPT ![p] = v]
        /\ free_registers' = Remove(IF moved
                                    THEN Append(free_registers, old)
                                    ELSE free_registers, p)
        /\ UNCHANGED <<all_uses, idx, reserved, clobbered>>

\* handle_syscall_clobbering(list) is entered: spill_around_syscall() passes
\* argument registers, in ascending order.
HandleSyscallClobbering(list) ==
    /\ clobbered = <<>>
    /\ clobbered' = list
    /\ UNCHANGED <<vreg_to_preg, preg_to_vreg, free_registers, all_uses, idx, reserved>>

\* One iteration of its loop.  An occupant moves to a free register when
\* there is one (its own register is not given back) and is spilled otherwise.
ClobberNext ==
    LET p == Head(clobbered)
        v == preg_to_vreg[p]
        new == free_registers[Len(free_registers)]
    IN  /\ clobbered # <<>>
        /\ clobbered' = Tail(clobbered)
        /\ IF v = None
           THEN UNCHANGED <<vreg_to_preg, preg_to_vreg, free_registers>>
           ELSE IF free_registers # <<>>
           THEN /\ vreg_to_preg' = [vreg_to_preg EXCEPT ![v] = new]
                /\ preg_to_vreg' = [preg_to_vreg EXCEPT ![p] = None, ![new] = v]
                /\ free_registers' = SubSeq(free_registers, 1, Len(free_registers) - 1)
           ELSE /\ vreg_to_preg' = [vreg_to_preg EXCEPT ![v] = None]
                /\ preg_to_vreg' = [preg_to_vreg EXCEPT ![p] = None]
                /\ free_registers' = Append(free_registers, p)
        /\ UNCHANGED <<all_uses, idx, reserved>>

\* The caller moves on: current_instr_idx is bumped before an instruction is
\* generated, so it is the instruction count while the last one is.
NextInstr ==
    /\ clobbered = <<>>
    /\ idx < NumInstrs
    /\ idx' = idx + 1
    /\ UNCHANGED <<vreg_to_preg, preg_to_vreg, free_registers, all_uses, reserved,
                   clobbered>>

Next ==
    \/ InitFunction
    \/ \E p \in PoolRegs : ReserveRegister(p)
    \/ \E v \in VRegs : AllocateFree(v)
    \/ \E v \in VRegs : AllocateSpilling(v)
    \/ \E v \in VRegs : SpillRegister(v)
    \/ \E v \in VRegs, p \in PoolRegs : ForceRegisterMapping(v, p)
    \/ \E list \in ClobberLists : HandleSyscallClobbering(list)
    \/ ClobberNext
    \/ NextInstr

Spec == Init /\ [][Next]_vars

-----------------------------------------------------------------------------

\* The two maps are functions between the register files, and the free list
\* holds pool registers only.
TypeOK ==
    /\ vreg_to_preg \in [VRegs -> PRegs \cup {None}]
    /\ preg_to_vreg \in [PRegs -> VRegs \cup {None}]
    /\ free_registers \in Seq(PoolRegs)
    /\ all_uses \in [VRegs -> SUBSET InstrIdx]
    /\ idx \in 0..NumInstrs
    /\ reserved \subseteq PoolRegs
    /\ clobbered \in Seq(PRegs)

\* m_vreg_to_preg and m_preg_to_vreg stay each other's inverse through every
\* eviction, forced mapping and clobber, so no two values share a register.
MapsInverse ==
    \A v \in VRegs, p \in PRegs : vreg_to_preg[v] = p <=> preg_to_vreg[p] = v

\* A register on the free list is there once, is nobody's, and was not
\* reserved: allocate_register() can never hand out a register in use.
FreeIsUnused ==
    /\ Distinct(free_registers)
    /\ \A p \in FreeSet : preg_to_vreg[p] = None /\ p \notin reserved

\* Every pool register is free, in use or reserved: none leaks out of the
\* allocator, whatever the sequence of spills, evictions and host calls.
NoRegisterLost ==
    \A p \in PoolRegs : p \in FreeSet \/ preg_to_vreg[p] # None \/ p \in reserved

\* A register reserved for fixed scalar residency is never mapped to a vreg.
ReservedStaysUnmapped == \A p \in reserved : preg_to_vreg[p] = None

\* The vreg allocate_register() evicts is one whose next use is furthest:
\* every vreg it keeps is used again no later than the evicted one.
EvictsFurthest ==
    [][ \A v \in VRegs : AllocateSpilling(v) =>
          \A c, w \in VRegs :
            (vreg_to_preg[c] # None /\ vreg_to_preg'[c] = None
               /\ vreg_to_preg[w] # None /\ vreg_to_preg'[w] # None) =>
            \A x \in UsesAfter(c, idx) : \E y \in UsesAfter(w, idx) : y <= x ]_vars

=============================================================================
