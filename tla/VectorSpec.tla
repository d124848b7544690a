----------------------------- MODULE VectorSpec ------------------------------
(***************************************************************************)
(* What SmallVector promises: the subset of std::vector that the IR uses   *)
(* for the operands of an instruction.  A vector that lives holds a        *)
(* sequence; an operation that throws has no effect.                       *)
(***************************************************************************)
EXTENDS Naturals, Sequences

CONSTANTS
    Vecs,     \* the vector objects
    Value,    \* the elements
    Default,  \* T()
    MaxSize   \* bound on the sizes asked for

VARIABLES
    alive,    \* the objects between their construction and destruction
    elements  \* the sequence each holds; empty when it does not live

vars == <<alive, elements>>

Init == alive = {} /\ elements = [v \in Vecs |-> <<>>]

\* alive and elements when v lives and holds s.
Holds(v, s) == alive' = alive \cup {v} /\ elements' = [elements EXCEPT ![v] = s]

Lists == UNION {[1..n -> Value] : n \in 0..MaxSize}

Construct(v, s) == v \notin alive /\ Holds(v, s)
Assign(v, w) == w \in alive /\ v # w /\ Holds(v, elements[w])

Move(v, w) ==
    /\ w \in alive /\ v # w
    /\ alive' = alive \cup {v}
    /\ elements' = [elements EXCEPT ![v] = elements[w], ![w] = <<>>]

Destroy(v) ==
    /\ v \in alive
    /\ alive' = alive \ {v}
    /\ elements' = [elements EXCEPT ![v] = <<>>]

PushBack(v, x) == v \in alive /\ Len(elements[v]) < MaxSize /\ Holds(v, Append(elements[v], x))
PopBack(v) == v \in alive /\ elements[v] # <<>> /\ Holds(v, SubSeq(elements[v], 1, Len(elements[v]) - 1))
Clear(v) == v \in alive /\ Holds(v, <<>>)

Resize(v, n) ==
    /\ v \in alive
    /\ Holds(v, [i \in 1..n |-> IF i <= Len(elements[v]) THEN elements[v][i] ELSE Default])

Set(v, i, x) == v \in alive /\ i \in 1..Len(elements[v]) /\ Holds(v, [elements[v] EXCEPT ![i] = x])

Next == \E v \in Vecs :
    \/ \E s \in Lists : Construct(v, s)
    \/ \E w \in Vecs : Assign(v, w) \/ Move(v, w)
    \/ Destroy(v) \/ PopBack(v) \/ Clear(v)
    \/ \E x \in Value : PushBack(v, x) \/ \E i \in 1..MaxSize : Set(v, i, x)
    \/ \E n \in 0..MaxSize : Resize(v, n)

Spec == Init /\ [][Next]_vars

=============================================================================
