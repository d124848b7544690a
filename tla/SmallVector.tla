----------------------------- MODULE SmallVector -----------------------------
(***************************************************************************)
(* SmallVector (small_vector.h): a vector with room for N elements in the  *)
(* object and a heap block for more.                                       *)
(*                                                                         *)
(* The memory m of an operation is the objects and the heap.  A block is   *)
(* the sequence of its cells, and the empty sequence while it is free;     *)
(* malloc() may hand out any free block again, may fail, and leaves Junk   *)
(* in the cells.                                                           *)
(***************************************************************************)
EXTENDS Naturals, Sequences, FiniteSets

CONSTANTS
    Vecs, Value, Default, MaxSize,
    N,       \* elements stored in the object
    Blocks,  \* what malloc() can return
    Junk     \* a cell nobody has written

ASSUME SmallVectorAssumption ==
    /\ Default \in Value /\ MaxSize \in Nat /\ N \in Nat \ {0}
    /\ Junk \notin Value /\ "inline" \notin Blocks

VARIABLES
    alive,  \* the objects that live
    vec,    \* m_data, m_size, m_capacity and m_inline of each
    heap    \* the cells of each block

vars == <<alive, vec, heap>>

Cell == Value \cup {Junk}
Inline == "inline"

\* SmallVector()
Fresh == [data |-> Inline, size |-> 0, capacity |-> N, inline |-> [i \in 1..N |-> Junk]]

mem == [vec |-> vec, heap |-> heap]

\* The cells m_data points to.
Cells(m, v) == IF m.vec[v].data = Inline THEN m.vec[v].inline ELSE m.heap[m.vec[v].data]

\* The elements begin()..end().
Elements(m, v) == [i \in 1..m.vec[v].size |-> Cells(m, v)[i]]

-----------------------------------------------------------------------------
\* The helpers, as functions of the memory.

\* memcpy() of the first n cells of s to m_data.
Copied(m, v, s, n) ==
    LET Over(cells) == [i \in 1..Len(cells) |-> IF i <= n THEN s[i] ELSE cells[i]]
    IN  IF m.vec[v].data = Inline
        THEN [m EXCEPT !.vec[v].inline = Over(@)]
        ELSE [m EXCEPT !.heap[m.vec[v].data] = Over(@)]

Sized(m, v, n) == [m EXCEPT !.vec[v].size = n]

\* v holds s, for which its storage has room.
Written(m, v, s) == Sized(Copied(m, v, s, Len(s)), v, Len(s))

\* release()
Released(m, v) == IF m.vec[v].data = Inline THEN m ELSE [m EXCEPT !.heap[m.vec[v].data] = <<>>]

\* The capacity doubles until it is enough.
Capacities(capacity, wanted) ==
    {c \in wanted..(2 * (capacity + wanted)) :
        /\ \E k \in 1..wanted : c = capacity * 2^k
        /\ c = 2 * capacity \/ c < 2 * wanted}

\* The elements are copied to block b of c cells, which becomes the storage.
Grown(m, v, b, c) ==
    LET cells == [i \in 1..c |-> IF i <= m.vec[v].size THEN Cells(m, v)[i] ELSE Junk]
    IN  [Released(m, v) EXCEPT !.heap[b] = cells, !.vec[v].data = b, !.vec[v].capacity = c]

\* What reserve() can leave when it does not throw.
Reserve(m, v, wanted) ==
    IF wanted <= m.vec[v].capacity THEN {m}
    ELSE {Grown(m, v, b, c) : b \in {x \in Blocks : m.heap[x] = <<>>},
                              c \in Capacities(m.vec[v].capacity, wanted)}

\* assign()
Assigned(m, v, s) == {Written(r, v, s) : r \in Reserve(m, v, Len(s))}

\* steal()
Stolen(m, v, w) ==
    LET from == m.vec[w]
    IN  IF from.data = Inline
        THEN [Sized(Copied(m, v, from.inline, from.size), v, from.size) EXCEPT !.vec[w].size = 0]
        ELSE [m EXCEPT !.vec[v] = [@ EXCEPT !.data = from.data, !.capacity = from.capacity, !.size = from.size],
                       !.vec[w] = [from EXCEPT !.data = Inline, !.capacity = N, !.size = 0]]

-----------------------------------------------------------------------------
\* The operations.

Init ==
    /\ alive = {}
    /\ vec = [v \in Vecs |-> Fresh]
    /\ heap = [b \in Blocks |-> <<>>]

Lists == UNION {[1..n -> Value] : n \in 0..MaxSize}

Becomes(m) == vec' = m.vec /\ heap' = m.heap

\* The memory with a new object v in place of what was there.
WithFresh(v) == [mem EXCEPT !.vec[v] = Fresh]

\* SmallVector(std::initializer_list): reserve() and the loop.
Construct(v, s) ==
    /\ v \notin alive
    /\ \E m \in Assigned(WithFresh(v), v, s) : Becomes(m)
    /\ alive' = alive \cup {v}

CopyConstruct(v, w) ==
    /\ v \notin alive /\ w \in alive
    /\ \E m \in Assigned(WithFresh(v), v, Elements(mem, w)) : Becomes(m)
    /\ alive' = alive \cup {v}

MoveConstruct(v, w) ==
    /\ v \notin alive /\ w \in alive
    /\ Becomes(Stolen(WithFresh(v), v, w))
    /\ alive' = alive \cup {v}

CopyAssign(v, w) ==
    /\ {v, w} \subseteq alive /\ v # w
    /\ \E m \in Assigned(mem, v, Elements(mem, w)) : Becomes(m)
    /\ UNCHANGED alive

\* (Slip: the old block is not freed.)
MoveAssignLeaks(v, w) ==
    /\ {v, w} \subseteq alive /\ v # w
    /\ LET inlined == [mem EXCEPT !.vec[v].data = Inline, !.vec[v].capacity = N]
       IN  Becomes(Stolen(inlined, v, w))
    /\ UNCHANGED alive

MoveAssign(v, w) ==
    /\ {v, w} \subseteq alive /\ v # w
    /\ LET inlined == [Released(mem, v) EXCEPT !.vec[v] = [@ EXCEPT !.data = Inline, !.capacity = N]]
       IN  Becomes(Stolen(inlined, v, w))
    /\ UNCHANGED alive

\* ~SmallVector(); the object is gone.
Destroy(v) ==
    /\ v \in alive
    /\ Becomes([Released(mem, v) EXCEPT !.vec[v] = Fresh])
    /\ alive' = alive \ {v}

\* push_back() and emplace_back() of a value that is not in the vector.
PushBack(v, x) ==
    /\ v \in alive /\ vec[v].size < MaxSize
    /\ \E m \in Reserve(mem, v, vec[v].size + 1) : Becomes(Written(m, v, Append(Elements(m, v), x)))
    /\ UNCHANGED alive

\* pop_back() of a vector that is not empty.
PopBack(v) ==
    /\ v \in alive /\ vec[v].size > 0
    /\ Becomes(Sized(mem, v, vec[v].size - 1))
    /\ UNCHANGED alive

Clear(v) ==
    /\ v \in alive
    /\ Becomes(Sized(mem, v, 0))
    /\ UNCHANGED alive

\* (Slip: the new elements are not written.)
ResizeRaw(v, n) ==
    /\ v \in alive
    /\ \E m \in Reserve(mem, v, n) : Becomes(Sized(m, v, n))
    /\ UNCHANGED alive

Resize(v, n) ==
    /\ v \in alive
    /\ \E m \in Reserve(mem, v, n) :
         LET old == Elements(m, v)
             new == [i \in 1..n |-> IF i <= Len(old) THEN old[i] ELSE Default]
         IN  Becomes(Written(m, v, new))
    /\ UNCHANGED alive

\* reserve() called by a user of the vector.
ReserveMore(v, n) ==
    /\ v \in alive
    /\ \E m \in Reserve(mem, v, n) : Becomes(m)
    /\ UNCHANGED alive

\* An assignment through operator[], at() or an iterator.
Set(v, i, x) ==
    /\ v \in alive /\ i \in 1..vec[v].size
    /\ Becomes(Written(mem, v, [Elements(mem, v) EXCEPT ![i] = x]))
    /\ UNCHANGED alive

\* malloc() fails, before anything has changed: std::bad_alloc.
BadAlloc(v, n) == v \in alive /\ n > vec[v].capacity /\ UNCHANGED vars

Next == \E v \in Vecs :
    \/ \E s \in Lists : Construct(v, s)
    \/ \E w \in Vecs : CopyConstruct(v, w) \/ MoveConstruct(v, w) \/ CopyAssign(v, w) \/ MoveAssign(v, w)
    \/ Destroy(v) \/ PopBack(v) \/ Clear(v)
    \/ \E x \in Value : PushBack(v, x) \/ \E i \in 1..MaxSize : Set(v, i, x)
    \/ \E n \in 0..MaxSize : Resize(v, n) \/ ReserveMore(v, n) \/ BadAlloc(v, n)

Spec == Init /\ [][Next]_vars

-----------------------------------------------------------------------------

\* Sizes, capacities and storage agree for every object; an object that does
\* not live has none.
TypeOK ==
    /\ alive \subseteq Vecs
    /\ \A b \in Blocks : heap[b] \in Seq(Cell)
    /\ \A v \in Vecs :
         /\ vec[v].data \in Blocks \cup {Inline}
         /\ vec[v].inline \in [1..N -> Cell]
         /\ vec[v].capacity = Len(Cells(mem, v))
         /\ vec[v].size \in 0..vec[v].capacity
         /\ v \notin alive => vec[v] = Fresh

\* release(), steal() and reserve() hand every heap block from owner to owner:
\* a block is allocated exactly while one vector, and only one, points to it.
\* Nothing leaks, nothing is freed twice, no vector points to freed memory.
OneOwner ==
    /\ \A b \in Blocks : heap[b] # <<>> <=> \E v \in Vecs : vec[v].data = b
    /\ \A v, w \in Vecs : v # w /\ vec[v].data = vec[w].data => vec[v].data = Inline

\* Whatever mixture of inline and heap storage the operations go through, the
\* vectors behave as sequences: growth keeps the elements, a move takes them
\* and leaves the source empty and usable, a throw changes nothing, and no
\* element is a cell nobody has written.
Promise == INSTANCE VectorSpec WITH elements <- [v \in Vecs |-> Elements(mem, v)]

RefinesVector == Promise!Spec

=============================================================================
