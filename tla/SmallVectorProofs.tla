-------------------------- MODULE SmallVectorProofs --------------------------
(***************************************************************************)
(* SmallVector implements VectorSpec, for every number of inline elements, *)
(* every heap and every set of vectors.                                    *)
(***************************************************************************)
EXTENDS SmallVector, SequenceTheorems, TLAPS

VecRec == [data : Blocks \cup {Inline}, size : Nat, capacity : Nat, inline : [1..N -> Cell]]
Memory == [vec : [Vecs -> VecRec], heap : [Blocks -> Seq(Cell)]]

\* The storage of each vector is as large as it says, and its elements are written.
Stored(m) == \A v \in Vecs :
    /\ m.vec[v].capacity = Len(Cells(m, v))
    /\ m.vec[v].size <= m.vec[v].capacity
    /\ m.vec[v].capacity > 0
    /\ \A i \in 1..m.vec[v].size : Cells(m, v)[i] \in Value

Owned(m) ==
    /\ \A b \in Blocks : m.heap[b] # <<>> <=> \E v \in Vecs : m.vec[v].data = b
    /\ \A v, w \in Vecs : v # w /\ m.vec[v].data = m.vec[w].data => m.vec[v].data = Inline

Good(m) == m \in Memory /\ Stored(m) /\ Owned(m)

\* The inductive invariant.
IInv ==
    /\ alive \subseteq Vecs
    /\ Good(mem)
    /\ \A v \in Vecs \ alive : vec[v] = Fresh

-----------------------------------------------------------------------------

LEMMA CellsTyped ==
    ASSUME NEW m \in Memory, NEW v \in Vecs
    PROVE  /\ Cells(m, v) \in Seq(Cell)
           /\ m.vec[v].data = Inline => Cells(m, v) = m.vec[v].inline /\ Len(Cells(m, v)) = N
           /\ m.vec[v].data # Inline => m.vec[v].data \in Blocks /\ Cells(m, v) = m.heap[m.vec[v].data]
  <1>1. m.vec[v] \in VecRec /\ m.heap \in [Blocks -> Seq(Cell)]
    BY DEF Memory
  <1>2. m.vec[v].inline \in Seq(Cell) /\ Len(m.vec[v].inline) = N
    BY <1>1, SmallVectorAssumption DEF VecRec
  <1>3. m.vec[v].data # Inline => m.vec[v].data \in Blocks
    BY <1>1 DEF VecRec
  <1> QED
    BY <1>1, <1>2, <1>3 DEF Cells

LEMMA ElementsTyped ==
    ASSUME NEW m, Good(m), NEW v \in Vecs
    PROVE  Elements(m, v) \in Seq(Value) /\ Len(Elements(m, v)) = m.vec[v].size /\ m.vec[v].size \in Nat
  <1>1. m.vec[v].size \in Nat
    BY DEF Good, Memory, VecRec
  <1>2. \A i \in 1..m.vec[v].size : Cells(m, v)[i] \in Value
    BY DEF Good, Stored
  <1> QED
    BY <1>1, <1>2 DEF Elements

\* What memcpy() into the storage of v, followed by the new size, leaves.
LEMMA WriteGood ==
    ASSUME NEW m, Good(m), NEW v \in Vecs, NEW s \in Seq(Value), Len(s) <= m.vec[v].capacity
    PROVE  LET w == Written(m, v, s)
           IN  /\ Good(w) /\ Elements(w, v) = s
               /\ \A u \in Vecs : u # v => w.vec[u] = m.vec[u] /\ Elements(w, u) = Elements(m, u)
  <1> DEFINE n == Len(s)
             w == Sized(Copied(m, v, s, n), v, n)
             Over(cells) == [i \in 1..Len(cells) |-> IF i <= n THEN s[i] ELSE cells[i]]
  <1>0. n \in Nat /\ m \in Memory /\ m.vec[v] \in VecRec /\ m.heap \in [Blocks -> Seq(Cell)]
    BY DEF Good, Memory
  <1>1. ASSUME NEW c \in Seq(Cell), n <= Len(c)
        PROVE  /\ Over(c) \in Seq(Cell) /\ Len(Over(c)) = Len(c)
               /\ \A i \in 1..n : Over(c)[i] = s[i] /\ s[i] \in Value
    <2>1. Len(c) \in Nat /\ \A i \in 1..Len(c) : c[i] \in Cell
      OBVIOUS
    <2>2. \A i \in 1..n : s[i] \in Value
      OBVIOUS
    <2>3. \A i \in 1..Len(c) : Over(c)[i] \in Cell
      BY <2>1, <2>2, <1>0 DEF Cell
    <2> QED
      BY <2>1, <2>2, <2>3, <1>0, <1>1
  <1>2. Cells(m, v) \in Seq(Cell) /\ n <= Len(Cells(m, v))
    BY <1>0, CellsTyped DEF Good, Stored
  <1>3. CASE m.vec[v].data = Inline
    <2>1. m.vec[v].inline = Cells(m, v) /\ Len(Cells(m, v)) = N
      BY <1>0, <1>3, CellsTyped
    <2>2. Over(m.vec[v].inline) \in [1..N -> Cell]
      BY <2>1, <1>1, <1>2
    <2>3. w = [m EXCEPT !.vec = [m.vec EXCEPT ![v] = [m.vec[v] EXCEPT !.inline = Over(m.vec[v].inline), !.size = n]]]
      BY ZenonT(30), <1>0, <1>3 DEF Sized, Copied, Memory, VecRec
    <2> HIDE DEF w, Over, n
    <2>4. w \in Memory
      BY Zenon, <2>2, <2>3, <1>0 DEF Memory, VecRec
    <2>5. /\ w.heap = m.heap
          /\ w.vec[v].inline = Over(m.vec[v].inline) /\ w.vec[v].size = n
          /\ w.vec[v].data = Inline /\ w.vec[v].capacity = m.vec[v].capacity
          /\ \A u \in Vecs : u # v => w.vec[u] = m.vec[u]
      BY <2>3, <1>0, <1>3 DEF Memory, VecRec
    <2>6. Cells(w, v) = Over(Cells(m, v)) /\ \A u \in Vecs : u # v => Cells(w, u) = Cells(m, u)
      BY <2>5, <2>1 DEF Cells
    <2>a. Len(Cells(w, v)) = Len(Cells(m, v)) /\ \A i \in 1..n : Cells(w, v)[i] = s[i] /\ s[i] \in Value
      BY <1>1, <1>2, <2>6
    <2>b. ASSUME NEW u \in Vecs, u # v
          PROVE  w.vec[u] = m.vec[u] /\ Cells(w, u) = Cells(m, u)
      BY <2>b, <2>5, <2>6
    <2>7. Stored(w)
      BY SMTT(30), <1>2, <2>5, <2>a, <2>b DEF Good, Stored
    <2>8. Owned(w)
      BY <2>5, <1>3 DEF Good, Owned
    <2>9. Elements(w, v) = s
      BY SMTT(30), <2>5, <2>a, <1>0 DEF Elements, n
    <2> QED
      BY <2>4, <2>5, <2>6, <2>7, <2>8, <2>9 DEF Good, Elements, Written, w, n
  <1>4. CASE m.vec[v].data # Inline
    <2> DEFINE b == m.vec[v].data
    <2>1. b \in Blocks /\ m.heap[b] = Cells(m, v)
      BY <1>0, <1>4, CellsTyped
    <2>2. Over(m.heap[b]) \in Seq(Cell)
      BY <2>1, <1>1, <1>2
    <2>3. w = [m EXCEPT !.heap = [m.heap EXCEPT ![b] = Over(m.heap[b])],
                        !.vec = [m.vec EXCEPT ![v] = [m.vec[v] EXCEPT !.size = n]]]
      BY <1>0, <1>4 DEF Sized, Copied, Memory, VecRec
    <2> HIDE DEF w, Over, n
    <2>4. w \in Memory
      BY Zenon, <2>1, <2>2, <2>3, <1>0 DEF Memory, VecRec
    <2>5. /\ w.heap = [m.heap EXCEPT ![b] = Over(m.heap[b])]
          /\ w.vec[v].size = n
          /\ w.vec[v].data = b /\ w.vec[v].capacity = m.vec[v].capacity
          /\ \A u \in Vecs : u # v => w.vec[u] = m.vec[u]
      BY <2>3, <1>0, <1>4 DEF Memory, VecRec
    <2>6. Cells(w, v) = Over(Cells(m, v))
      BY <2>1, <2>5, <1>0, <1>4 DEF Cells
    <2>7. ASSUME NEW u \in Vecs, u # v PROVE Cells(w, u) = Cells(m, u)
      <3>1. m.vec[u].data # b
        BY <2>7, <1>4 DEF Good, Owned
      <3> QED
        BY <3>1, <2>5, <2>7, <1>0 DEF Cells
    <2>a. Len(Cells(w, v)) = Len(Cells(m, v)) /\ \A i \in 1..n : Cells(w, v)[i] = s[i] /\ s[i] \in Value
      BY <1>1, <1>2, <2>6
    <2>8. Stored(w)
      BY SMTT(30), <1>2, <2>5, <2>7, <2>a DEF Good, Stored
    <2>9. Over(m.heap[b]) # <<>>
      BY <2>1, <1>1, <1>2, <1>0 DEF Good, Stored
    <2>10. \A x \in Blocks : w.heap[x] # <<>> <=> m.heap[x] # <<>>
      BY <2>1, <2>5, <2>9, <1>0, <1>2 DEF Good, Stored
    <2>11. \A u \in Vecs : w.vec[u].data = m.vec[u].data
      BY <2>5
    <2>12. Owned(w)
      BY <2>10, <2>11 DEF Good, Owned
    <2>13. Elements(w, v) = s
      BY <1>1, <1>2, <2>5, <2>6, <1>0 DEF Elements, n
    <2> QED
      BY <2>4, <2>5, <2>7, <2>8, <2>12, <2>13 DEF Good, Elements, Written, w, n
  <1> QED
    BY <1>3, <1>4

LEMMA ShrinkGood ==
    ASSUME NEW m, Good(m), NEW v \in Vecs, NEW n \in 0..m.vec[v].size
    PROVE  /\ Good(Sized(m, v, n)) /\ Elements(Sized(m, v, n), v) = [i \in 1..n |-> Elements(m, v)[i]]
           /\ \A u \in Vecs : u # v => /\ Sized(m, v, n).vec[u] = m.vec[u]
                                       /\ Elements(Sized(m, v, n), u) = Elements(m, u)
  <1> DEFINE w == Sized(m, v, n)
  <1>0. m \in Memory /\ m.vec[v] \in VecRec /\ m.vec[v].size \in Nat
    BY DEF Good, Memory, VecRec
  <1>n. n \in Nat
    BY <1>0
  <1>1. w = [m EXCEPT !.vec = [m.vec EXCEPT ![v] = [m.vec[v] EXCEPT !.size = n]]]
    BY <1>0 DEF Sized, Memory, VecRec
  <1> HIDE DEF w
  <1>2. w \in Memory
    BY Zenon, <1>0, <1>n, <1>1 DEF Memory, VecRec
  <1>3. /\ w.heap = m.heap /\ w.vec[v].size = n
        /\ w.vec[v].data = m.vec[v].data /\ w.vec[v].inline = m.vec[v].inline
        /\ w.vec[v].capacity = m.vec[v].capacity
        /\ \A u \in Vecs : u # v => w.vec[u] = m.vec[u]
    BY <1>0, <1>1 DEF Memory, VecRec
  <1>4. \A u \in Vecs : Cells(w, u) = Cells(m, u) /\ w.vec[u].data = m.vec[u].data
    BY <1>3 DEF Cells
  <1>5. \A i \in 1..n : i \in 1..m.vec[v].size
    BY <1>0
  <1>6. Stored(w)
    BY <1>0, <1>3, <1>4, <1>5 DEF Good, Stored
  <1>7. Owned(w)
    BY <1>3, <1>4 DEF Good, Owned
  <1>8. Elements(w, v) = [i \in 1..n |-> Elements(m, v)[i]]
    BY <1>3, <1>4, <1>5 DEF Elements
  <1> QED
    BY <1>2, <1>3, <1>4, <1>6, <1>7, <1>8 DEF Good, Elements, w

\* Giving up the storage of v: a block is freed, and only v has pointed to it.
LEMMA ReleaseGood ==
    ASSUME NEW m, Good(m), NEW v \in Vecs, NEW f \in VecRec,
           f.data = Inline, f.capacity = N, f.size = 0
    PROVE  LET r == [Released(m, v) EXCEPT !.vec[v] = f]
           IN  /\ Good(r) /\ r.vec[v] = f /\ Elements(r, v) = <<>>
               /\ \A u \in Vecs : u # v => r.vec[u] = m.vec[u] /\ Elements(r, u) = Elements(m, u)
  <1> DEFINE r == [Released(m, v) EXCEPT !.vec[v] = f]
             b == m.vec[v].data
  <1>0. m \in Memory /\ m.vec[v] \in VecRec /\ m.heap \in [Blocks -> Seq(Cell)] /\ <<>> \in Seq(Cell)
    BY DEF Good, Memory
  <1>1. r.vec = [m.vec EXCEPT ![v] = f] /\ r \in Memory
    <2>1. CASE b = Inline
      BY Zenon, <2>1, <1>0 DEF Released, Memory
    <2>2. CASE b # Inline
      BY Zenon, <2>2, <1>0 DEF Released, Memory
    <2> QED
      BY <2>1, <2>2
  <1>2. \A x \in Blocks : r.heap[x] = IF x = b THEN <<>> ELSE m.heap[x]
    <2>1. CASE b = Inline
      BY <2>1, <1>0, SmallVectorAssumption DEF Released, Memory, Inline
    <2>2. CASE b # Inline
      BY <2>2, <1>0 DEF Released, Memory
    <2> QED
      BY <2>1, <2>2
  <1> HIDE DEF r
  <1>3. r.vec[v] = f /\ \A u \in Vecs : u # v => r.vec[u] = m.vec[u]
    BY <1>0, <1>1 DEF Memory
  <1>4. ASSUME NEW u \in Vecs, u # v PROVE Cells(r, u) = Cells(m, u)
    <2>1. m.vec[u].data = Inline \/ (m.vec[u].data \in Blocks /\ m.vec[u].data # b)
      BY <1>0, <1>4, CellsTyped DEF Good, Owned
    <2> QED
      BY <2>1, <1>2, <1>3, <1>4 DEF Cells
  <1>5. Len(Cells(r, v)) = N
    BY Zenon, <1>1, <1>3, CellsTyped
  <1>6. Stored(r)
    BY <1>3, <1>4, <1>5, SmallVectorAssumption DEF Good, Stored
  <1>7. Owned(r)
    <2>1. ASSUME NEW x \in Blocks PROVE r.heap[x] # <<>> <=> \E u \in Vecs : r.vec[u].data = x
      <3>1. \A u \in Vecs : r.vec[u].data = x <=> u # v /\ m.vec[u].data = x
        BY <1>3, SmallVectorAssumption DEF Inline
      <3>2. CASE x = b
        <4>1. \A u \in Vecs : u # v => m.vec[u].data # x
          BY <3>2, SmallVectorAssumption DEF Good, Owned, Inline
        <4> QED
          BY <4>1, <3>1, <3>2, <1>2
      <3>3. CASE x # b
        BY <3>1, <3>3, <1>2 DEF Good, Owned
      <3> QED
        BY <3>2, <3>3
    <2>2. \A u, w \in Vecs : u # w /\ r.vec[u].data = r.vec[w].data => r.vec[u].data = Inline
      BY <1>3 DEF Good, Owned
    <2> QED
      BY <2>1, <2>2 DEF Owned
  <1>8. Elements(r, v) = <<>>
    BY <1>3 DEF Elements
  <1> QED
    BY <1>1, <1>3, <1>4, <1>6, <1>7, <1>8 DEF Good, Elements, r

\* reserve(): more room, the same elements, no other vector touched.
LEMMA ReserveGood ==
    ASSUME NEW m, Good(m), NEW v \in Vecs, NEW wanted \in Nat, NEW r \in Reserve(m, v, wanted)
    PROVE  /\ Good(r) /\ r.vec[v].size = m.vec[v].size /\ wanted <= r.vec[v].capacity
           /\ Elements(r, v) = Elements(m, v)
           /\ \A u \in Vecs : u # v => r.vec[u] = m.vec[u] /\ Elements(r, u) = Elements(m, u)
  <1>0. /\ m \in Memory /\ m.vec[v] \in VecRec /\ m.heap \in [Blocks -> Seq(Cell)]
        /\ m.vec[v].size \in Nat /\ m.vec[v].capacity \in Nat
    BY DEF Good, Memory, VecRec
  <1>1. CASE wanted <= m.vec[v].capacity
    BY <1>1 DEF Reserve
  <1>2. CASE ~(wanted <= m.vec[v].capacity)
    <2> DEFINE n == m.vec[v].size
               old == m.vec[v].data
               cells(c) == [i \in 1..c |-> IF i <= n THEN Cells(m, v)[i] ELSE Junk]
    <2>1. PICK b \in {x \in Blocks : m.heap[x] = <<>>}, c \in Capacities(m.vec[v].capacity, wanted) :
            r = [Released(m, v) EXCEPT !.heap[b] = cells(c), !.vec[v].data = b, !.vec[v].capacity = c]
      <3>1. PICK b \in {x \in Blocks : m.heap[x] = <<>>}, c \in Capacities(m.vec[v].capacity, wanted) :
              r = Grown(m, v, b, c)
        BY <1>2 DEF Reserve
      <3> QED
        BY Zenon, <3>1 DEF Grown
    <2>2. c \in Nat /\ wanted <= c /\ n <= c /\ c > 0
      BY SMTT(30), <1>0, <1>2 DEF Capacities, Good, Stored
    <2>3. b # old /\ b \in Blocks /\ b # Inline
      BY <2>1, SmallVectorAssumption DEF Good, Owned, Inline
    <2>4. \A i \in 1..n : Cells(m, v)[i] \in Value
      BY DEF Good, Stored
    <2>5. cells(c) \in Seq(Cell) /\ Len(cells(c)) = c
      BY <2>2, <2>4, <1>0 DEF Cell
    <2>6. \A i \in 1..n : cells(c)[i] = Cells(m, v)[i]
      BY <2>2, <1>0
    <2> HIDE DEF cells
    <2>7. r.vec = [m.vec EXCEPT ![v] = [m.vec[v] EXCEPT !.data = b, !.capacity = c]] /\ r \in Memory
      <3>1. CASE old = Inline
        BY ZenonT(30), <3>1, <2>1, <2>2, <2>3, <2>5, <1>0 DEF Released, Memory, VecRec
      <3>2. CASE old # Inline
        BY ZenonT(30), <3>2, <2>1, <2>2, <2>3, <2>5, <1>0 DEF Released, Memory, VecRec
      <3> QED
        BY <3>1, <3>2
    <2>8. \A x \in Blocks : r.heap[x] = IF x = b THEN cells(c) ELSE IF x = old THEN <<>> ELSE m.heap[x]
      <3>1. CASE old = Inline
        BY <3>1, <2>1, <1>0, SmallVectorAssumption DEF Released, Memory, Inline
      <3>2. CASE old # Inline
        BY <3>2, <2>1, <1>0 DEF Released, Memory
      <3> QED
        BY <3>1, <3>2
    <2>9. /\ r.vec[v].data = b /\ r.vec[v].capacity = c /\ r.vec[v].size = n
          /\ \A u \in Vecs : u # v => r.vec[u] = m.vec[u]
      BY <2>7, <1>0 DEF Memory, VecRec
    <2>10. Cells(r, v) = cells(c)
      BY SMTT(30), <2>3, <2>8, <2>9 DEF Cells
    <2>11. ASSUME NEW u \in Vecs, u # v
           PROVE  m.vec[u].data # b /\ Cells(r, u) = Cells(m, u)
      <3>1. m.vec[u].data # b
        BY <2>1 DEF Good, Owned
      <3>2. m.vec[u].data = Inline \/ (m.vec[u].data \in Blocks /\ m.vec[u].data # old)
        BY <1>0, <2>11, CellsTyped DEF Good, Owned
      <3> QED
        BY <3>1, <3>2, <2>8, <2>9, <2>11 DEF Cells
    <2>12. Stored(r)
      BY SMTT(30), <2>2, <2>4, <2>5, <2>6, <2>9, <2>10, <2>11 DEF Good, Stored
    <2>13. Owned(r)
      <3>1. ASSUME NEW x \in Blocks PROVE r.heap[x] # <<>> <=> \E u \in Vecs : r.vec[u].data = x
        <4>1. CASE x = b
          BY <4>1, <2>2, <2>5, <2>8, <2>9
        <4>2. CASE x # b /\ x = old
          <5>1. \A u \in Vecs : u # v => m.vec[u].data # x
            BY <4>2, SmallVectorAssumption DEF Good, Owned, Inline
          <5> QED
            BY <5>1, <4>2, <2>8, <2>9
        <4>3. CASE x # b /\ x # old
          <5>1. \A u \in Vecs : r.vec[u].data = x <=> m.vec[u].data = x
            BY <4>3, <2>9
          <5> QED
            BY <5>1, <4>3, <2>8 DEF Good, Owned
        <4> QED
          BY <4>1, <4>2, <4>3
      <3>2. \A u, w \in Vecs : u # w /\ r.vec[u].data = r.vec[w].data => r.vec[u].data = Inline
        BY <2>9, <2>11 DEF Good, Owned
      <3> QED
        BY <3>1, <3>2 DEF Owned
    <2>14. Elements(r, v) = Elements(m, v)
      BY <2>6, <2>9, <2>10 DEF Elements
    <2> QED
      BY SMTT(30), <2>2, <2>7, <2>9, <2>11, <2>12, <2>13, <2>14 DEF Good, Elements
  <1> QED
    BY <1>1, <1>2

\* steal() into a vector that has given up its storage.
LEMMA StolenGood ==
    ASSUME NEW m, Good(m), NEW v \in Vecs, NEW w \in Vecs, v # w,
           m.vec[v].data = Inline, m.vec[v].capacity = N
    PROVE  LET r == Stolen(m, v, w)
           IN  /\ Good(r) /\ Elements(r, v) = Elements(m, w) /\ Elements(r, w) = <<>>
               /\ \A u \in Vecs : u # v /\ u # w => r.vec[u] = m.vec[u] /\ Elements(r, u) = Elements(m, u)
  <1> DEFINE r == Stolen(m, v, w)
             n == m.vec[w].size
             s == Elements(m, w)
  <1>0. m \in Memory /\ m.vec[v] \in VecRec /\ m.vec[w] \in VecRec /\ m.heap \in [Blocks -> Seq(Cell)]
    BY DEF Good, Memory
  <1>1. s \in Seq(Value) /\ Len(s) = n /\ n \in Nat
    BY ElementsTyped
  <1>2. CASE m.vec[w].data = Inline
    <2> DEFINE x == Sized(Copied(m, v, s, n), v, n)
    <2>1. Cells(m, w) = m.vec[w].inline /\ m.vec[w].capacity = N /\ n <= N
      BY <1>0, <1>2, CellsTyped DEF Good, Stored
    <2>2. \A i \in 1..n : s[i] = m.vec[w].inline[i]
      BY <2>1 DEF Elements
    <2>3. Copied(m, v, m.vec[w].inline, n) = Copied(m, v, s, n)
      <3>1. m.vec[v].inline \in Seq(Cell) /\ Len(m.vec[v].inline) \in Nat
        BY <1>0, CellsTyped DEF Cells
      <3>2. [i \in 1..Len(m.vec[v].inline) |-> IF i <= n THEN m.vec[w].inline[i] ELSE m.vec[v].inline[i]]
              = [i \in 1..Len(m.vec[v].inline) |-> IF i <= n THEN s[i] ELSE m.vec[v].inline[i]]
        BY <2>2, <3>1, <1>1
      <3> QED
        BY SMTT(30), <3>2 DEF Copied
    <2>4. /\ Good(x) /\ Elements(x, v) = s
          /\ \A u \in Vecs : u # v => x.vec[u] = m.vec[u] /\ Elements(x, u) = Elements(m, u)
      BY <1>1, <2>1, WriteGood DEF Written
    <2>5. r = Sized(x, w, 0)
      <3>1. r = [Sized(Copied(m, v, m.vec[w].inline, n), v, n) EXCEPT !.vec[w].size = 0]
        BY SMTT(30), <1>2 DEF Stolen
      <3>2. r = [x EXCEPT !.vec[w].size = 0]
        BY <2>3, <3>1
      <3> QED
        BY <3>2 DEF Sized
    <2> HIDE DEF x
    <2>6. 0 \in 0..x.vec[w].size
      BY <2>4, <1>1
    <2>7. /\ Good(Sized(x, w, 0)) /\ Elements(Sized(x, w, 0), w) = [i \in 1..0 |-> Elements(x, w)[i]]
          /\ \A u \in Vecs : u # w => /\ Sized(x, w, 0).vec[u] = x.vec[u]
                                      /\ Elements(Sized(x, w, 0), u) = Elements(x, u)
      BY <2>4, <2>6, ShrinkGood
    <2>8. [i \in 1..0 |-> Elements(x, w)[i]] = <<>>
      OBVIOUS
    <2> QED
      BY <2>4, <2>5, <2>7, <2>8
  <1>3. CASE m.vec[w].data # Inline
    <2> DEFINE b == m.vec[w].data
               vv == [m.vec[v] EXCEPT !.data = b, !.capacity = m.vec[w].capacity, !.size = n]
               ww == [m.vec[w] EXCEPT !.data = Inline, !.capacity = N, !.size = 0]
    <2>1. b \in Blocks /\ Cells(m, w) = m.heap[b] /\ vv \in VecRec /\ ww \in VecRec
      BY ZenonT(30), <1>0, <1>1, <1>3, CellsTyped, SmallVectorAssumption DEF VecRec
    <2>2. r = [m EXCEPT !.vec = [[m.vec EXCEPT ![v] = vv] EXCEPT ![w] = ww]]
      <3>1. r = [m EXCEPT !.vec[v] = vv, !.vec[w] = ww]
        BY <1>3 DEF Stolen
      <3> HIDE DEF vv, ww, r
      <3> QED
        BY Zenon, <1>0, <3>1 DEF Memory
    <2>3. r \in Memory /\ r.heap = m.heap
      <3> HIDE DEF vv, ww, r
      <3> QED
        BY Zenon, <1>0, <2>1, <2>2 DEF Memory
    <2>4. r.vec[v] = vv /\ r.vec[w] = ww /\ \A u \in Vecs : u # v /\ u # w => r.vec[u] = m.vec[u]
      BY ZenonT(30), <1>0, <2>2 DEF Memory
    <2>5. /\ vv.data = b /\ vv.capacity = m.vec[w].capacity /\ vv.size = n
          /\ ww.data = Inline /\ ww.capacity = N /\ ww.size = 0
      BY <1>0 DEF VecRec
    <2> HIDE DEF r, vv, ww
    <2>6. Cells(r, v) = Cells(m, w)
      BY <1>3, <2>1, <2>3, <2>4, <2>5 DEF Cells
    <2>7. Len(Cells(r, w)) = N
      BY <2>3, <2>4, <2>5, CellsTyped
    <2>8. \A u \in Vecs : u # v /\ u # w => Cells(r, u) = Cells(m, u)
      BY <2>3, <2>4 DEF Cells
    <2>9. Stored(r)
      BY SMTT(30), <2>4, <2>5, <2>6, <2>7, <2>8, SmallVectorAssumption DEF Good, Stored
    <2>10. Owned(r)
      <3>1. ASSUME NEW x \in Blocks PROVE r.heap[x] # <<>> <=> \E u \in Vecs : r.vec[u].data = x
        <4>1. x # Inline
          BY SmallVectorAssumption DEF Inline
        <4>2. (\E u \in Vecs : r.vec[u].data = x) <=> (\E u \in Vecs : m.vec[u].data = x)
          BY <4>1, <2>4, <2>5
        <4> QED
          BY <4>2, <2>3 DEF Good, Owned
      <3>2. ASSUME NEW p \in Vecs, NEW q \in Vecs, p # q, r.vec[p].data = r.vec[q].data
            PROVE  r.vec[p].data = Inline
        BY <3>2, <2>4, <2>5 DEF Good, Owned
      <3> QED
        BY <3>1, <3>2 DEF Owned
    <2>11. Elements(r, v) = Elements(m, w) /\ Elements(r, w) = <<>>
      BY <2>4, <2>5, <2>6 DEF Elements
    <2> QED
      BY <2>3, <2>4, <2>8, <2>9, <2>10, <2>11 DEF Good, Elements, r
  <1> QED
    BY <1>2, <1>3

-----------------------------------------------------------------------------

\* The sequences the vectors hold, as the abstract specification sees them.
held == [v \in Vecs |-> Elements(mem, v)]

\* A step to a memory that differs in what v holds.
LEMMA StepTo ==
    ASSUME IInv, NEW v \in Vecs, NEW r, Good(r), Becomes(r), NEW s, Elements(r, v) = s,
           \A u \in Vecs : u # v => r.vec[u] = vec[u] /\ Elements(r, u) = Elements(mem, u),
           alive' \subseteq Vecs, alive' \cup {v} = alive \cup {v}, v \in alive' \/ vec'[v] = Fresh
    PROVE  IInv' /\ held' = [held EXCEPT ![v] = s]
  <1>1. mem' = r
    BY DEF Becomes, mem, Good, Memory
  <1>2. Good(mem')
    BY <1>1
  <1>3. \A u \in Vecs \ alive' : vec'[u] = Fresh
    BY DEF IInv, Becomes
  <1>4. held' = [u \in Vecs |-> Elements(r, u)]
    BY <1>1 DEF held
  <1> QED
    BY Zenon, <1>2, <1>3, <1>4 DEF IInv, held

-----------------------------------------------------------------------------
\* The actions, one by one: the invariant is kept and the step is the abstract one.

LEMMA AssignedGood ==
    ASSUME NEW m, Good(m), NEW v \in Vecs, NEW s \in Seq(Value), NEW r \in Assigned(m, v, s)
    PROVE  /\ Good(r) /\ Elements(r, v) = s
           /\ \A u \in Vecs : u # v => r.vec[u] = m.vec[u] /\ Elements(r, u) = Elements(m, u)
  <1>1. PICK x \in Reserve(m, v, Len(s)) : r = Written(x, v, s)
    BY DEF Assigned
  <1>2. /\ Good(x) /\ Len(s) <= x.vec[v].capacity
        /\ \A u \in Vecs : u # v => x.vec[u] = m.vec[u] /\ Elements(x, u) = Elements(m, u)
    BY ReserveGood
  <1> QED
    BY <1>1, <1>2, WriteGood

LEMMA DeadIsFresh ==
    ASSUME IInv, NEW v \in Vecs \ alive
    PROVE  WithFresh(v) = mem /\ vec[v].data = Inline /\ vec[v].capacity = N
  <1>1. vec[v] = Fresh /\ vec \in [Vecs -> VecRec]
    BY DEF IInv, Good, Memory, mem
  <1>2. [vec EXCEPT ![v] = Fresh] = vec
    BY <1>1
  <1>3. WithFresh(v) = mem
    BY <1>2 DEF WithFresh, mem
  <1> QED
    BY <1>1, <1>3 DEF Fresh

LEMMA ConstructStep ==
    ASSUME IInv, NEW v \in Vecs, NEW s \in Lists, Construct(v, s)
    PROVE  IInv' /\ Promise!Construct(v, s)
  <1>1. s \in Seq(Value)
    BY DEF Lists
  <1>2. PICK r \in Assigned(mem, v, s) : Becomes(r)
    BY DeadIsFresh DEF Construct
  <1>3. Good(mem) /\ mem.vec = vec
    BY DEF IInv, mem
  <1>4. IInv' /\ held' = [held EXCEPT ![v] = s]
    BY <1>1, <1>2, <1>3, AssignedGood, StepTo DEF Construct, IInv
  <1> QED
    BY <1>4 DEF Construct, Promise!Construct, Promise!Holds, held

LEMMA CopyStep ==
    ASSUME IInv, NEW v \in Vecs, NEW w \in Vecs, CopyConstruct(v, w) \/ CopyAssign(v, w)
    PROVE  IInv' /\ Promise!Assign(v, w)
  <1>1. Good(mem) /\ mem.vec = vec /\ Elements(mem, w) \in Seq(Value)
    BY ElementsTyped DEF IInv, mem
  <1>2. w \in alive /\ v # w /\ alive' = alive \cup {v}
    BY DEF CopyConstruct, CopyAssign
  <1>3. PICK r \in Assigned(mem, v, Elements(mem, w)) : Becomes(r)
    BY SMTT(30), DeadIsFresh DEF CopyConstruct, CopyAssign
  <1>4. IInv' /\ held' = [held EXCEPT ![v] = Elements(mem, w)]
    BY SMTT(30), <1>1, <1>2, <1>3, AssignedGood, StepTo DEF IInv
  <1> QED
    BY <1>2, <1>4 DEF Promise!Assign, Promise!Holds, held

\* A vector that has given up its storage takes that of w.
LEMMA StealStep ==
    ASSUME IInv, NEW v \in Vecs, NEW w \in Vecs, v # w, w \in alive, alive' = alive \cup {v},
           NEW m, Good(m), m.vec[v].data = Inline, m.vec[v].capacity = N,
           \A u \in Vecs : u # v => m.vec[u] = vec[u] /\ Elements(m, u) = Elements(mem, u),
           Becomes(Stolen(m, v, w))
    PROVE  IInv' /\ Promise!Move(v, w)
  <1> DEFINE r == Stolen(m, v, w)
  <1>1. /\ Good(r) /\ Elements(r, v) = Elements(mem, w) /\ Elements(r, w) = <<>>
        /\ \A u \in Vecs : u # v /\ u # w => r.vec[u] = vec[u] /\ Elements(r, u) = Elements(mem, u)
    BY StolenGood
  <1>2. mem' = r
    BY <1>1 DEF Becomes, mem, Good, Memory
  <1> HIDE DEF r
  <1>3. \A u \in Vecs \ alive' : vec'[u] = Fresh
    <2>1. \A u \in Vecs : vec'[u] = r.vec[u]
      BY <1>2 DEF mem
    <2> QED
      BY <2>1, <1>1 DEF IInv
  <1>4. IInv'
    BY <1>1, <1>2, <1>3 DEF IInv
  <1>5. held' = [u \in Vecs |-> Elements(r, u)]
    BY <1>2 DEF held
  <1>6. held' = [[held EXCEPT ![v] = held[w]] EXCEPT ![w] = <<>>]
    BY ZenonT(30), <1>1, <1>5 DEF held
  <1> QED
    BY <1>4, <1>6 DEF Promise!Move, held

LEMMA SameRecord ==
    ASSUME NEW p \in VecRec, NEW q \in VecRec,
           p.data = q.data, p.size = q.size, p.capacity = q.capacity, p.inline = q.inline
    PROVE  p = q
  BY DEF VecRec

\* steal() overwrites the size of the vector it fills.
LEMMA SizeIgnored ==
    ASSUME NEW vs \in [Vecs -> VecRec], NEW h, NEW v \in Vecs, NEW w \in Vecs, v # w,
           NEW f \in VecRec, f.data = Inline, NEW k \in Nat
    PROVE  Stolen([vec |-> [vs EXCEPT ![v] = f], heap |-> h], v, w)
             = Stolen([vec |-> [vs EXCEPT ![v] = [f EXCEPT !.size = k]], heap |-> h], v, w)
  <1> DEFINE from == vs[w]
             Over == [i \in 1..Len(f.inline) |-> IF i <= from.size THEN from.inline[i] ELSE f.inline[i]]
             copied == [data |-> f.data, size |-> from.size, capacity |-> f.capacity, inline |-> Over]
             taken == [data |-> from.data, size |-> from.size, capacity |-> from.capacity, inline |-> f.inline]
             given == [from EXCEPT !.data = Inline, !.capacity = N, !.size = 0]
             result == IF from.data = Inline
                       THEN [vec |-> [[vs EXCEPT ![v] = copied] EXCEPT ![w] = [from EXCEPT !.size = 0]], heap |-> h]
                       ELSE [vec |-> [[vs EXCEPT ![v] = taken] EXCEPT ![w] = given], heap |-> h]
  <1>0. from \in VecRec /\ f.inline \in [1..N -> Cell]
    BY DEF VecRec
  <1>1. ASSUME NEW g \in VecRec, g.data = Inline, g.capacity = f.capacity, g.inline = f.inline
        PROVE  Stolen([vec |-> [vs EXCEPT ![v] = g], heap |-> h], v, w) = result
    <2> DEFINE m == [vec |-> [vs EXCEPT ![v] = g], heap |-> h]
    <2>0. m.vec[w] = from /\ m.vec[v] = g /\ m.heap = h /\ m.vec = [vs EXCEPT ![v] = g]
      OBVIOUS
    <2>1. CASE from.data = Inline
      <3>1. Copied(m, v, from.inline, from.size)
              = [vec |-> [vs EXCEPT ![v] = [g EXCEPT !.inline = Over]], heap |-> h]
        <4>1. Copied(m, v, from.inline, from.size) = [m EXCEPT !.vec[v].inline = Over]
          BY Zenon, <1>1, <2>0 DEF Copied
        <4> HIDE DEF Over
        <4> QED
          BY <4>1
      <3>2. [[g EXCEPT !.inline = Over] EXCEPT !.size = from.size] = copied
        <4> DEFINE p == [[g EXCEPT !.inline = Over] EXCEPT !.size = from.size]
        <4>1. Over \in [1..N -> Cell]
          BY <1>0, SmallVectorAssumption DEF VecRec
        <4> HIDE DEF Over, from
        <4>2. copied \in VecRec /\ p \in VecRec
          BY Zenon, <1>0, <1>1, <4>1 DEF VecRec
        <4>3. p.data = copied.data /\ p.size = copied.size /\ p.capacity = copied.capacity /\ p.inline = copied.inline
          BY <1>1 DEF VecRec
        <4> QED
          BY Zenon, <4>2, <4>3, SameRecord
      <3> HIDE DEF Over, copied, from
      <3>3. Sized(Copied(m, v, from.inline, from.size), v, from.size)
              = [vec |-> [vs EXCEPT ![v] = copied], heap |-> h]
        <4> DEFINE x == [g EXCEPT !.inline = Over]
                   vx == [vs EXCEPT ![v] = x]
        <4>1. vx[v] = x
          OBVIOUS
        <4>2. [vx EXCEPT ![v] = copied] = [vs EXCEPT ![v] = copied]
          <5> HIDE DEF x
          <5> QED
            BY ZenonT(30)
        <4>3. Copied(m, v, from.inline, from.size) = [vec |-> vx, heap |-> h]
          BY <3>1
        <4>4. [x EXCEPT !.size = from.size] = copied
          BY <3>2
        <4>5. Sized([vec |-> vx, heap |-> h], v, from.size) = [vec |-> [vx EXCEPT ![v] = copied], heap |-> h]
          <5> HIDE DEF x, vx
          <5> QED
            BY <4>1, <4>4 DEF Sized
        <4> QED
          BY <4>2, <4>3, <4>5
      <3>4. Stolen(m, v, w) = [Sized(Copied(m, v, from.inline, from.size), v, from.size) EXCEPT !.vec[w].size = 0]
        BY <2>0, <2>1 DEF Stolen
      <3>5. [vs EXCEPT ![v] = copied][w] = from
        BY DEF from
      <3> HIDE DEF m
      <3>6. Stolen(m, v, w) = [vec |-> [[vs EXCEPT ![v] = copied] EXCEPT ![w] = [from EXCEPT !.size = 0]], heap |-> h]
        BY <3>3, <3>4, <3>5
      <3> QED
        BY <3>6, <2>1 DEF m
    <2>2. CASE from.data # Inline
      <3>1. [g EXCEPT !.data = from.data, !.capacity = from.capacity, !.size = from.size] = taken
        <4> DEFINE p == [g EXCEPT !.data = from.data, !.capacity = from.capacity, !.size = from.size]
        <4> HIDE DEF from
        <4>2. taken \in VecRec /\ p \in VecRec
          BY ZenonT(30), <1>0, <1>1 DEF VecRec
        <4>3. p.data = taken.data /\ p.size = taken.size /\ p.capacity = taken.capacity /\ p.inline = taken.inline
          BY <1>1 DEF VecRec
        <4> QED
          BY Zenon, <4>2, <4>3, SameRecord
      <3>2. Stolen(m, v, w)
              = [m EXCEPT !.vec[v] = [@ EXCEPT !.data = from.data, !.capacity = from.capacity, !.size = from.size],
                          !.vec[w] = given]
        BY Zenon, <2>0, <2>2 DEF Stolen
      <3>3. Stolen(m, v, w) = [m EXCEPT !.vec[v] = taken, !.vec[w] = given]
        <4> DEFINE t == [m.vec[v] EXCEPT !.data = from.data, !.capacity = from.capacity, !.size = from.size]
        <4>1. Stolen(m, v, w) = [m EXCEPT !.vec[v] = t, !.vec[w] = given]
          BY <3>2
        <4>2. t = taken
          BY <2>0, <3>1
        <4> HIDE DEF t, given, m
        <4> QED
          BY <4>1, <4>2
      <3> HIDE DEF taken, given, from
      <3>4. Stolen(m, v, w) = [vec |-> [[vs EXCEPT ![v] = taken] EXCEPT ![w] = given], heap |-> h]
        <4>1. [[vs EXCEPT ![v] = g] EXCEPT ![v] = taken] = [vs EXCEPT ![v] = taken]
          BY Zenon
        <4> QED
          BY Zenon, <4>1, <3>3
      <3> QED
        BY <3>4, <2>2
    <2> QED
      BY <2>1, <2>2
  <1> HIDE DEF result
  <1>2. LET g == [f EXCEPT !.size = k]
        IN  g \in VecRec /\ g.data = Inline /\ g.capacity = f.capacity /\ g.inline = f.inline
    BY SMTT(30) DEF VecRec
  <1> QED
    BY Zenon, <1>1, <1>2

LEMMA MoveStep ==
    ASSUME IInv, NEW v \in Vecs, NEW w \in Vecs, MoveConstruct(v, w) \/ MoveAssign(v, w)
    PROVE  IInv' /\ Promise!Move(v, w)
  <1>0. Good(mem) /\ mem.vec = vec
    BY DEF IInv, mem
  <1>1. CASE MoveConstruct(v, w)
    <2>1. mem.vec[v].data = Inline /\ mem.vec[v].capacity = N /\ Becomes(Stolen(mem, v, w))
      BY SMTT(30), <1>0, <1>1, DeadIsFresh DEF MoveConstruct
    <2> QED
      BY <1>0, <1>1, <2>1, StealStep DEF MoveConstruct
  <1>2. CASE MoveAssign(v, w)
    <2> DEFINE f == [vec[v] EXCEPT !.data = Inline, !.capacity = N]
               f0 == [f EXCEPT !.size = 0]
               h == Released(mem, v).heap
               m == [Released(mem, v) EXCEPT !.vec[v] = f0]
               inlined == [Released(mem, v) EXCEPT !.vec[v] = [@ EXCEPT !.data = Inline, !.capacity = N]]
    <2>1. vec[v] \in VecRec /\ vec \in [Vecs -> VecRec] /\ v # w /\ w \in alive /\ v \in alive
      BY <1>0, <1>2 DEF Good, Memory, MoveAssign
    <2>2. f \in VecRec /\ f.data = Inline /\ f.capacity = N
      BY Zenon, <2>1, SmallVectorAssumption DEF VecRec
    <2>3. f0 \in VecRec /\ f0.data = Inline /\ f0.capacity = N /\ f0.size = 0
      BY Zenon, <2>2 DEF VecRec
    <2>4. Released(mem, v) = [vec |-> vec, heap |-> h]
      BY DEF Released, mem
    <2>5. inlined = [vec |-> [vec EXCEPT ![v] = f], heap |-> h]
      <3>1. inlined = [Released(mem, v) EXCEPT !.vec[v] = [@ EXCEPT !.data = Inline, !.capacity = N]]
        OBVIOUS
      <3> HIDE DEF h, inlined
      <3> QED
        BY <2>1, <2>4, <3>1
    <2>6. m = [vec |-> [vec EXCEPT ![v] = f0], heap |-> h]
      <3> HIDE DEF h, f0
      <3> QED
        BY <2>4
    <2> HIDE DEF f, f0, h
    <2>7. Stolen(inlined, v, w) = Stolen(m, v, w)
      BY <2>1, <2>2, <2>5, <2>6, SizeIgnored DEF f0
    <2>8. /\ Good(m) /\ m.vec[v] = f0
          /\ \A u \in Vecs : u # v => m.vec[u] = vec[u] /\ Elements(m, u) = Elements(mem, u)
      BY SMTT(30), <1>0, <2>3, ReleaseGood
    <2>9. Becomes(Stolen(inlined, v, w)) /\ alive' = alive \cup {v}
      BY <1>2, <2>1 DEF MoveAssign
    <2> HIDE DEF m, inlined
    <2> QED
      BY SMTT(30), <2>1, <2>3, <2>7, <2>8, <2>9, StealStep
  <1> QED
    BY <1>1, <1>2

LEMMA DestroyStep ==
    ASSUME IInv, NEW v \in Vecs, Destroy(v)
    PROVE  IInv' /\ Promise!Destroy(v)
  <1>0. Good(mem) /\ mem.vec = vec
    BY DEF IInv, mem
  <1>1. Fresh \in VecRec /\ Fresh.data = Inline /\ Fresh.capacity = N /\ Fresh.size = 0
    BY SmallVectorAssumption DEF Fresh, VecRec, Cell
  <1> DEFINE r == [Released(mem, v) EXCEPT !.vec[v] = Fresh]
  <1>2. /\ Good(r) /\ r.vec[v] = Fresh /\ Elements(r, v) = <<>>
        /\ \A u \in Vecs : u # v => r.vec[u] = vec[u] /\ Elements(r, u) = Elements(mem, u)
    BY <1>0, <1>1, ReleaseGood
  <1>3. Becomes(r) /\ v \in alive /\ alive' = alive \ {v}
    BY DEF Destroy
  <1> HIDE DEF r
  <1>4. vec'[v] = Fresh
    BY <1>2, <1>3 DEF Becomes
  <1>5. IInv' /\ held' = [held EXCEPT ![v] = <<>>]
    BY <1>2, <1>3, <1>4, StepTo DEF IInv
  <1> QED
    BY <1>3, <1>5 DEF Promise!Destroy, held

\* An operation that leaves s in v, which lives, after it made room.
LEMMA WriteStep ==
    ASSUME IInv, NEW v \in alive, NEW n \in Nat, NEW m \in Reserve(mem, v, n),
           NEW s \in Seq(Value), Len(s) <= n, Becomes(Written(m, v, s)), UNCHANGED alive
    PROVE  IInv' /\ Promise!Holds(v, s)
  <1>0. Good(mem) /\ mem.vec = vec /\ v \in Vecs
    BY DEF IInv, mem
  <1>1. /\ Good(m) /\ n <= m.vec[v].capacity /\ m.vec[v].capacity \in Nat
        /\ \A u \in Vecs : u # v => m.vec[u] = vec[u] /\ Elements(m, u) = Elements(mem, u)
    <2>1. /\ Good(m) /\ n <= m.vec[v].capacity
          /\ \A u \in Vecs : u # v => m.vec[u] = vec[u] /\ Elements(m, u) = Elements(mem, u)
      BY <1>0, ReserveGood
    <2> QED
      BY <2>1, <1>0 DEF Good, Memory, VecRec
  <1>2. Len(s) <= m.vec[v].capacity
    BY <1>1
  <1> DEFINE r == Written(m, v, s)
  <1>3. /\ Good(r) /\ Elements(r, v) = s
        /\ \A u \in Vecs : u # v => r.vec[u] = vec[u] /\ Elements(r, u) = Elements(mem, u)
    BY <1>0, <1>1, <1>2, WriteGood
  <1> HIDE DEF r
  <1>4. IInv' /\ held' = [held EXCEPT ![v] = s]
    BY <1>0, <1>3, StepTo DEF IInv, r
  <1> QED
    BY <1>4, <1>0 DEF Promise!Holds, held

LEMMA PushBackStep ==
    ASSUME IInv, NEW v \in Vecs, NEW x \in Value, PushBack(v, x)
    PROVE  IInv' /\ Promise!PushBack(v, x)
  <1>0. Good(mem) /\ mem.vec = vec /\ v \in alive /\ vec[v].size < MaxSize
    BY DEF IInv, mem, PushBack
  <1>1. Elements(mem, v) \in Seq(Value) /\ Len(Elements(mem, v)) = vec[v].size /\ vec[v].size \in Nat
    BY <1>0, ElementsTyped
  <1>2. PICK m \in Reserve(mem, v, vec[v].size + 1) : Becomes(Written(m, v, Append(Elements(m, v), x)))
    BY DEF PushBack
  <1>3. Elements(m, v) = Elements(mem, v)
    BY <1>0, <1>1, ReserveGood
  <1> DEFINE s == Append(Elements(mem, v), x)
  <1>4. s \in Seq(Value) /\ Len(s) <= vec[v].size + 1 /\ vec[v].size + 1 \in Nat
    BY <1>1
  <1>a. Becomes(Written(m, v, s)) /\ UNCHANGED alive
    BY SMTT(30), <1>2, <1>3 DEF PushBack
  <1> HIDE DEF s
  <1>5. IInv' /\ Promise!Holds(v, s)
    BY <1>0, <1>2, <1>4, <1>a, WriteStep
  <1> QED
    BY SMTT(30), <1>0, <1>1, <1>5 DEF Promise!PushBack, s

LEMMA ResizeStep ==
    ASSUME IInv, NEW v \in Vecs, NEW n \in 0..MaxSize, Resize(v, n)
    PROVE  IInv' /\ Promise!Resize(v, n)
  <1>0. Good(mem) /\ mem.vec = vec /\ v \in alive /\ n \in Nat
    BY SmallVectorAssumption DEF IInv, mem, Resize
  <1> DEFINE Longer(old) == [i \in 1..n |-> IF i <= Len(old) THEN old[i] ELSE Default]
  <1>1. Elements(mem, v) \in Seq(Value)
    BY <1>0, ElementsTyped
  <1>2. PICK m \in Reserve(mem, v, n) : Becomes(Written(m, v, Longer(Elements(m, v))))
    BY DEF Resize
  <1>3. Elements(m, v) = Elements(mem, v)
    BY <1>0, ReserveGood
  <1>4. Longer(Elements(mem, v)) \in Seq(Value) /\ Len(Longer(Elements(mem, v))) = n
    <2>1. ASSUME NEW i \in 1..n PROVE Longer(Elements(mem, v))[i] \in Value
      BY <1>0, <1>1, SmallVectorAssumption
    <2> QED
      BY <2>1, <1>0
  <1> HIDE DEF Longer
  <1>5. IInv' /\ Promise!Holds(v, Longer(Elements(mem, v)))
    BY SMTT(30), <1>0, <1>2, <1>3, <1>4, WriteStep DEF Resize
  <1> QED
    BY <1>0, <1>5 DEF Promise!Resize, Longer

LEMMA SetStep ==
    ASSUME IInv, NEW v \in Vecs, NEW i \in 1..MaxSize, NEW x \in Value, Set(v, i, x)
    PROVE  IInv' /\ Promise!Set(v, i, x)
  <1>0. Good(mem) /\ mem.vec = vec /\ v \in alive /\ i \in 1..vec[v].size
    BY DEF IInv, mem, Set
  <1>1. /\ Elements(mem, v) \in Seq(Value) /\ Len(Elements(mem, v)) = vec[v].size
        /\ vec[v].size \in Nat /\ vec[v].size <= vec[v].capacity
    BY <1>0, ElementsTyped DEF Good, Stored
  <1>2. mem \in Reserve(mem, v, vec[v].size)
    BY <1>0, <1>1 DEF Reserve
  <1> DEFINE s == [Elements(mem, v) EXCEPT ![i] = x]
  <1>3. s \in Seq(Value) /\ Len(s) = vec[v].size
    BY <1>0, <1>1
  <1>4. Becomes(Written(mem, v, s)) /\ UNCHANGED alive
    BY DEF Set
  <1> HIDE DEF s
  <1>5. IInv' /\ Promise!Holds(v, s)
    BY <1>0, <1>1, <1>2, <1>3, <1>4, WriteStep
  <1> QED
    BY <1>0, <1>1, <1>5 DEF Promise!Set, s

LEMMA ShrinkStep ==
    ASSUME IInv, NEW v \in Vecs, PopBack(v) \/ Clear(v)
    PROVE  IInv' /\ (Promise!PopBack(v) \/ Promise!Clear(v))
  <1>0. Good(mem) /\ mem.vec = vec /\ v \in alive /\ UNCHANGED alive
    BY DEF IInv, mem, PopBack, Clear
  <1>1. Elements(mem, v) \in Seq(Value) /\ Len(Elements(mem, v)) = vec[v].size /\ vec[v].size \in Nat
    BY <1>0, ElementsTyped
  <1> DEFINE s(n) == [i \in 1..n |-> Elements(mem, v)[i]]
  <1>2. ASSUME NEW n \in 0..vec[v].size, Becomes(Sized(mem, v, n))
        PROVE  IInv' /\ Promise!Holds(v, s(n))
    <2> DEFINE r == Sized(mem, v, n)
    <2>1. /\ Good(r) /\ Elements(r, v) = s(n)
          /\ \A u \in Vecs : u # v => r.vec[u] = vec[u] /\ Elements(r, u) = Elements(mem, u)
      BY SMTT(30), <1>0, ShrinkGood
    <2> HIDE DEF r, s
    <2>2. IInv' /\ held' = [held EXCEPT ![v] = s(n)]
      BY SMTT(30), <1>0, <1>2, <2>1, StepTo DEF IInv, r
    <2> QED
      BY <1>0, <2>2 DEF Promise!Holds, held
  <1>3. CASE PopBack(v)
    <2>1. vec[v].size - 1 \in 0..vec[v].size /\ vec[v].size > 0
      BY <1>1, <1>3 DEF PopBack
    <2>2. s(vec[v].size - 1) = SubSeq(Elements(mem, v), 1, Len(Elements(mem, v)) - 1)
      BY <1>1, <2>1
    <2>3. Elements(mem, v) # <<>>
      BY <1>1, <2>1
    <2> HIDE DEF s
    <2>4. IInv' /\ Promise!Holds(v, s(vec[v].size - 1))
      BY <1>2, <1>3, <2>1 DEF PopBack
    <2> QED
      BY Zenon, <1>0, <2>2, <2>3, <2>4 DEF Promise!PopBack
  <1>4. CASE Clear(v)
    <2>1. 0 \in 0..vec[v].size /\ s(0) = <<>>
      BY <1>1
    <2> HIDE DEF s
    <2>2. IInv' /\ Promise!Holds(v, s(0))
      BY <1>2, <1>4, <2>1 DEF Clear
    <2> QED
      BY <1>0, <2>1, <2>2 DEF Promise!Clear
  <1> QED
    BY <1>3, <1>4

LEMMA ReserveStep ==
    ASSUME IInv, NEW v \in Vecs, NEW n \in 0..MaxSize, ReserveMore(v, n)
    PROVE  IInv' /\ UNCHANGED <<alive, held>>
  <1>0. Good(mem) /\ mem.vec = vec /\ v \in alive /\ UNCHANGED alive /\ n \in Nat
    BY SmallVectorAssumption DEF IInv, mem, ReserveMore
  <1>1. PICK m \in Reserve(mem, v, n) : Becomes(m)
    BY DEF ReserveMore
  <1>2. /\ Good(m) /\ Elements(m, v) = Elements(mem, v)
        /\ \A u \in Vecs : u # v => m.vec[u] = vec[u] /\ Elements(m, u) = Elements(mem, u)
    BY <1>0, ReserveGood
  <1>3. IInv' /\ held' = [held EXCEPT ![v] = Elements(mem, v)]
    BY <1>0, <1>1, <1>2, StepTo DEF IInv
  <1> QED
    BY Zenon, <1>0, <1>3 DEF held

-----------------------------------------------------------------------------

LEMMA InitIInv == Init => IInv /\ Promise!Init
  <1> SUFFICES ASSUME Init PROVE IInv /\ Promise!Init
    OBVIOUS
  <1>1. Fresh \in VecRec /\ Fresh.data = Inline /\ Fresh.capacity = N /\ Fresh.size = 0
    BY SmallVectorAssumption DEF Fresh, VecRec, Cell
  <1>2. mem.vec = vec /\ mem.heap = heap /\ \A v \in Vecs : vec[v] = Fresh
    BY DEF Init, mem
  <1>3. mem \in Memory
    BY <1>1 DEF Init, mem, Memory
  <1>4. Stored(mem)
    <2>1. \A v \in Vecs : Len(Cells(mem, v)) = N
      BY <1>1, <1>2, <1>3, CellsTyped
    <2> QED
      BY <1>1, <1>2, <2>1, SmallVectorAssumption DEF Stored
  <1>5. Owned(mem)
    BY <1>1, <1>2, SmallVectorAssumption DEF Owned, Init, Inline
  <1>6. held = [v \in Vecs |-> <<>>]
    BY <1>1, <1>2 DEF held, Elements
  <1> QED
    BY <1>2, <1>3, <1>4, <1>5, <1>6 DEF IInv, Good, Init, Promise!Init, held

LEMMA NextIInv == IInv /\ [Next]_vars => IInv' /\ [Promise!Next]_(Promise!vars)
  <1> SUFFICES ASSUME IInv, [Next]_vars PROVE IInv' /\ [Promise!Next]_(Promise!vars)
    OBVIOUS
  <1>1. CASE UNCHANGED vars
    <2>1. mem' = mem
      BY <1>1 DEF vars, mem
    <2> QED
      BY <1>1, <2>1 DEF vars, IInv, Promise!vars
  <1>2. CASE Next
    <2>1. PICK v \in Vecs :
            \/ \E s \in Lists : Construct(v, s)
            \/ \E w \in Vecs : CopyConstruct(v, w) \/ MoveConstruct(v, w) \/ CopyAssign(v, w) \/ MoveAssign(v, w)
            \/ Destroy(v) \/ PopBack(v) \/ Clear(v)
            \/ \E x \in Value : PushBack(v, x) \/ \E i \in 1..MaxSize : Set(v, i, x)
            \/ \E n \in 0..MaxSize : Resize(v, n) \/ ReserveMore(v, n) \/ BadAlloc(v, n)
      BY SMTT(30), <1>2 DEF Next
    <2>2. CASE \E s \in Lists : Construct(v, s)
      BY <2>2, ConstructStep DEF Promise!Next, Promise!Lists, Lists
    <2>3. CASE \E w \in Vecs : CopyConstruct(v, w) \/ MoveConstruct(v, w) \/ CopyAssign(v, w) \/ MoveAssign(v, w)
      BY <2>3, CopyStep, MoveStep DEF Promise!Next
    <2>4. CASE Destroy(v) \/ PopBack(v) \/ Clear(v)
      BY <2>4, DestroyStep, ShrinkStep DEF Promise!Next
    <2>5. CASE \E x \in Value : PushBack(v, x) \/ \E i \in 1..MaxSize : Set(v, i, x)
      BY <2>5, PushBackStep, SetStep DEF Promise!Next
    <2>6. CASE \E n \in 0..MaxSize : Resize(v, n)
      BY <2>6, ResizeStep DEF Promise!Next
    <2>7. CASE \E n \in 0..MaxSize : ReserveMore(v, n)
      BY <2>7, ReserveStep DEF Promise!vars, held
    <2>8. CASE \E n \in 0..MaxSize : BadAlloc(v, n)
      BY <2>8, <1>1 DEF BadAlloc
    <2> QED
      BY SMTT(30), <2>1, <2>2, <2>3, <2>4, <2>5, <2>6, <2>7, <2>8
  <1> QED
    BY <1>1, <1>2

\* Every block that reserve() allocates is owned by exactly one vector until
\* release() frees it, whatever the number of vectors and of blocks.
THEOREM OneOwnerInvariant == Spec => []OneOwner
  <1>1. IInv => OneOwner
    BY DEF IInv, Good, Owned, OneOwner, mem
  <1> QED
    BY <1>1, InitIInv, NextIInv, PTL DEF Spec

\* SmallVector's grow, copy, move and release implement a vector: for every
\* inline size N, every step is a step of VectorSpec or leaves it unchanged.
THEOREM Implements == Spec => RefinesVector
  BY InitIInv, NextIInv, PTL DEF Spec, RefinesVector, Promise!Spec

=============================================================================
