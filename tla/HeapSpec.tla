------------------------------- MODULE HeapSpec -------------------------------
(***************************************************************************)
(* What a heap promises its callers: blocks inside a range of addresses    *)
(* that do not overlap, and that stay where they are until they are freed  *)
(* or reallocated.  Every operation names the pointer it was given and the *)
(* one it answers with, and changes no other block.                        *)
(***************************************************************************)
EXTENDS Naturals, TLC

CONSTANTS
    First, Size  \* the range: First .. First + Size - 1; null is no address of it

VARIABLES
    blocks,  \* address -> size, of the blocks in use
    call     \* the last operation: its name, the pointer given, the pointer answered

null == 0

Call(op, ptr, answer) == [op |-> op, ptr |-> ptr, answer |-> answer]

Addresses == First .. First + Size - 1

\* The addresses of b that no block covers.
Unused(b) == Addresses \ UNION {p .. p + b[p] - 1 : p \in DOMAIN b}

Without(b, p) == [q \in DOMAIN b \ {p} |-> b[q]]

Init == blocks = <<>> /\ call = Call("none", null, null)

\* What an operation makes of the blocks b: c.  An operation that answers null, or
\* throws, leaves all of them.

Malloc(b, c, answer) ==
    IF answer = null THEN c = b
    ELSE \E n \in 1 .. Size : /\ c = (answer :> n) @@ b
                              /\ answer .. answer + n - 1 \subseteq Unused(b)

Free(b, c, ptr) == ptr \in DOMAIN b /\ c = Without(b, ptr)

\* A block stays or grows where it is, over addresses nobody used, or moves: its
\* contents can still be copied, for the new place and the old one do not overlap.
Realloc(b, c, ptr, answer) ==
    /\ ptr \in DOMAIN b
    /\ IF answer = null THEN c = b
       ELSE \E n \in b[ptr] .. Size :
              IF answer = ptr
              THEN c = [b EXCEPT ![ptr] = n] /\ ptr + b[ptr] .. ptr + n - 1 \subseteq Unused(b)
              ELSE c = (answer :> n) @@ Without(b, ptr) /\ answer .. answer + n - 1 \subseteq Unused(b)

Next ==
    \E b \in {blocks}, c \in {blocks'}, p, q \in Addresses \cup {null} :
        \/ call' = Call("malloc", null, q) /\ Malloc(b, c, q)
        \/ call' = Call("free", p, null) /\ Free(b, c, p)
        \/ call' = Call("realloc", p, q) /\ Realloc(b, c, p, q)
        \/ call' = Call("configure", null, null) /\ c = b

Spec == Init /\ [][Next]_<<blocks, call>>

=============================================================================
