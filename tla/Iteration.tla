------------------------------ MODULE Iteration ------------------------------
(***************************************************************************)
(* The loops of the code, as operators.  Each splits its range in halves,  *)
(* and takes the first half's result from a singleton, so that TLC has it  *)
(* before it starts on the second: the depth of an evaluation is then the  *)
(* logarithm of the number of rounds.                                      *)
(***************************************************************************)
EXTENDS Naturals

\* for (i = first; i <= last; i++) acc = Visit(acc, i);
ForEach(first, last, start, Visit(_, _)) ==
    LET RECURSIVE Part(_, _, _)
        Part(lo, hi, acc) ==
          IF lo > hi THEN acc
          ELSE IF lo = hi THEN Visit(acc, lo)
          ELSE LET mid == (lo + hi) \div 2
               IN  CHOOSE all \in {Part(mid + 1, hi, x) : x \in {Part(lo, mid, acc)}} : TRUE
    IN  Part(first, last, start)

\* while (Again(x)) x = Step(x);  for at most bound rounds, taken in runs of
\* one, two, four, ...
Iterate(bound, start, Again(_), Step(_)) ==
    LET RECURSIVE Rounds(_, _)
        RECURSIVE Runs(_, _, _)
        Rounds(n, x) ==
          IF n = 0 \/ ~Again(x) THEN x
          ELSE IF n = 1 THEN Step(x)
          ELSE LET half == n \div 2
               IN  CHOOSE z \in {Rounds(n - half, y) : y \in {Rounds(half, x)}} : TRUE
        Runs(n, left, x) ==
          IF left = 0 \/ ~Again(x) THEN x
          ELSE LET run == IF n < left THEN n ELSE left
               IN  CHOOSE z \in {Runs(2 * n, left - run, y) : y \in {Rounds(run, x)}} : TRUE
    IN  Runs(1, bound, start)

=============================================================================
