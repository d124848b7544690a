---------------------------- MODULE MCSmallVector ----------------------------
(***************************************************************************)
(* Two vectors with room for one element each, and one block fewer than    *)
(* their operations can want at a time: the second block doubles again.    *)
(***************************************************************************)
EXTENDS SmallVector, TLC

CONSTANTS a, b, x, y, block1, block2, block3

MCVecs == {a, b}
MCBlocks == {block1, block2, block3}
MCValue == {x, y}
Interchangeable == Permutations(MCVecs) \cup Permutations(MCBlocks)

=============================================================================
