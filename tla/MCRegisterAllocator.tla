------------------------ MODULE MCRegisterAllocator ------------------------
(***************************************************************************)
(* Two pool registers for three virtual ones, so that allocation spills;   *)
(* one argument register; three instructions, so that "dead", "used next"  *)
(* and "used later" are all possible at once.                              *)
(***************************************************************************)
EXTENDS RegisterAllocator

MCVRegs == 0..2
MCPool == <<5, 9>>
MCAbiRegs == {10, 11}
MCClobberLists == {<<10>>, <<10, 11>>}
=============================================================================
