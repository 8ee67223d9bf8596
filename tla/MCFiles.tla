------------------------------- MODULE MCFiles -------------------------------
(***************************************************************************)
(* A file of at most three blocks of two bytes, one of each level, on a disk  *)
(* with one block too few for it, and an inode table of two entries.         *)
(***************************************************************************)
EXTENDS Files, TLC

CONSTANTS p, q, x

Symmetry == Permutations(Proc)

\* The run goes no further once something has happened that the code gets wrong.
Unspoilt == spoilt = {}

MCSeeks == {<<0, 0>>, <<1, 2>>, <<2, -1>>}
=============================================================================
