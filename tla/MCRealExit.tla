---------------------------- MODULE MCRealExit ----------------------------
(* TLC instances of RealExit: positions of one token account.              *)
EXTENDS RealExit, TLC

CONSTANTS p1, p2

PositionSymmetry == Permutations({p1, p2})
=============================================================================
