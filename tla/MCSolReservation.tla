-------------------------- MODULE MCSolReservation --------------------------
(***************************************************************************)
(* SolReservation with a wallet that can pay for two buys, and a third.    *)
(***************************************************************************)
EXTENDS SolReservation, TLC

MCSize == [p \in Positions |-> 2]
MCSymmetry == Permutations(Positions)
=============================================================================
