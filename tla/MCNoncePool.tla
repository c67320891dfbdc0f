---------------------------- MODULE MCNoncePool ----------------------------
(***************************************************************************)
(* NoncePool with one account that three trades compete for.               *)
(***************************************************************************)
EXTENDS NoncePool
=============================================================================
