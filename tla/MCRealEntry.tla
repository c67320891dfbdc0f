---------------------------- MODULE MCRealEntry ----------------------------
(***************************************************************************)
(* RealEntry on small instances: see the .cfg files for the constants.     *)
(***************************************************************************)
EXTENDS RealEntry
=============================================================================
