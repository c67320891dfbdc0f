---------------------------- MODULE MCEngineFold ----------------------------
(* Small instances of EngineFold.  A higher rule id has the higher         *)
(* priority, a rule holds one token at a time (two in one run), and rule 1 *)
(* re-enters a token once while the others are one-shot.                   *)
EXTENDS EngineFold

MCPriority == [r \in Rules |-> r]
MCConcurrentCap == [r \in Rules |-> 1]
MCConcurrentCapTwo == [r \in Rules |-> 2]
MCTotalCap == [r \in Rules |-> 2]
MCTotalCapThree == [r \in Rules |-> 3]
MCTotalCapOne == [r \in Rules |-> 1]
MCMaxPerCoin == [r \in Rules |-> IF r = 1 THEN 2 ELSE 0]
=============================================================================
