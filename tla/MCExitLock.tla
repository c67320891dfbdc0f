----------------------------- MODULE MCExitLock -----------------------------
(***************************************************************************)
(* Instances of ExitLock for TLC.                                          *)
(***************************************************************************)
EXTENDS ExitLock, TLC

CONSTANTS e1, e2, o1, m1, r1, acct, other, p1, p2, l1, l2, l3

\* Two exits of sibling positions, an orphan sell and a look at the first, and a
\* manual sell of the same account.
CrowdTasks == {e1, e2, o1, m1, r1}
CrowdKind == e1 :> "exit" @@ e2 :> "exit" @@ o1 :> "orphan" @@ m1 :> "manual"
             @@ r1 :> "look"
CrowdKey == [t \in CrowdTasks |-> acct]
CrowdPos == [t \in CrowdTasks |-> IF t = e2 THEN p2 ELSE p1]

\* A manual sell that tries while an exit ends.
PairTasks == {e1, m1}
PairKind == e1 :> "exit" @@ m1 :> "manual"
PairKey == [t \in PairTasks |-> acct]
PairPos == [t \in PairTasks |-> p1]
=============================================================================
