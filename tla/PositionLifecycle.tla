-------------------------- MODULE PositionLifecycle --------------------------
(***************************************************************************)
(* What the engine promises about one position, as its consumers (the      *)
(* position table, the console) see it: the status machine of              *)
(* PositionStatus, with terminal statuses final, ids used in order and     *)
(* once, and at most ConcurrentCap[r] open positions per rule.             *)
(***************************************************************************)
EXTENDS Integers, FiniteSets

CONSTANTS Rules, Manual, ConcurrentCap, MaxPositions

VARIABLES status,   \* position -> status last reported
          owner     \* open position -> rule

Ids == 1 .. MaxPositions
OpenOf(r) == {p \in DOMAIN owner : owner[p] = r}

Init == /\ status = [p \in Ids |-> "Unborn"]
        /\ owner = [p \in {} |-> 0]

Submit(p, r) ==
    /\ status[p] = "Unborn" /\ \A q \in 1 .. (p - 1) : status[q] # "Unborn"
    /\ r \in Rules => Cardinality(OpenOf(r)) < ConcurrentCap[r]
    /\ status' = [status EXCEPT ![p] = "BuySubmitted"]
    /\ owner' = [q \in DOMAIN owner \cup {p} |-> IF q = p THEN r ELSE owner[q]]

\* A filled buy is held, or sold on the spot when a sell was owed.
Fill(p) ==
    /\ status[p] = "BuySubmitted"
    /\ \E s \in {"Holding", "ExitPending"} : status' = [status EXCEPT ![p] = s]
    /\ UNCHANGED owner
StartExit(p) ==
    /\ status[p] = "Holding"
    /\ status' = [status EXCEPT ![p] = "ExitPending"]
    /\ UNCHANGED owner
PartialFill(p) ==
    /\ status[p] = "ExitPending"
    /\ status' = [status EXCEPT ![p] = "Holding"]
    /\ UNCHANGED owner

Outcomes(s) == CASE s = "BuySubmitted" -> {"EntryFailed"}
                 [] s = "Holding"      -> {"End"}
                 [] s = "ExitPending"  -> {"End", "ExitStuck", "ExitUnconfirmed"}
                 [] OTHER              -> {}
Finish(p) ==
    /\ \E s \in Outcomes(status[p]) : status' = [status EXCEPT ![p] = s]
    /\ owner' = [q \in DOMAIN owner \ {p} |-> owner[q]]

Next == \E p \in Ids : \/ \E r \in Rules \cup Manual : Submit(p, r)
                       \/ Fill(p) \/ StartExit(p) \/ PartialFill(p) \/ Finish(p)
Spec == Init /\ [][Next]_<<status, owner>>
=============================================================================
