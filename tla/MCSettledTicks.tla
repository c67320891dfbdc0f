--------------------------- MODULE MCSettledTicks ---------------------------
(***************************************************************************)
(* SettledTicks with two mints of one name, a rule that holds one token at *)
(* a time, re-enters and sells by its clocks, and a late exclusive one.    *)
(***************************************************************************)
EXTENDS SettledTicks

MCIdentity == <<{7}, {7, NoId}>>
MCMatches == <<Rules, Rules \ {3}>>
MCThreshold == [c \in Clocks |-> IF c = "held" THEN 2 ELSE 1]
MCPrints == {[price |-> 1, dust |-> FALSE], [price |-> 2, dust |-> TRUE]}

Stages(first, second) == 0 :> first @@ 1 :> second
Quick == [enter |-> {}, line |-> Stages({"held"}, {"staged"}), act |-> "partial",
          ends |-> "none", mode |-> "real", on |-> TRUE, exclusive |-> FALSE,
          cap |-> 1, cooldown |-> 1]
Young == [enter |-> {"young", "print"}, line |-> Stages({}, {"high"}), act |-> "sell",
          ends |-> "stage", mode |-> "paper", on |-> TRUE, exclusive |-> FALSE,
          cap |-> 2, cooldown |-> 0]
Late == [enter |-> {"high", "stalled"}, line |-> Stages({"held"}, {}), act |-> "sell",
         ends |-> "none", mode |-> "real", on |-> TRUE, exclusive |-> TRUE,
         cap |-> 1, cooldown |-> 0]
First == [Young EXCEPT !.enter = {"high"}, !.line = Stages({}, {}), !.ends = "none", !.cap = 1]
MCTables == <<1 :> Quick @@ 3 :> First, 1 :> Young @@ 2 :> Late>>
=============================================================================
