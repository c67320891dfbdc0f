----------------------------- MODULE NoncePool -----------------------------
(***************************************************************************)
(* The durable-nonce pool every trade of a wallet goes through             *)
(* (src/shared/executor/core/src/nonce.rs): acquire_nonce, the post-send   *)
(* refresh task, the push feed, the index of sent transactions, and        *)
(* burn_nonce_tx, which makes an earlier transaction unable to execute.    *)
(*                                                                         *)
(* A nonce account holds one hash; hashes are numbered in the order the    *)
(* chain makes them.  A transaction signed over hash h executes only while *)
(* the account still holds h, and executing it advances the account: it    *)
(* never expires.  An update pushed for hash h carries slot h.             *)
(***************************************************************************)
EXTENDS Naturals, Sequences, FiniteSets

CONSTANTS
    Nonces,           \* the nonce accounts of the wallet
    MaxTrades,        \* bound: trades that want one, each signs one transaction
    RefreshAttempts,  \* config.nonce.refresh_max_attempts
    IndexCap,         \* NONCE_TX_INDEX_CAP
    MaxBurns,         \* bound: transactions burned
    Faults            \* what the timing may do besides lost sends and RPC errors

(***************************************************************************)
(* "lag": an RPC read (confirmed) is behind the hash the feed (processed)  *)
(*     already gave to a trade;                                            *)
(* "late_push": an update reaches the cache after a poll has cached a      *)
(*     newer hash (a replay after a reconnect);                            *)
(* "early_push": an update shows an advance while a trade still holds the  *)
(*     account (it waits for its confirmation, or an older transaction on  *)
(*     its hash landed);                                                   *)
(* "late_start": an update or a burn changes the slot before the spawned   *)
(*     refresh task has begun;                                             *)
(* "stale_burn": a burn reaches the cache after a poll or an update has    *)
(*     put a newer hash there, or while another trade uses the slot.       *)
(***************************************************************************)
FaultKinds == {"lag", "late_push", "early_push", "late_start", "stale_burn"}

ASSUME NoncePoolAssumption ==
    /\ MaxTrades \in Nat
    /\ RefreshAttempts \in Nat \ {0} /\ IndexCap \in Nat \ {0}
    /\ MaxBurns \in Nat
    /\ Faults \subseteq FaultKinds

NoHash == 0
Trades == 1 .. MaxTrades  \* in the order they come

VARIABLES
    chain,    \* the hash each account holds
    slots,    \* nonce_slots: cached hash, in_use, use_epoch, last_push_slot
    trade,    \* each trade: where it is, its account and the hash it signed over
    net,      \* its transaction: not sent, out (may land any time), landed
    order,    \* nonce_tx_index with its FIFO
    refresh,  \* the refresh task of each trade
    burn,     \* burn_nonce_tx on each trade's signature
    advance   \* the burn's own transaction

vars == <<chain, slots, trade, net, order, refresh, burn, advance>>
poolVars == <<slots, order>>
chainVars == <<chain, net, advance>>

Hashes == 0 .. 1 + MaxTrades + MaxBurns
Epochs == 0 .. MaxTrades
Verdicts == {"Dead", "Live", "Unknown"}

TypeOK ==
    /\ chain \in [Nonces -> Hashes \ {NoHash}]
    /\ slots \in [Nonces -> [hash : Hashes, in_use : BOOLEAN, epoch : Epochs, pushed : Hashes]]
    /\ \A t \in Trades :
        /\ trade[t].pc \in {"idle", "none", "held", "sent", "dropped"}
        /\ trade[t].pc \in {"held", "sent", "dropped"} =>
            trade[t].nonce \in Nonces /\ trade[t].hash \in Hashes \ {NoHash}
    /\ net \in [Trades -> {"unsent", "out", "landed"}]
    /\ order \in Seq(Trades) /\ Len(order) <= IndexCap
    /\ refresh \in [Trades -> [pc : {"off", "spawned", "poll", "write"}, used : Hashes,
                               epoch : Epochs, last : Hashes, tries : 0 .. RefreshAttempts]]
    /\ burn \in [Trades -> {"idle", "first", "advance", "confirm", "again"} \cup Verdicts]
    /\ advance \in [Trades -> {"unsent", "out", "landed"}]

NoRefresh == [pc |-> "off", used |-> NoHash, epoch |-> 0, last |-> NoHash, tries |-> 0]

\* initialize prefetches every hash.
Init ==
    /\ chain = [n \in Nonces |-> 1]
    /\ slots = [n \in Nonces |-> [hash |-> 1, in_use |-> FALSE, epoch |-> 0, pushed |-> 0]]
    /\ trade = [t \in Trades |-> [pc |-> "idle", nonce |-> NoHash, hash |-> NoHash]]
    /\ net = [t \in Trades |-> "unsent"]
    /\ order = <<>>
    /\ refresh = [t \in Trades |-> NoRefresh]
    /\ burn = [t \in Trades |-> "idle"]
    /\ advance = [t \in Trades |-> "unsent"]

-----------------------------------------------------------------------------
(* A trade: take a slot, sign, send, give the slot to its refresh task.    *)

Goto(t, pc) == trade' = [trade EXCEPT ![t].pc = pc]
Holding(t) == trade[t].pc \in {"held", "sent"}
Comes(t) == trade[t].pc = "idle" /\ \A u \in 1 .. t - 1 : trade[u].pc # "idle"
Free(n) == ~slots[n].in_use /\ slots[n].hash # NoHash

\* It does not ask whether the slot is in use.
AcquireAny(t) ==
    /\ Comes(t)
    /\ \E n \in Nonces :
        /\ slots[n].hash # NoHash
        /\ slots' = [slots EXCEPT ![n].in_use = TRUE, ![n].epoch = @ + 1]
        /\ trade' = [trade EXCEPT ![t] = [pc |-> "held", nonce |-> n, hash |-> slots[n].hash]]
    /\ UNCHANGED <<chainVars, order, refresh, burn>>

\* The cursor starts the scan anywhere: any free slot with a hash may be taken.
acquire_nonce(t) ==
    /\ Comes(t)
    /\ \E n \in Nonces :
        /\ Free(n)
        /\ slots' = [slots EXCEPT ![n].in_use = TRUE, ![n].epoch = @ + 1]
        /\ trade' = [trade EXCEPT ![t] = [pc |-> "held", nonce |-> n, hash |-> slots[n].hash]]
    /\ UNCHANGED <<chainVars, order, refresh, burn>>

\* Every scan of the wait failed: the trade goes without a nonce.
AllBusy(t) ==
    /\ Comes(t)
    /\ \A n \in Nonces : ~Free(n)
    /\ Goto(t, "none")
    /\ UNCHANGED <<chainVars, poolVars, refresh, burn>>

Tracked(t) == \E i \in 1 .. Len(order) : order[i] = t

note_nonce_tx(t) ==
    LET longer == Append(order, t)
    IN  order' = IF Len(longer) > IndexCap THEN Tail(longer) ELSE longer

\* A sell is noted before its send, a buy once its send returned.  A send that
\* failed may have reached the network all the same.
send(t, kind, ok, reached) ==
    /\ trade[t].pc = "held"
    /\ ok => reached
    /\ net' = [net EXCEPT ![t] = IF reached THEN "out" ELSE @]
    /\ IF kind = "sell" \/ ok THEN note_nonce_tx(t) ELSE UNCHANGED order
    /\ Goto(t, "sent")
    /\ UNCHANGED <<chain, advance, slots, refresh, burn>>

\* Only a trade that ran to its end gives its slot back.
FreedAtTheEnd(t) ==
    /\ trade[t].pc = "sent"
    /\ Goto(t, "dropped")
    /\ \/ refresh' = [refresh EXCEPT ![t].pc = "spawned"]
       \/ UNCHANGED refresh
    /\ UNCHANGED <<chainVars, poolVars, burn>>

\* Its end, an error or a timeout that drops the future: the guard spawns the
\* refresh, also when the transaction was never signed.
NonceRefreshOnDrop(t) ==
    /\ Holding(t)
    /\ Goto(t, "dropped")
    /\ refresh' = [refresh EXCEPT ![t].pc = "spawned"]
    /\ UNCHANGED <<chainVars, poolVars, burn>>

-----------------------------------------------------------------------------
(* The refresh task.                                                       *)

Readable(n) == {chain[n]} \cup IF "lag" \in Faults /\ chain[n] > 1 THEN {chain[n] - 1} ELSE {}

OnlyRefresh == UNCHANGED <<chainVars, trade, order, burn>>
RefreshEnds(t) == refresh' = [refresh EXCEPT ![t] = NoRefresh]
\* The slot is in the use the task took for its own.
Ours(t) == LET s == slots[trade[t].nonce] IN s.in_use /\ s.epoch = refresh[t].epoch

RefreshStart(t) ==
    /\ refresh[t].pc = "spawned"
    /\ LET s == slots[trade[t].nonce]
       IN  refresh' = [refresh EXCEPT ![t] = [pc |-> "poll", used |-> s.hash, epoch |-> s.epoch,
                                              last |-> NoHash, tries |-> 0]]
    /\ UNCHANGED slots /\ OnlyRefresh

\* One turn: look whether the use is still ours, then read (NoHash stands for an
\* RPC error).  It stops at a hash that is new.
RefreshPoll(t, h) ==
    /\ refresh[t].pc = "poll"
    /\ h \in Readable(trade[t].nonce) \cup {NoHash}
    /\ LET r == refresh[t]
           new == h # NoHash /\ h # r.used
       IN  IF ~Ours(t) THEN RefreshEnds(t)
           ELSE refresh' = [refresh EXCEPT ![t] =
                    [r EXCEPT !.last = IF h = NoHash THEN @ ELSE h,
                              !.tries = @ + 1,
                              !.pc = IF new \/ r.tries + 1 = RefreshAttempts THEN "write" ELSE @]]
    /\ UNCHANGED slots /\ OnlyRefresh

\* It writes without a second look at the slot.
WritesAnyUse(t) ==
    /\ refresh[t].pc = "write"
    /\ slots' = [slots EXCEPT ![trade[t].nonce].hash = refresh[t].last,
                              ![trade[t].nonce].in_use = FALSE]
    /\ RefreshEnds(t) /\ OnlyRefresh

RefreshWrite(t) ==
    /\ refresh[t].pc = "write"
    /\ slots' = IF ~Ours(t) THEN slots
                ELSE [slots EXCEPT ![trade[t].nonce].hash = refresh[t].last,
                                   ![trade[t].nonce].in_use = FALSE]
    /\ RefreshEnds(t) /\ OnlyRefresh

schedule_nonce_refresh(t) ==
    RefreshStart(t) \/ (\E h \in Hashes : RefreshPoll(t, h)) \/ RefreshWrite(t)

-----------------------------------------------------------------------------
(* The push feed: updates may be lost, and the gate drops replays.         *)

Starting(n) == \E t \in Trades : refresh[t].pc = "spawned" /\ trade[t].nonce = n

Prompt(n, h) ==
    /\ "late_push" \in Faults \/ h >= slots[n].hash
    /\ "early_push" \in Faults
       \/ ~\E t \in Trades : Holding(t) /\ trade[t].nonce = n /\ h > trade[t].hash
    /\ "late_start" \in Faults \/ ~Starting(n)

on_nonce_account_update(n, h) ==
    /\ h \in 1 .. chain[n] /\ Prompt(n, h)
    /\ h > slots[n].pushed
    /\ slots' = [slots EXCEPT ![n].pushed = h, ![n].hash = h,
                              ![n].in_use = @ /\ slots[n].hash = h]
    /\ UNCHANGED <<chainVars, trade, order, refresh, burn>>

-----------------------------------------------------------------------------
(* Recovery: is the transaction dead, and if not make it so.               *)

OnlyBurn == UNCHANGED <<chain, net, trade, order, refresh>>
BurnTo(t, pc) == burn' = [burn EXCEPT ![t] = pc]

\* A failed read taken for a hash that moved on.
ErrorIsDead(t, v) ==
    \/ v = "Unknown" /\ ~Tracked(t)
    \/ v = "Dead" /\ Tracked(t)
    \/ Tracked(t) /\ \E h \in Readable(trade[t].nonce) :
            v = IF h = trade[t].hash THEN "Live" ELSE "Dead"

\* Unknown: not in the index, or the read failed.
nonce_tx_state(t, v) ==
    \/ v = "Unknown"
    \/ Tracked(t) /\ \E h \in Readable(trade[t].nonce) :
            v = IF h = trade[t].hash THEN "Live" ELSE "Dead"

burn_nonce_tx(t) ==
    /\ burn[t] = "idle" /\ trade[t].pc = "dropped"
    /\ Cardinality({u \in Trades : burn[u] # "idle"}) < MaxBurns
    /\ \E v \in Verdicts : nonce_tx_state(t, v) /\ BurnTo(t, IF v = "Live" THEN "advance" ELSE v)
    /\ UNCHANGED <<slots, advance>> /\ OnlyBurn

BurnSend(t) ==
    /\ burn[t] = "advance"
    /\ \/ BurnTo(t, "Unknown") /\ UNCHANGED advance
       \/ BurnTo(t, "confirm") /\ advance' = [advance EXCEPT ![t] = "out"]
    /\ UNCHANGED slots /\ OnlyBurn

\* Confirmed or not, the cached hash is dropped.
BurnInvalidate(t) ==
    /\ burn[t] = "confirm"
    /\ "stale_burn" \in Faults
       \/ /\ slots[trade[t].nonce].hash = trade[t].hash
          /\ \A u \in Trades : Holding(u) => trade[u].nonce # trade[t].nonce
    /\ "late_start" \in Faults \/ ~Starting(trade[t].nonce)
    /\ slots' = [slots EXCEPT ![trade[t].nonce].hash = NoHash]
    /\ BurnTo(t, "again")
    /\ UNCHANGED advance /\ OnlyBurn

BurnVerify(t) ==
    /\ burn[t] = "again"
    /\ \E v \in Verdicts : nonce_tx_state(t, v) /\ BurnTo(t, v)
    /\ UNCHANGED <<slots, advance>> /\ OnlyBurn

-----------------------------------------------------------------------------
(* The chain.                                                              *)

CanLand(t) == net[t] = "out" /\ trade[t].hash = chain[trade[t].nonce]

Lands(t) ==
    /\ CanLand(t)
    /\ net' = [net EXCEPT ![t] = "landed"]
    /\ chain' = [chain EXCEPT ![trade[t].nonce] = @ + 1]
    /\ UNCHANGED <<advance, poolVars, trade, refresh, burn>>

\* The burn rides a recent blockhash: it advances whatever hash is there.
AdvanceLands(t) ==
    /\ advance[t] = "out"
    /\ advance' = [advance EXCEPT ![t] = "landed"]
    /\ chain' = [chain EXCEPT ![trade[t].nonce] = @ + 1]
    /\ UNCHANGED <<net, poolVars, trade, refresh, burn>>

-----------------------------------------------------------------------------
Trading(t) ==
    \/ acquire_nonce(t) \/ AllBusy(t)
    \/ \E kind \in {"buy", "sell"}, ok, reached \in BOOLEAN : send(t, kind, ok, reached)
    \/ NonceRefreshOnDrop(t)

Burning(t) == burn_nonce_tx(t) \/ BurnSend(t) \/ BurnInvalidate(t) \/ BurnVerify(t)

Next ==
    \/ \E t \in Trades :
        Trading(t) \/ schedule_nonce_refresh(t) \/ Burning(t) \/ Lands(t) \/ AdvanceLands(t)
    \/ \E n \in Nonces, h \in Hashes : on_nonce_account_update(n, h)

Spec == Init /\ [][Next]_vars

\* Trades and their spawned refreshes run on; nothing is promised of the chain,
\* of the RPC node or of the feed.
FairSpec ==
    /\ Spec
    /\ \A t \in Trades : WF_vars(NonceRefreshOnDrop(t)) /\ WF_vars(schedule_nonce_refresh(t))

-----------------------------------------------------------------------------
\* Dead is a proof: once a caller was told that a transaction is dead, it never
\* lands any more, so an equivalent one may be sent (nonce_tx_state).
DeadIsProof == \A t \in Trades : burn[t] = "Dead" => ~CanLand(t)

\* Two trades between their acquire and their drop never sign over the same
\* hash of the same account, whatever the polls, pushes and burns of earlier
\* uses do to the slot meanwhile: one of them could only fail.
NoSharedHash ==
    \A t, u \in Trades :
        (t # u /\ Holding(t) /\ Holding(u)) =>
            <<trade[t].nonce, trade[t].hash>> # <<trade[u].nonce, trade[u].hash>>

\* The cache never goes back to an older hash, whichever of poll and push saw
\* which advance first: a transaction signed over it would be stillborn.
CacheNeverRewinds ==
    [][\A n \in Nonces : slots'[n].hash = NoHash \/ slots'[n].hash >= slots[n].hash]_vars

\* A slot taken is given back, however its trade ends and although every RPC
\* read may fail: the pool is not used up by trades that time out.
SlotsReturn == \A n \in Nonces : slots[n].in_use ~> ~slots[n].in_use
=============================================================================
