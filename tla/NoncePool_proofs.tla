-------------------------- MODULE NoncePool_proofs --------------------------
(***************************************************************************)
(* Three facts of NoncePool for every pool, every number of trades and     *)
(* every bound: a transaction reported dead never lands when an RPC read   *)
(* is not behind the feed, two trades never hold one nonce account at once *)
(* when updates and burns are not untimely, and a cached hash never goes   *)
(* back when reads do not lag and pushes are not late.                     *)
(***************************************************************************)
EXTENDS NoncePool, TLAPS

-----------------------------------------------------------------------------
(* Types, without the bounds of TLC.                                       *)

Steps == {"idle", "none", "held", "sent", "dropped"}
Signed(t) == trade[t].pc \in {"held", "sent", "dropped"}

Slots == [hash : Nat, in_use : BOOLEAN, epoch : Nat, pushed : Nat]
Signatures == [pc : Steps, nonce : Nonces \cup {NoHash}, hash : Nat]
Refreshes == [pc : {"off", "spawned", "poll", "write"}, used : Nat, epoch : Nat,
              last : Nat, tries : Nat]

Types ==
    /\ chain \in [Nonces -> Nat]
    /\ slots \in [Nonces -> Slots]
    /\ trade \in [Trades -> Signatures]
    /\ net \in [Trades -> {"unsent", "out", "landed"}]
    /\ refresh \in [Trades -> Refreshes]
    /\ burn \in [Trades -> {"idle", "first", "advance", "confirm", "again"} \cup Verdicts]
    /\ advance \in [Trades -> {"unsent", "out", "landed"}]

\* Whoever has a transaction, a refresh task or a burn has an account.
Accounts ==
    \A t \in Trades :
        /\ Signed(t) => trade[t].nonce \in Nonces
        /\ net[t] # "unsent" => trade[t].pc \in {"sent", "dropped"}
        /\ refresh[t].pc # "off" => trade[t].pc = "dropped"
        /\ burn[t] # "idle" => trade[t].pc = "dropped"
        /\ advance[t] # "unsent" => trade[t].pc = "dropped"

Basic == Types /\ Accounts

LEMMA BasicInit == Init => Basic
BY NoncePoolAssumption
   DEF Init, Basic, Types, Accounts, Signed, Steps, Trades, NoHash, NoRefresh, Verdicts,
       Slots, Signatures, Refreshes

\* A trade that moves on keeps its account and its hash.
LEMMA StepType ==
    ASSUME NEW t \in Trades, NEW pc \in Steps, trade \in [Trades -> Signatures]
    PROVE  [trade EXCEPT ![t].pc = pc] \in [Trades -> Signatures]
<1>1. [trade[t] EXCEPT !.pc = pc] \in Signatures BY DEF Signatures
<1> QED BY <1>1

\* What the pool writes into a slot is a slot.
LEMMA SlotTypes ==
    ASSUME NEW f \in [Nonces -> Slots], NEW n \in Nonces, NEW h \in Nat
    PROVE  /\ [f EXCEPT ![n].hash = h] \in [Nonces -> Slots]
           /\ \A e \in Nat : [f EXCEPT ![n].in_use = TRUE, ![n].epoch = e] \in [Nonces -> Slots]
           /\ \A b \in BOOLEAN : [f EXCEPT ![n].hash = h, ![n].in_use = b] \in [Nonces -> Slots]
           /\ \A b \in BOOLEAN : [f EXCEPT ![n].pushed = h, ![n].hash = h, ![n].in_use = b]
                                    \in [Nonces -> Slots]
<1>0. f[n] \in Slots OBVIOUS
<1>1. [f[n] EXCEPT !.hash = h] \in Slots BY <1>0 DEF Slots
<1>2. ASSUME NEW e \in Nat PROVE [f[n] EXCEPT !.in_use = TRUE, !.epoch = e] \in Slots
  BY <1>0 DEF Slots
<1>3. ASSUME NEW b \in BOOLEAN
      PROVE  /\ [f[n] EXCEPT !.hash = h, !.in_use = b] \in Slots
             /\ [f[n] EXCEPT !.pushed = h, !.hash = h, !.in_use = b] \in Slots
  BY <1>0 DEF Slots
<1> QED BY <1>1, <1>2, <1>3

LEMMA RefreshTypes ==
    ASSUME NEW r \in Refreshes, NEW last \in Nat, NEW tries \in Nat,
           NEW pc \in {"off", "spawned", "poll", "write"}
    PROVE  [r EXCEPT !.last = last, !.tries = tries, !.pc = pc] \in Refreshes
BY DEF Refreshes

LEMMA TradingBasic ==
    ASSUME NEW t \in Trades, Basic, Trading(t) PROVE Basic'
<1> USE DEF chainVars, poolVars
<1>0. Types /\ Accounts BY DEF Basic
<1>1. CASE acquire_nonce(t)
  <2>1. PICK n \in Nonces :
          /\ slots' = [slots EXCEPT ![n].in_use = TRUE, ![n].epoch = @ + 1]
          /\ trade' = [trade EXCEPT ![t] = [pc |-> "held", nonce |-> n, hash |-> slots[n].hash]]
    BY <1>1 DEF acquire_nonce
  <2>2. trade[t].pc = "idle" /\ UNCHANGED <<chain, net, advance, order, refresh, burn>>
    BY <1>1 DEF acquire_nonce, Comes
  <2>3. slots[n] \in Slots /\ slots[n].hash \in Nat BY <1>0 DEF Types, Slots
  <2>a. slots \in [Nonces -> Slots] /\ slots[n].epoch + 1 \in Nat BY <1>0, <2>3 DEF Types, Slots
  <2>c. slots' = [slots EXCEPT ![n].in_use = TRUE, ![n].epoch = slots[n].epoch + 1] BY <2>1
  <2>4. slots' \in [Nonces -> Slots] BY <2>a, <2>c, <2>3, SlotTypes
  <2>b. [pc |-> "held", nonce |-> n, hash |-> slots[n].hash] \in Signatures
    BY <2>3 DEF Signatures, Steps
  <2>5. trade' \in [Trades -> Signatures] BY <1>0, <2>1, <2>b DEF Types
  <2>6. Types' BY <1>0, <2>2, <2>4, <2>5 DEF Types
  <2>7. Accounts' BY <1>0, <2>1, <2>2 DEF Types, Accounts, Signed
  <2> QED BY <2>6, <2>7 DEF Basic
<1>2. CASE AllBusy(t)
  <2>1. /\ trade[t].pc = "idle" /\ trade' = [trade EXCEPT ![t].pc = "none"]
        /\ UNCHANGED <<chain, net, advance, slots, order, refresh, burn>>
    BY <1>2 DEF AllBusy, Comes, Goto
  <2>a. trade' \in [Trades -> Signatures] BY <1>0, <2>1, StepType DEF Types, Steps
  <2>2. Types' BY <1>0, <2>1, <2>a DEF Types
  <2>3. Accounts' BY <1>0, <2>1 DEF Types, Accounts, Signed
  <2> QED BY <2>2, <2>3 DEF Basic
<1>3. ASSUME NEW kind \in {"buy", "sell"}, NEW ok \in BOOLEAN, NEW reached \in BOOLEAN,
             send(t, kind, ok, reached)
      PROVE  Basic'
  <2>1. /\ trade[t].pc = "held" /\ trade' = [trade EXCEPT ![t].pc = "sent"]
        /\ UNCHANGED <<chain, advance, slots, refresh, burn>>
        /\ net' = [net EXCEPT ![t] = "out"] \/ net' = [net EXCEPT ![t] = net[t]]
    BY <1>3 DEF send, Goto
  <2>a. trade' \in [Trades -> Signatures] BY <1>0, <2>1, StepType DEF Types, Steps
  <2>2. Types' BY <1>0, <2>1, <2>a DEF Types
  <2>3. Accounts' BY <1>0, <2>1 DEF Types, Accounts, Signed
  <2> QED BY <2>2, <2>3 DEF Basic
<1>4. CASE NonceRefreshOnDrop(t)
  <2>1. /\ trade[t].pc \in {"held", "sent"} /\ trade' = [trade EXCEPT ![t].pc = "dropped"]
        /\ refresh' = [refresh EXCEPT ![t].pc = "spawned"]
        /\ UNCHANGED <<chain, net, advance, slots, burn>>
    BY <1>4 DEF NonceRefreshOnDrop, Goto, Holding
  <2>a. trade' \in [Trades -> Signatures] BY <1>0, <2>1, StepType DEF Types, Steps
  <2>b. [refresh[t] EXCEPT !.pc = "spawned"] \in Refreshes BY <1>0 DEF Types, Refreshes
  <2>c. refresh' \in [Trades -> Refreshes] BY <1>0, <2>1, <2>b DEF Types
  <2>2. Types' BY <1>0, <2>1, <2>a, <2>c DEF Types
  <2>3. Accounts' BY <1>0, <2>1 DEF Types, Accounts, Signed
  <2> QED BY <2>2, <2>3 DEF Basic
<1> QED BY <1>1, <1>2, <1>3, <1>4 DEF Trading

LEMMA RefreshBasic ==
    ASSUME NEW t \in Trades, Basic, schedule_nonce_refresh(t) PROVE Basic'
<1> USE DEF chainVars, OnlyRefresh, RefreshEnds
<1>0. Types /\ Accounts BY DEF Basic
<1>1. NoRefresh \in Refreshes BY DEF NoRefresh, NoHash, Refreshes
<1>2. refresh \in [Trades -> Refreshes] BY <1>0 DEF Types, Refreshes
<1>3. ASSUME NEW r \in Refreshes, refresh' = [refresh EXCEPT ![t] = r], refresh[t].pc # "off",
             slots' \in [Nonces -> Slots],
             UNCHANGED <<chain, net, advance, trade, order, burn>>
      PROVE  Basic'
  <2>1. refresh' \in [Trades -> Refreshes] BY <1>2, <1>3
  <2>2. Types' BY <1>0, <1>3, <2>1 DEF Types, Refreshes
  <2>3. Accounts' BY <1>0, <1>2, <1>3 DEF Accounts, Signed
  <2> QED BY <2>2, <2>3 DEF Basic
<1>4. CASE RefreshStart(t)
  <2>1. refresh[t].pc = "spawned" /\ UNCHANGED <<slots, chain, net, advance, trade, order, burn>>
    BY <1>4 DEF RefreshStart
  <2>2. trade[t].nonce \in Nonces BY <1>0, <2>1 DEF Accounts, Signed
  <2> DEFINE r == [pc |-> "poll", used |-> slots[trade[t].nonce].hash,
                   epoch |-> slots[trade[t].nonce].epoch, last |-> NoHash, tries |-> 0]
  <2>a. slots[trade[t].nonce].hash \in Nat /\ slots[trade[t].nonce].epoch \in Nat
    BY <1>0, <2>2 DEF Types, Slots
  <2>3. r \in Refreshes BY <2>a DEF NoHash, Refreshes
  <2>4. refresh' = [refresh EXCEPT ![t] = r] BY <1>4 DEF RefreshStart
  <2>5. slots' \in [Nonces -> Slots]
    BY <1>0, <2>1 DEF Types
  <2> HIDE DEF r
  <2> QED BY <1>3, <2>1, <2>3, <2>4, <2>5
<1>5. ASSUME NEW h \in Hashes, RefreshPoll(t, h) PROVE Basic'
  <2>1. h \in Nat BY NoncePoolAssumption DEF Hashes
  <2>2. refresh[t].pc = "poll" /\ UNCHANGED <<slots, chain, net, advance, trade, order, burn>>
    BY <1>5 DEF RefreshPoll
  <2>3. slots' \in [Nonces -> Slots]
    BY <1>0, <2>2 DEF Types
  <2> DEFINE r == refresh[t]
             e == [r EXCEPT !.last = IF h = NoHash THEN @ ELSE h,
                            !.tries = @ + 1,
                            !.pc = IF (h # NoHash /\ h # r.used) \/ r.tries + 1 = RefreshAttempts
                                   THEN "write" ELSE @]
             last == IF h = NoHash THEN r.last ELSE h
             pc == IF (h # NoHash /\ h # r.used) \/ r.tries + 1 = RefreshAttempts
                   THEN "write" ELSE r.pc
  <2>a. r \in Refreshes /\ r.tries + 1 \in Nat BY <1>2 DEF Refreshes
  <2>b. last \in Nat BY <2>1, <2>a DEF Refreshes
  <2>c. pc \in {"off", "spawned", "poll", "write"} BY <2>2
  <2>d. e = [r EXCEPT !.last = last, !.tries = r.tries + 1, !.pc = pc] OBVIOUS
  <2> HIDE DEF last, pc, e, r
  <2>4. e \in Refreshes BY <2>a, <2>b, <2>c, <2>d, RefreshTypes
  <2>5. refresh' = [refresh EXCEPT ![t] = NoRefresh] \/ refresh' = [refresh EXCEPT ![t] = e]
    BY <1>5 DEF RefreshPoll, e, r
  <2> QED BY <1>1, <1>3, <2>2, <2>3, <2>4, <2>5
<1>6. CASE RefreshWrite(t)
  <2>1. /\ refresh[t].pc = "write" /\ refresh' = [refresh EXCEPT ![t] = NoRefresh]
        /\ UNCHANGED <<chain, net, advance, trade, order, burn>>
    BY <1>6 DEF RefreshWrite
  <2>2. refresh[t].last \in Nat BY <1>2 DEF Refreshes
  <2>3. slots' \in [Nonces -> Slots]
    <3>1. slots \in [Nonces -> Slots] /\ trade[t].nonce \in Nonces
      BY <1>0, <2>1 DEF Types, Accounts, Signed
    <3>2. \/ slots' = slots
          \/ slots' = [slots EXCEPT ![trade[t].nonce].hash = refresh[t].last,
                                    ![trade[t].nonce].in_use = FALSE]
      BY <1>6 DEF RefreshWrite
    <3>3. [slots EXCEPT ![trade[t].nonce].hash = refresh[t].last,
                        ![trade[t].nonce].in_use = FALSE] \in [Nonces -> Slots]
      BY <2>2, <3>1, SlotTypes
    <3> QED BY <3>1, <3>2, <3>3
  <2> QED BY <1>1, <1>3, <2>1, <2>3
<1> QED BY <1>4, <1>5, <1>6 DEF schedule_nonce_refresh

LEMMA PushBasic ==
    ASSUME NEW n \in Nonces, NEW h \in Hashes, Basic, on_nonce_account_update(n, h)
    PROVE  Basic'
<1>1. h \in Nat BY NoncePoolAssumption DEF Hashes
<1>2. /\ slots' = [slots EXCEPT ![n].pushed = h, ![n].hash = h,
                                ![n].in_use = @ /\ slots[n].hash = h]
      /\ UNCHANGED <<chain, net, advance, trade, order, refresh, burn>>
  BY DEF on_nonce_account_update, chainVars
<1>3. slots' \in [Nonces -> Slots]
  <2>1. slots \in [Nonces -> Slots] BY DEF Basic, Types
  <2>2. (slots[n].in_use /\ slots[n].hash = h) \in BOOLEAN OBVIOUS
  <2>3. slots' = [slots EXCEPT ![n].pushed = h, ![n].hash = h,
                               ![n].in_use = (slots[n].in_use /\ slots[n].hash = h)]
    BY <1>2
  <2> QED BY <1>1, <2>1, <2>2, <2>3, SlotTypes
<1>4. Types' BY <1>2, <1>3 DEF Basic, Types
<1>5. Accounts' BY <1>2 DEF Basic, Accounts, Signed
<1> QED BY <1>4, <1>5 DEF Basic

LEMMA BurningBasic ==
    ASSUME NEW t \in Trades, Basic, Burning(t) PROVE Basic'
<1> USE DEF OnlyBurn, BurnTo
<1>0. Types /\ Accounts BY DEF Basic
<1>1. /\ UNCHANGED <<chain, net, trade, order, refresh>>
      /\ trade[t].pc = "dropped"
  BY <1>0 DEF Burning, burn_nonce_tx, BurnSend, BurnInvalidate, BurnVerify, Accounts
<1>2. \E b \in {"idle", "first", "advance", "confirm", "again"} \cup Verdicts :
        burn' = [burn EXCEPT ![t] = b]
  BY DEF Burning, burn_nonce_tx, BurnSend, BurnInvalidate, BurnVerify, Verdicts
<1>3. advance' = advance \/ advance' = [advance EXCEPT ![t] = "out"]
  BY DEF Burning, burn_nonce_tx, BurnSend, BurnInvalidate, BurnVerify
<1>4. slots' = slots \/ slots' = [slots EXCEPT ![trade[t].nonce].hash = NoHash]
  BY DEF Burning, burn_nonce_tx, BurnSend, BurnInvalidate, BurnVerify
<1>5. slots' \in [Nonces -> Slots]
  <2>1. slots \in [Nonces -> Slots] /\ trade[t].nonce \in Nonces /\ NoHash \in Nat
    BY <1>0, <1>1 DEF Types, Accounts, Signed, NoHash
  <2>2. [slots EXCEPT ![trade[t].nonce].hash = NoHash] \in [Nonces -> Slots]
    BY <2>1, SlotTypes
  <2> QED BY <1>4, <2>1, <2>2
<1>6. Types' BY <1>0, <1>1, <1>2, <1>3, <1>5 DEF Types, Verdicts
<1>7. Accounts' BY <1>0, <1>1, <1>2, <1>3 DEF Types, Accounts, Signed
<1> QED BY <1>6, <1>7 DEF Basic

LEMMA ChainBasic ==
    ASSUME NEW t \in Trades, Basic, Lands(t) \/ AdvanceLands(t) PROVE Basic'
<1>0. Types /\ Accounts BY DEF Basic
<1>1. /\ UNCHANGED <<slots, trade, refresh, burn>>
      /\ trade[t].nonce \in Nonces /\ trade[t].pc \in {"sent", "dropped"}
      /\ chain' = [chain EXCEPT ![trade[t].nonce] = @ + 1]
      /\ \/ net[t] = "out" /\ net' = [net EXCEPT ![t] = "landed"] /\ UNCHANGED advance
         \/ advance[t] = "out" /\ advance' = [advance EXCEPT ![t] = "landed"] /\ UNCHANGED net
  BY <1>0 DEF Lands, AdvanceLands, CanLand, Accounts, Signed, poolVars
<1>2. Types' BY <1>0, <1>1 DEF Types
<1>3. Accounts' BY <1>0, <1>1 DEF Types, Accounts, Signed
<1> QED BY <1>2, <1>3 DEF Basic

LEMMA BasicStep == Basic /\ [Next]_vars => Basic'
<1> SUFFICES ASSUME Basic, [Next]_vars PROVE Basic' OBVIOUS
<1>1. CASE UNCHANGED vars BY <1>1 DEF vars, Basic, Types, Accounts, Signed
<1>2. ASSUME NEW t \in Trades,
             Trading(t) \/ schedule_nonce_refresh(t) \/ Burning(t) \/ Lands(t) \/ AdvanceLands(t)
      PROVE  Basic'
  BY <1>2, TradingBasic, RefreshBasic, BurningBasic, ChainBasic
<1>3. ASSUME NEW n \in Nonces, NEW h \in Hashes, on_nonce_account_update(n, h) PROVE Basic'
  BY <1>3, PushBasic
<1> QED BY <1>1, <1>2, <1>3 DEF Next

-----------------------------------------------------------------------------
(* Nothing in the wallet is ahead of the chain, and a dead transaction's   *)
(* hash is behind it.                                                      *)

CacheBehind == \A n \in Nonces : slots[n].hash <= chain[n]
SignedBehind == \A t \in Trades : Signed(t) => trade[t].hash <= chain[trade[t].nonce]
ReadBehind == \A t \in Trades : refresh[t].pc \in {"poll", "write"} =>
                                  refresh[t].last <= chain[trade[t].nonce]
DeadBehind == \A t \in Trades : burn[t] = "Dead" => trade[t].hash < chain[trade[t].nonce]

Behind == CacheBehind /\ SignedBehind /\ ReadBehind /\ DeadBehind

LEMMA BehindInit == Init => Behind
BY DEF Init, Behind, CacheBehind, SignedBehind, ReadBehind, DeadBehind, Signed, NoRefresh, NoHash

\* The steps of a trade leave the chain and the verdicts alone.
LEMMA TradingBehind ==
    ASSUME NEW t \in Trades, Basic, Behind, Trading(t) PROVE Behind'
<1> USE DEF chainVars, poolVars
<1>0. Types /\ Accounts BY DEF Basic
<1>1. UNCHANGED <<chain, burn>> BY DEF Trading, acquire_nonce, AllBusy, send, NonceRefreshOnDrop
<1>2. CASE acquire_nonce(t)
  <2>1. PICK n \in Nonces :
          /\ slots' = [slots EXCEPT ![n].in_use = TRUE, ![n].epoch = @ + 1]
          /\ trade' = [trade EXCEPT ![t] = [pc |-> "held", nonce |-> n, hash |-> slots[n].hash]]
    BY <1>2 DEF acquire_nonce
  <2>2. trade[t].pc = "idle" /\ UNCHANGED refresh BY <1>2 DEF acquire_nonce, Comes
  <2>3. \A m \in Nonces : slots'[m].hash = slots[m].hash BY <1>0, <2>1 DEF Types, Slots
  <2>4. \A u \in Trades : u # t => trade'[u] = trade[u] BY <1>0, <2>1 DEF Types
  <2>5. trade'[t].nonce = n /\ trade'[t].hash = slots[n].hash BY <1>0, <2>1 DEF Types
  <2>6. burn[t] = "idle" /\ refresh[t].pc = "off" BY <1>0, <2>2 DEF Accounts, Types, Refreshes
  <2>7. CacheBehind' BY <1>1, <2>3 DEF Behind, CacheBehind
  <2>8. SignedBehind' BY <1>1, <2>4, <2>5 DEF Behind, CacheBehind, SignedBehind, Signed
  <2>9. ReadBehind' BY <1>1, <2>2, <2>4, <2>6 DEF Behind, ReadBehind
  <2>10. DeadBehind' BY <1>1, <2>4, <2>6 DEF Behind, DeadBehind
  <2> QED BY <2>7, <2>8, <2>9, <2>10 DEF Behind
<1>3. ASSUME NEW pc \in Steps, trade' = [trade EXCEPT ![t].pc = pc], UNCHANGED slots,
             \/ UNCHANGED refresh
             \/ refresh' = [refresh EXCEPT ![t].pc = "spawned"],
             Signed(t) \/ pc = "none"
      PROVE  Behind'
  <2>1. \A u \in Trades : trade'[u].nonce = trade[u].nonce /\ trade'[u].hash = trade[u].hash
    BY <1>0, <1>3 DEF Types, Signatures
  <2>2. \A u \in Trades : Signed(u)' => Signed(u)
    BY <1>0, <1>3 DEF Types, Signatures, Signed
  <2>3. \A u \in Trades : refresh'[u].pc \in {"poll", "write"} => refresh'[u] = refresh[u]
    BY <1>0, <1>3 DEF Types, Refreshes
  <2>4. CacheBehind' BY <1>1, <1>3 DEF Behind, CacheBehind
  <2>5. SignedBehind' BY <1>1, <2>1, <2>2 DEF Behind, SignedBehind
  <2>6. ReadBehind' BY <1>1, <2>1, <2>3 DEF Behind, ReadBehind
  <2>7. DeadBehind' BY <1>1, <2>1 DEF Behind, DeadBehind
  <2> QED BY <2>4, <2>5, <2>6, <2>7 DEF Behind
<1>4. CASE AllBusy(t) BY <1>3, <1>4 DEF AllBusy, Goto, Steps
<1>5. ASSUME NEW kind \in {"buy", "sell"}, NEW ok \in BOOLEAN, NEW reached \in BOOLEAN,
             send(t, kind, ok, reached)
      PROVE  Behind'
  <2>1. /\ Signed(t) /\ trade' = [trade EXCEPT ![t].pc = "sent"]
        /\ UNCHANGED <<slots, refresh>>
    BY <1>5 DEF send, Goto, Signed
  <2> QED BY <1>3, <2>1 DEF Steps
<1>6. CASE NonceRefreshOnDrop(t)
  <2>1. /\ Signed(t) /\ trade' = [trade EXCEPT ![t].pc = "dropped"]
        /\ UNCHANGED slots /\ refresh' = [refresh EXCEPT ![t].pc = "spawned"]
    BY <1>6 DEF NonceRefreshOnDrop, Goto, Signed, Holding
  <2> QED BY <1>3, <2>1 DEF Steps
<1> QED BY <1>2, <1>4, <1>5, <1>6 DEF Trading

\* A refresh caches what it read, and it read what the chain held.
LEMMA RefreshBehind ==
    ASSUME NEW t \in Trades, Basic, Behind, schedule_nonce_refresh(t) PROVE Behind'
<1> USE DEF chainVars, OnlyRefresh, RefreshEnds
<1>0. Types /\ Accounts BY DEF Basic
<1>1. UNCHANGED <<chain, trade, burn>>
  BY DEF schedule_nonce_refresh, RefreshStart, RefreshPoll, RefreshWrite
<1>2. SignedBehind' /\ DeadBehind' BY <1>1 DEF Behind, SignedBehind, DeadBehind, Signed
<1>3. \A r : refresh' = [refresh EXCEPT ![t] = r] =>
              refresh'[t] = r /\ \A u \in Trades : u # t => refresh'[u] = refresh[u]
  BY <1>0 DEF Types
<1>4. CASE RefreshStart(t)
  <2>1. refresh[t].pc = "spawned" /\ UNCHANGED slots BY <1>4 DEF RefreshStart
  <2>2. trade[t].nonce \in Nonces /\ chain[trade[t].nonce] \in Nat
    BY <1>0, <2>1 DEF Types, Accounts, Signed
  <2>3. refresh'[t].last = 0 /\ \A u \in Trades : u # t => refresh'[u] = refresh[u]
    BY <1>4, <1>3 DEF RefreshStart, NoHash
  <2>4. CacheBehind' BY <1>1, <2>1 DEF Behind, CacheBehind
  <2>5. ReadBehind' BY <1>1, <2>2, <2>3 DEF Behind, ReadBehind
  <2> QED BY <1>2, <2>4, <2>5 DEF Behind
<1>5. ASSUME NEW h \in Hashes, RefreshPoll(t, h) PROVE Behind'
  <2>1. refresh[t].pc = "poll" /\ UNCHANGED slots BY <1>5 DEF RefreshPoll
  <2>2. trade[t].nonce \in Nonces /\ chain[trade[t].nonce] \in Nat
    BY <1>0, <2>1 DEF Types, Accounts, Signed
  <2>3. h <= chain[trade[t].nonce] BY <1>5, <2>2 DEF RefreshPoll, Readable, NoHash
  <2>4. refresh[t] \in Refreshes BY <1>0 DEF Types
  <2> DEFINE tries == refresh[t].tries + 1
             last == IF h = NoHash THEN refresh[t].last ELSE h
             pc == IF (h # NoHash /\ h # refresh[t].used) \/ tries = RefreshAttempts
                   THEN "write" ELSE refresh[t].pc
             e == [refresh[t] EXCEPT !.last = last, !.tries = tries, !.pc = pc]
  <2>5. refresh' = [refresh EXCEPT ![t] = NoRefresh] \/ refresh' = [refresh EXCEPT ![t] = e]
    BY <1>5 DEF RefreshPoll
  <2>6. /\ refresh'[t].pc = "off" \/ refresh'[t].last \in {refresh[t].last, h}
        /\ \A u \in Trades : u # t => refresh'[u] = refresh[u]
    <3>1. last \in {refresh[t].last, h} OBVIOUS
    <3> HIDE DEF last, tries, pc
    <3>2. e.last = last BY <2>4 DEF Refreshes
    <3> HIDE DEF e
    <3>3. refresh'[t] \in {NoRefresh, e} /\ \A u \in Trades : u # t => refresh'[u] = refresh[u]
      BY <1>3, <2>5
    <3> QED BY <3>1, <3>2, <3>3 DEF NoRefresh
  <2>7. CacheBehind' BY <1>1, <2>1 DEF Behind, CacheBehind
  <2>8. ReadBehind' BY <1>1, <2>1, <2>3, <2>6 DEF Behind, ReadBehind
  <2> QED BY <1>2, <2>7, <2>8 DEF Behind
<1>6. CASE RefreshWrite(t)
  <2>1. refresh[t].pc = "write" BY <1>6 DEF RefreshWrite
  <2>2. trade[t].nonce \in Nonces BY <1>0, <2>1 DEF Accounts, Signed
  <2>3. refresh[t].last <= chain[trade[t].nonce] BY <2>1 DEF Behind, ReadBehind
  <2>4. refresh'[t].pc = "off" /\ \A u \in Trades : u # t => refresh'[u] = refresh[u]
    BY <1>3, <1>6 DEF RefreshWrite, NoRefresh
  <2>5. \A n \in Nonces : slots'[n].hash = slots[n].hash
            \/ (n = trade[t].nonce /\ slots'[n].hash = refresh[t].last)
    BY <1>0, <1>6, <2>2 DEF RefreshWrite, Types, Slots
  <2>6. CacheBehind' BY <1>1, <2>3, <2>5 DEF Behind, CacheBehind
  <2>7. ReadBehind' BY <1>1, <2>4 DEF Behind, ReadBehind
  <2> QED BY <1>2, <2>6, <2>7 DEF Behind
<1> QED BY <1>4, <1>5, <1>6 DEF schedule_nonce_refresh

LEMMA PushBehind ==
    ASSUME NEW n \in Nonces, NEW h \in Hashes, Basic, Behind, on_nonce_account_update(n, h)
    PROVE  Behind'
<1>1. /\ slots' = [slots EXCEPT ![n].pushed = h, ![n].hash = h,
                                ![n].in_use = @ /\ slots[n].hash = h]
      /\ h \in 1 .. chain[n] /\ UNCHANGED <<chain, trade, refresh, burn>>
  BY DEF on_nonce_account_update, chainVars
<1>2. \A m \in Nonces : slots'[m].hash = IF m = n THEN h ELSE slots[m].hash
  BY <1>1 DEF Basic, Types, Slots
<1>3. h <= chain[n]
  <2>1. chain[n] \in Nat BY DEF Basic, Types
  <2> QED BY <1>1, <2>1
<1>4. CacheBehind' BY <1>1, <1>2, <1>3 DEF Behind, CacheBehind
<1>5. SignedBehind' /\ ReadBehind' /\ DeadBehind'
  BY <1>1 DEF Behind, SignedBehind, ReadBehind, DeadBehind, Signed
<1> QED BY <1>4, <1>5 DEF Behind

\* Dead is answered on a tracked transaction whose hash the account has left.
LEMMA DeadRead ==
    ASSUME NEW t \in Trades, Basic, Behind, "lag" \notin Faults, trade[t].pc = "dropped",
           nonce_tx_state(t, "Dead")
    PROVE  trade[t].hash < chain[trade[t].nonce]
<1>1. trade[t].nonce \in Nonces /\ chain[trade[t].nonce] \in Nat /\ trade[t].hash \in Nat
  BY DEF Basic, Types, Accounts, Signed, Signatures
<1>2. trade[t].hash <= chain[trade[t].nonce] BY DEF Behind, SignedBehind, Signed
<1>3. trade[t].hash # chain[trade[t].nonce] BY DEF nonce_tx_state, Readable
<1> QED BY <1>1, <1>2, <1>3

LEMMA BurningBehind ==
    ASSUME NEW t \in Trades, Basic, Behind, "lag" \notin Faults, Burning(t) PROVE Behind'
<1> USE DEF OnlyBurn, BurnTo
<1>0. Types /\ Accounts BY DEF Basic
<1>1. /\ UNCHANGED <<chain, trade, refresh>> /\ trade[t].pc = "dropped"
  BY <1>0 DEF Burning, burn_nonce_tx, BurnSend, BurnInvalidate, BurnVerify, Accounts
<1>2. trade[t].nonce \in Nonces BY <1>0, <1>1 DEF Accounts, Signed
<1>3. \E b : /\ burn' = [burn EXCEPT ![t] = b]
             /\ b = "Dead" => nonce_tx_state(t, "Dead")
  BY DEF Burning, burn_nonce_tx, BurnSend, BurnInvalidate, BurnVerify
<1>4. slots' = slots \/ slots' = [slots EXCEPT ![trade[t].nonce].hash = NoHash]
  BY DEF Burning, burn_nonce_tx, BurnSend, BurnInvalidate, BurnVerify
<1>5. \A n \in Nonces : slots'[n].hash \in {slots[n].hash, 0}
  BY <1>0, <1>2, <1>4 DEF Types, Slots, NoHash
<1>6. \A n \in Nonces : chain[n] \in Nat BY <1>0 DEF Types
<1>7. CacheBehind' BY <1>1, <1>5, <1>6 DEF Behind, CacheBehind
<1>8. SignedBehind' /\ ReadBehind' BY <1>1 DEF Behind, SignedBehind, ReadBehind, Signed
<1>9. DeadBehind'
  <2>1. burn'[t] = "Dead" => nonce_tx_state(t, "Dead") BY <1>0, <1>3 DEF Types
  <2>2. \A u \in Trades : u # t => burn'[u] = burn[u] BY <1>0, <1>3 DEF Types
  <2>3. burn'[t] = "Dead" => trade[t].hash < chain[trade[t].nonce] BY <1>1, <2>1, DeadRead
  <2> QED BY <1>1, <2>2, <2>3 DEF Behind, DeadBehind
<1> QED BY <1>7, <1>8, <1>9 DEF Behind

\* The chain only moves on.
LEMMA ChainBehind ==
    ASSUME NEW t \in Trades, Basic, Behind, Lands(t) \/ AdvanceLands(t) PROVE Behind'
<1>0. Types /\ Accounts BY DEF Basic
<1>1. /\ UNCHANGED <<slots, trade, refresh, burn>> /\ trade[t].nonce \in Nonces
      /\ chain' = [chain EXCEPT ![trade[t].nonce] = @ + 1]
  BY <1>0 DEF Lands, AdvanceLands, CanLand, Accounts, Signed, poolVars
<1>2. \A n \in Nonces : chain[n] \in Nat /\ chain'[n] \in Nat /\ chain[n] <= chain'[n]
  BY <1>0, <1>1 DEF Types
<1>3. CacheBehind'
  <2>1. \A n \in Nonces : slots[n].hash \in Nat BY <1>0 DEF Types, Slots
  <2> QED BY <1>1, <1>2, <2>1 DEF Behind, CacheBehind
<1>4. \A u \in Trades : Signed(u) => trade[u].nonce \in Nonces /\ trade[u].hash \in Nat
  BY <1>0 DEF Types, Accounts, Signatures
<1>5. \A u \in Trades : /\ refresh[u].pc # "off" => Signed(u)
                        /\ burn[u] # "idle" => Signed(u)
                        /\ refresh[u].last \in Nat
  BY <1>0 DEF Types, Accounts, Signed, Refreshes
<1>6. SignedBehind' BY <1>1, <1>2, <1>4 DEF Behind, SignedBehind, Signed
<1>7. ReadBehind' BY <1>1, <1>2, <1>4, <1>5 DEF Behind, ReadBehind
<1>8. DeadBehind' BY <1>1, <1>2, <1>4, <1>5 DEF Behind, DeadBehind
<1> QED BY <1>3, <1>6, <1>7, <1>8 DEF Behind

LEMMA BehindStep ==
    ASSUME "lag" \notin Faults, Basic, Behind, [Next]_vars PROVE Behind'
<1>1. CASE UNCHANGED vars
  BY <1>1 DEF vars, Behind, CacheBehind, SignedBehind, ReadBehind, DeadBehind, Signed
<1>2. ASSUME NEW t \in Trades,
             Trading(t) \/ schedule_nonce_refresh(t) \/ Burning(t) \/ Lands(t) \/ AdvanceLands(t)
      PROVE  Behind'
  BY <1>2, TradingBehind, RefreshBehind, BurningBehind, ChainBehind
<1>3. ASSUME NEW n \in Nonces, NEW h \in Hashes, on_nonce_account_update(n, h) PROVE Behind'
  BY <1>3, PushBehind
<1> QED BY <1>1, <1>2, <1>3 DEF Next

\* When a read is never behind the feed, Dead is a proof, whatever the feed and
\* the burns do and for every pool, attempt bound and index size: the callers of
\* burn_nonce_tx may send the trade again.
THEOREM DeadCorrect == "lag" \notin Faults => (Spec => []DeadIsProof)
<1> SUFFICES ASSUME "lag" \notin Faults PROVE Spec => []DeadIsProof OBVIOUS
<1>1. Init => Basic /\ Behind BY BasicInit, BehindInit
<1>2. Basic /\ Behind /\ [Next]_vars => (Basic /\ Behind)' BY BasicStep, BehindStep
<1>3. Basic /\ Behind => DeadIsProof
  <2> SUFFICES ASSUME Basic, Behind, NEW t \in Trades, burn[t] = "Dead" PROVE ~CanLand(t)
    BY DEF DeadIsProof
  <2>1. trade[t].hash < chain[trade[t].nonce] BY DEF Behind, DeadBehind
  <2>2. trade[t].hash \in Nat /\ chain[trade[t].nonce] \in Nat
    BY DEF Basic, Types, Accounts, Signed, Signatures
  <2> QED BY <2>1, <2>2 DEF CanLand
<1> QED BY <1>1, <1>2, <1>3, PTL DEF Spec

-----------------------------------------------------------------------------
(* The use of an account passes from the trade to its refresh task, until  *)
(* that task has taken the epoch; a task of an earlier use has an earlier  *)
(* epoch, so that its write leaves the slot alone.                         *)

Owner(t) == Holding(t) \/ refresh[t].pc = "spawned"
Polls(t) == refresh[t].pc \in {"poll", "write"}

OwnerInUse == \A t \in Trades : Owner(t) => slots[trade[t].nonce].in_use = TRUE
OwnerHash == \A t \in Trades : Owner(t) => slots[trade[t].nonce].hash = trade[t].hash
OneOwner == \A t, u \in Trades :
    (Owner(t) /\ Owner(u) /\ trade[t].nonce = trade[u].nonce) => t = u
EpochKept == \A u \in Trades : Polls(u) => refresh[u].epoch <= slots[trade[u].nonce].epoch
EpochPassed == \A t, u \in Trades :
    (Owner(t) /\ Polls(u) /\ trade[t].nonce = trade[u].nonce) =>
        refresh[u].epoch < slots[trade[u].nonce].epoch

Exclusive == OwnerInUse /\ OwnerHash /\ OneOwner /\ EpochKept /\ EpochPassed

LEMMA ExclusiveInit == Init => Exclusive
BY DEF Init, Exclusive, OwnerInUse, OwnerHash, OneOwner, EpochKept, EpochPassed, Owner, Polls,
       Holding, NoRefresh

\* An owner or a poll has an account, and nobody is both.
LEMMA OwnerAccount ==
    ASSUME Basic, NEW t \in Trades
    PROVE  /\ Owner(t) \/ Polls(t) => trade[t].nonce \in Nonces
           /\ ~(Owner(t) /\ Polls(t))
           /\ trade[t].pc \in {"idle", "none"} => ~Owner(t) /\ ~Polls(t)
BY DEF Basic, Accounts, Signed, Owner, Polls, Holding

\* A step that touches no slot and makes no owner and no poll keeps it all.
LEMMA ExclusiveKept ==
    ASSUME Exclusive, UNCHANGED slots,
           \A u \in Trades :
              /\ Owner(u)' => /\ Owner(u) /\ trade'[u].nonce = trade[u].nonce
                               /\ trade'[u].hash = trade[u].hash
              /\ Polls(u)' => /\ Polls(u) /\ trade'[u].nonce = trade[u].nonce
                               /\ refresh'[u].epoch = refresh[u].epoch
    PROVE  Exclusive'
<1>1. OwnerInUse' /\ OwnerHash' BY DEF Exclusive, OwnerInUse, OwnerHash
<1>2. OneOwner' BY DEF Exclusive, OneOwner
<1>3. EpochKept' BY DEF Exclusive, EpochKept
<1>4. EpochPassed' BY DEF Exclusive, EpochPassed
<1> QED BY <1>1, <1>2, <1>3, <1>4 DEF Exclusive

\* An account that nobody owns may be taken, with a new epoch.
LEMMA AcquireExclusive ==
    ASSUME NEW t \in Trades, Basic, Exclusive, acquire_nonce(t) PROVE Exclusive'
<1>0. Types /\ Accounts BY DEF Basic
<1>1. PICK n \in Nonces :
        /\ Free(n)
        /\ slots' = [slots EXCEPT ![n].in_use = TRUE, ![n].epoch = @ + 1]
        /\ trade' = [trade EXCEPT ![t] = [pc |-> "held", nonce |-> n, hash |-> slots[n].hash]]
  BY DEF acquire_nonce
<1>2. trade[t].pc = "idle" /\ UNCHANGED refresh BY DEF acquire_nonce, Comes
<1>3. ~Owner(t) /\ ~Polls(t) BY <1>2, OwnerAccount
<1>4. \A u \in Trades : u # t => trade'[u] = trade[u] BY <1>0, <1>1 DEF Types
<1>5. trade'[t].nonce = n /\ trade'[t].hash = slots[n].hash BY <1>0, <1>1 DEF Types
<1>6. \A u \in Trades : u # t => (Owner(u)' <=> Owner(u)) /\ (Polls(u)' <=> Polls(u))
  BY <1>2, <1>4 DEF Owner, Polls, Holding
<1>7. ~Polls(t)' BY <1>2, <1>3 DEF Polls
<1>8. \A u \in Trades : Owner(u) => trade[u].nonce # n
  <2>1. slots[n].in_use # TRUE BY <1>1 DEF Free
  <2> QED BY <2>1 DEF Exclusive, OwnerInUse
<1>9. \A m \in Nonces : slots'[m].hash = slots[m].hash BY <1>0, <1>1 DEF Types, Slots
<1>10. slots'[n].in_use = TRUE /\ \A m \in Nonces : m # n => slots'[m] = slots[m]
  BY <1>0, <1>1 DEF Types, Slots
<1>11. slots[n].epoch \in Nat /\ slots'[n].epoch = slots[n].epoch + 1
  BY <1>0, <1>1 DEF Types, Slots
<1>12. \A u \in Trades : refresh[u].epoch \in Nat BY <1>0 DEF Types, Refreshes
<1>13. \A u \in Trades : Owner(u) \/ Polls(u) => trade[u].nonce \in Nonces BY OwnerAccount
<1>14. OwnerInUse' BY <1>4, <1>5, <1>6, <1>8, <1>10, <1>13 DEF Exclusive, OwnerInUse
<1>15. OwnerHash' BY <1>4, <1>5, <1>6, <1>9, <1>13 DEF Exclusive, OwnerHash
<1>16. OneOwner' BY <1>4, <1>5, <1>6, <1>8 DEF Exclusive, OneOwner
<1>17. ASSUME NEW u \in Trades, Polls(u)'
       PROVE  /\ refresh'[u].epoch <= slots'[trade'[u].nonce].epoch
              /\ trade'[u].nonce = n => refresh'[u].epoch < slots'[n].epoch
  <2>1. Polls(u) /\ u # t /\ trade'[u] = trade[u] /\ refresh'[u] = refresh[u]
    BY <1>2, <1>4, <1>6, <1>7, <1>17
  <2>2. refresh[u].epoch <= slots[trade[u].nonce].epoch BY <2>1 DEF Exclusive, EpochKept
  <2>3. trade[u].nonce \in Nonces BY <1>13, <2>1
  <2>4. CASE trade[u].nonce = n BY <1>11, <1>12, <2>1, <2>2, <2>4
  <2>5. CASE trade[u].nonce # n BY <1>10, <2>1, <2>2, <2>3, <2>5
  <2> QED BY <2>4, <2>5
<1>18. EpochKept' BY <1>17 DEF EpochKept
<1>19. EpochPassed'
  <2> SUFFICES ASSUME NEW v \in Trades, NEW u \in Trades, Owner(v)', Polls(u)',
                      trade'[v].nonce = trade'[u].nonce
               PROVE  refresh'[u].epoch < slots'[trade'[u].nonce].epoch
    BY DEF EpochPassed
  <2>1. CASE trade'[u].nonce = n BY <1>17, <2>1
  <2>2. CASE trade'[u].nonce # n
    <3>1. v # t /\ u # t BY <1>5, <1>7, <2>2
    <3>2. Owner(v) /\ Polls(u) /\ trade'[u] = trade[u] /\ trade'[v] = trade[v]
      BY <1>4, <1>6, <3>1
    <3>3. refresh[u].epoch < slots[trade[u].nonce].epoch
      BY <3>2 DEF Exclusive, EpochPassed
    <3> QED BY <1>2, <1>10, <1>13, <2>2, <3>2, <3>3
  <2> QED BY <2>1, <2>2
<1> QED BY <1>14, <1>15, <1>16, <1>18, <1>19 DEF Exclusive

LEMMA TradingExclusive ==
    ASSUME NEW t \in Trades, Basic, Exclusive, Trading(t) PROVE Exclusive'
<1> USE DEF chainVars, poolVars
<1>0. Types /\ Accounts BY DEF Basic
<1>1. ASSUME NEW pc \in Steps, trade' = [trade EXCEPT ![t].pc = pc], UNCHANGED slots,
             \/ UNCHANGED refresh /\ (pc = "sent" => Holding(t)) /\ pc # "held"
             \/ refresh' = [refresh EXCEPT ![t].pc = "spawned"] /\ Holding(t)
      PROVE  Exclusive'
  <2>1. \A u \in Trades : trade'[u].nonce = trade[u].nonce /\ trade'[u].hash = trade[u].hash
    BY <1>0, <1>1 DEF Types, Signatures
  <2>2. \A u \in Trades : u # t => trade'[u] = trade[u] /\ refresh'[u] = refresh[u]
    BY <1>0, <1>1 DEF Types
  <2>3. trade'[t].pc = pc BY <1>0, <1>1 DEF Types, Signatures
  <2>4. refresh'[t] = refresh[t] \/ (refresh'[t].pc = "spawned" /\ Holding(t))
    BY <1>0, <1>1 DEF Types, Refreshes
  <2>5. \A u \in Trades : Owner(u)' => Owner(u)
    BY <1>1, <2>2, <2>3, <2>4 DEF Owner, Holding
  <2>6. \A u \in Trades : Polls(u)' => Polls(u) /\ refresh'[u].epoch = refresh[u].epoch
    BY <2>2, <2>4 DEF Polls
  <2> QED BY <1>1, <2>1, <2>5, <2>6, ExclusiveKept
<1>2. CASE acquire_nonce(t) BY <1>2, AcquireExclusive
<1>3. CASE AllBusy(t) BY <1>1, <1>3 DEF AllBusy, Goto, Steps
<1>4. ASSUME NEW kind \in {"buy", "sell"}, NEW ok \in BOOLEAN, NEW reached \in BOOLEAN,
             send(t, kind, ok, reached)
      PROVE  Exclusive'
  <2>1. /\ Holding(t) /\ trade' = [trade EXCEPT ![t].pc = "sent"]
        /\ UNCHANGED <<slots, refresh>>
    BY <1>4 DEF send, Goto, Holding
  <2> QED BY <1>1, <2>1 DEF Steps
<1>5. CASE NonceRefreshOnDrop(t)
  <2>1. /\ Holding(t) /\ trade' = [trade EXCEPT ![t].pc = "dropped"]
        /\ UNCHANGED slots /\ refresh' = [refresh EXCEPT ![t].pc = "spawned"]
    BY <1>5 DEF NonceRefreshOnDrop, Goto
  <2> QED BY <1>1, <2>1 DEF Steps
<1> QED BY <1>2, <1>3, <1>4, <1>5 DEF Trading

\* The task takes the epoch of its own trade's use; its write frees a slot only
\* when nobody has taken it since.
LEMMA RefreshExclusive ==
    ASSUME NEW t \in Trades, Basic, Exclusive, schedule_nonce_refresh(t) PROVE Exclusive'
<1> USE DEF chainVars, OnlyRefresh, RefreshEnds
<1>0. Types /\ Accounts BY DEF Basic
<1>1. UNCHANGED trade BY DEF schedule_nonce_refresh, RefreshStart, RefreshPoll, RefreshWrite
<1>2. \A r : refresh' = [refresh EXCEPT ![t] = r] =>
              refresh'[t] = r /\ \A u \in Trades : u # t => refresh'[u] = refresh[u]
  BY <1>0 DEF Types
<1>3. CASE RefreshStart(t)
  <2>1. refresh[t].pc = "spawned" /\ UNCHANGED slots BY <1>3 DEF RefreshStart
  <2>2. /\ refresh'[t].pc = "poll" /\ refresh'[t].epoch = slots[trade[t].nonce].epoch
        /\ \A u \in Trades : u # t => refresh'[u] = refresh[u]
    BY <1>2, <1>3 DEF RefreshStart
  <2>3. trade[t].nonce \in Nonces /\ trade[t].pc = "dropped"
    BY <1>0, <2>1 DEF Accounts, Signed
  <2>4. slots[trade[t].nonce].epoch \in Nat BY <1>0, <2>3 DEF Types, Slots
  <2>5. Owner(t) /\ ~Owner(t)' BY <1>1, <2>1, <2>2, <2>3 DEF Owner, Holding
  <2>6. \A u \in Trades : u # t => (Owner(u)' <=> Owner(u)) /\ (Polls(u)' <=> Polls(u))
    BY <1>1, <2>2 DEF Owner, Polls, Holding
  <2>7. OwnerInUse' BY <1>1, <2>1, <2>5, <2>6 DEF Exclusive, OwnerInUse
  <2>8. OwnerHash' BY <1>1, <2>1, <2>5, <2>6 DEF Exclusive, OwnerHash
  <2>9. OneOwner' BY <1>1, <2>5, <2>6 DEF Exclusive, OneOwner
  <2>10. EpochKept' BY <1>1, <2>1, <2>2, <2>4, <2>6 DEF Exclusive, EpochKept
  <2>11. EpochPassed'
    <3> SUFFICES ASSUME NEW v \in Trades, NEW u \in Trades, Owner(v)', Polls(u)',
                        trade'[v].nonce = trade'[u].nonce
                 PROVE  refresh'[u].epoch < slots'[trade'[u].nonce].epoch
      BY DEF EpochPassed
    <3>1. v # t /\ Owner(v) BY <2>5, <2>6
    <3>2. u # t BY <1>1, <2>5, <3>1 DEF Exclusive, OneOwner
    <3> QED BY <1>1, <2>1, <2>2, <2>6, <3>1, <3>2 DEF Exclusive, EpochPassed
  <2> QED BY <2>7, <2>8, <2>9, <2>10, <2>11 DEF Exclusive
<1>4. ASSUME NEW h \in Hashes, RefreshPoll(t, h) PROVE Exclusive'
  <2>1. refresh[t].pc = "poll" /\ UNCHANGED slots BY <1>4 DEF RefreshPoll
  <2> DEFINE tries == refresh[t].tries + 1
             last == IF h = NoHash THEN refresh[t].last ELSE h
             pc == IF (h # NoHash /\ h # refresh[t].used) \/ tries = RefreshAttempts
                   THEN "write" ELSE refresh[t].pc
             e == [refresh[t] EXCEPT !.last = last, !.tries = tries, !.pc = pc]
  <2>2. refresh' = [refresh EXCEPT ![t] = NoRefresh] \/ refresh' = [refresh EXCEPT ![t] = e]
    BY <1>4 DEF RefreshPoll
  <2>3. pc \in {"poll", "write"} BY <2>1
  <2> HIDE DEF tries, last, pc
  <2>4. refresh[t] \in Refreshes BY <1>0 DEF Types
  <2>5. e.epoch = refresh[t].epoch /\ e.pc = pc BY <2>4 DEF Refreshes
  <2> HIDE DEF e
  <2>6. refresh'[t] \in {NoRefresh, e} /\ \A u \in Trades : u # t => refresh'[u] = refresh[u]
    BY <1>2, <2>2
  <2>7. Polls(t) /\ refresh'[t].pc # "spawned" BY <2>1, <2>3, <2>5, <2>6 DEF Polls, NoRefresh
  <2>8. Polls(t)' => refresh'[t].epoch = refresh[t].epoch
    BY <2>5, <2>6 DEF Polls, NoRefresh
  <2>9. \A u \in Trades : Owner(u)' => Owner(u) BY <1>1, <2>6, <2>7 DEF Owner, Holding
  <2>10. \A u \in Trades : Polls(u)' => Polls(u) /\ refresh'[u].epoch = refresh[u].epoch
    BY <2>6, <2>7, <2>8 DEF Polls
  <2> QED BY <1>1, <2>1, <2>9, <2>10, ExclusiveKept
<1>5. CASE RefreshWrite(t)
  <2>1. refresh[t].pc = "write" BY <1>5 DEF RefreshWrite
  <2>2. refresh'[t] = NoRefresh /\ \A u \in Trades : u # t => refresh'[u] = refresh[u]
    BY <1>2, <1>5 DEF RefreshWrite
  <2>3. Polls(t) /\ ~Polls(t)' /\ refresh'[t].pc # "spawned"
    BY <2>1, <2>2 DEF Polls, NoRefresh
  <2>4. \A u \in Trades : Owner(u)' => Owner(u) BY <1>1, <2>2, <2>3 DEF Owner, Holding
  <2>5. \A u \in Trades : Polls(u)' => Polls(u) /\ refresh'[u] = refresh[u]
    BY <2>2, <2>3 DEF Polls
  <2>6. CASE UNCHANGED slots BY <1>1, <2>4, <2>5, <2>6, ExclusiveKept
  <2>7. CASE Ours(t) /\ slots' = [slots EXCEPT ![trade[t].nonce].hash = refresh[t].last,
                                              ![trade[t].nonce].in_use = FALSE]
    <3>1. trade[t].nonce \in Nonces BY <2>3, OwnerAccount
    <3>2. slots[trade[t].nonce].epoch \in Nat BY <1>0, <3>1 DEF Types, Slots
    <3>3. \A u \in Trades : Owner(u) => trade[u].nonce # trade[t].nonce
      BY <2>3, <2>7, <3>2 DEF Ours, Exclusive, EpochPassed
    <3>4. \A n \in Nonces : n # trade[t].nonce => slots'[n] = slots[n]
      BY <1>0, <2>7 DEF Types
    <3>5. \A n \in Nonces : slots'[n].epoch = slots[n].epoch
      BY <1>0, <2>7 DEF Types, Slots
    <3>6. \A u \in Trades : Owner(u) \/ Polls(u) => trade[u].nonce \in Nonces BY OwnerAccount
    <3>7. OwnerInUse' /\ OwnerHash'
      BY <1>1, <2>4, <3>3, <3>4, <3>6 DEF Exclusive, OwnerInUse, OwnerHash
    <3>8. OneOwner' BY <1>1, <2>4 DEF Exclusive, OneOwner
    <3>9. EpochKept' BY <1>1, <2>5, <3>5, <3>6 DEF Exclusive, EpochKept
    <3>10. EpochPassed' BY <1>1, <2>4, <2>5, <3>5, <3>6 DEF Exclusive, EpochPassed
    <3> QED BY <3>7, <3>8, <3>9, <3>10 DEF Exclusive
  <2> QED BY <1>5, <2>6, <2>7 DEF RefreshWrite
<1> QED BY <1>3, <1>4, <1>5 DEF schedule_nonce_refresh

\* A timely update shows an owner's slot its own hash, which changes nothing.
LEMMA PushExclusive ==
    ASSUME NEW n \in Nonces, NEW h \in Hashes, Faults \subseteq {"lag"}, Basic, Exclusive,
           on_nonce_account_update(n, h)
    PROVE  Exclusive'
<1>0. Types /\ Accounts BY DEF Basic
<1>1. /\ slots' = [slots EXCEPT ![n].pushed = h, ![n].hash = h,
                                ![n].in_use = @ /\ slots[n].hash = h]
      /\ Prompt(n, h) /\ UNCHANGED <<trade, refresh>>
  BY DEF on_nonce_account_update, chainVars
<1>2. h \in Nat /\ slots[n].hash \in Nat BY <1>0, NoncePoolAssumption DEF Hashes, Types, Slots
<1>3. ASSUME NEW t \in Trades, Owner(t), trade[t].nonce = n PROVE slots[n].hash = h
  <2>1. Holding(t) BY <1>1, <1>3 DEF Prompt, Starting, Owner
  <2>2. slots[n].hash = trade[t].hash BY <1>3 DEF Exclusive, OwnerHash
  <2>3. h >= slots[n].hash /\ ~(h > trade[t].hash) BY <1>1, <1>3, <2>1 DEF Prompt
  <2> QED BY <1>2, <2>2, <2>3
<1>4. \A m \in Nonces : m # n => slots'[m] = slots[m] BY <1>0, <1>1 DEF Types
<1>5. slots'[n].hash = h /\ (slots[n].hash = h /\ slots[n].in_use = TRUE => slots'[n].in_use = TRUE)
  BY <1>0, <1>1 DEF Types, Slots
<1>6. \A m \in Nonces : slots'[m].epoch = slots[m].epoch BY <1>0, <1>1 DEF Types, Slots
<1>7. \A u \in Trades : (Owner(u)' <=> Owner(u)) /\ (Polls(u)' <=> Polls(u))
  BY <1>1 DEF Owner, Polls, Holding
<1>8. \A u \in Trades : Owner(u) \/ Polls(u) => trade[u].nonce \in Nonces BY OwnerAccount
<1>9. OwnerInUse'
  BY <1>1, <1>3, <1>4, <1>5, <1>7, <1>8 DEF Exclusive, OwnerInUse
<1>10. OwnerHash'
  <2> SUFFICES ASSUME NEW u \in Trades, Owner(u) PROVE slots'[trade[u].nonce].hash = trade[u].hash
    BY <1>1, <1>7 DEF OwnerHash
  <2>1. slots[trade[u].nonce].hash = trade[u].hash BY DEF Exclusive, OwnerHash
  <2>2. CASE trade[u].nonce = n BY <1>3, <1>5, <2>1, <2>2
  <2>3. CASE trade[u].nonce # n BY <1>4, <1>8, <2>1, <2>3
  <2> QED BY <2>2, <2>3
<1>11. OneOwner' BY <1>1, <1>7 DEF Exclusive, OneOwner
<1>12. EpochKept' BY <1>1, <1>6, <1>7, <1>8 DEF Exclusive, EpochKept
<1>13. EpochPassed' BY <1>1, <1>6, <1>7, <1>8 DEF Exclusive, EpochPassed
<1> QED BY <1>9, <1>10, <1>11, <1>12, <1>13 DEF Exclusive

\* A timely burn empties the cache of an account nobody owns.
LEMMA BurningExclusive ==
    ASSUME NEW t \in Trades, Faults \subseteq {"lag"}, Basic, Exclusive, Burning(t)
    PROVE  Exclusive'
<1> USE DEF OnlyBurn
<1>0. Types /\ Accounts BY DEF Basic
<1>1. UNCHANGED <<trade, refresh>>
  BY DEF Burning, burn_nonce_tx, BurnSend, BurnInvalidate, BurnVerify
<1>2. \A u \in Trades : (Owner(u)' <=> Owner(u)) /\ (Polls(u)' <=> Polls(u))
  BY <1>1 DEF Owner, Polls, Holding
<1>3. CASE UNCHANGED slots BY <1>1, <1>2, <1>3, ExclusiveKept
<1>4. CASE BurnInvalidate(t)
  <2>1. /\ slots' = [slots EXCEPT ![trade[t].nonce].hash = NoHash]
        /\ \A u \in Trades : Holding(u) => trade[u].nonce # trade[t].nonce
        /\ ~Starting(trade[t].nonce)
    BY <1>4 DEF BurnInvalidate
  <2>2. \A u \in Trades : Owner(u) => trade[u].nonce # trade[t].nonce
    BY <2>1 DEF Owner, Starting
  <2>3. \A m \in Nonces : m # trade[t].nonce => slots'[m] = slots[m] BY <1>0, <2>1 DEF Types
  <2>4. \A m \in Nonces : slots'[m].epoch = slots[m].epoch BY <1>0, <2>1 DEF Types, Slots
  <2>5. \A u \in Trades : Owner(u) \/ Polls(u) => trade[u].nonce \in Nonces BY OwnerAccount
  <2>6. OwnerInUse' /\ OwnerHash'
    BY <1>1, <1>2, <2>2, <2>3, <2>5 DEF Exclusive, OwnerInUse, OwnerHash
  <2>7. OneOwner' BY <1>1, <1>2 DEF Exclusive, OneOwner
  <2>8. EpochKept' BY <1>1, <1>2, <2>4, <2>5 DEF Exclusive, EpochKept
  <2>9. EpochPassed' BY <1>1, <1>2, <2>4, <2>5 DEF Exclusive, EpochPassed
  <2> QED BY <2>6, <2>7, <2>8, <2>9 DEF Exclusive
<1> QED BY <1>3, <1>4 DEF Burning, burn_nonce_tx, BurnSend, BurnVerify

LEMMA ExclusiveStep ==
    ASSUME Faults \subseteq {"lag"}, Basic, Exclusive, [Next]_vars PROVE Exclusive'
<1>1. ASSUME UNCHANGED <<slots, trade, refresh>> PROVE Exclusive'
  <2>1. \A u \in Trades : (Owner(u)' <=> Owner(u)) /\ (Polls(u)' <=> Polls(u))
    BY <1>1 DEF Owner, Polls, Holding
  <2> QED BY <1>1, <2>1, ExclusiveKept
<1>2. CASE UNCHANGED vars BY <1>1, <1>2 DEF vars
<1>3. ASSUME NEW t \in Trades, Lands(t) \/ AdvanceLands(t) PROVE Exclusive'
  BY <1>1, <1>3 DEF Lands, AdvanceLands, poolVars
<1>4. ASSUME NEW t \in Trades, Trading(t) \/ schedule_nonce_refresh(t) \/ Burning(t)
      PROVE  Exclusive'
  BY <1>4, TradingExclusive, RefreshExclusive, BurningExclusive
<1>5. ASSUME NEW n \in Nonces, NEW h \in Hashes, on_nonce_account_update(n, h)
      PROVE  Exclusive'
  BY <1>5, PushExclusive
<1> QED BY <1>2, <1>3, <1>4, <1>5 DEF Next

\* When updates and burns are timely, two trades never sign over one hash of one
\* account, for every pool and although reads may lag: the epoch keeps a refresh
\* task of an earlier use from freeing a slot that is in use again.
THEOREM AccountExclusive == Faults \subseteq {"lag"} => (Spec => []NoSharedHash)
<1> SUFFICES ASSUME Faults \subseteq {"lag"} PROVE Spec => []NoSharedHash OBVIOUS
<1>1. Init => Basic /\ Exclusive BY BasicInit, ExclusiveInit
<1>2. Basic /\ Exclusive /\ [Next]_vars => (Basic /\ Exclusive)' BY BasicStep, ExclusiveStep
<1>3. Exclusive => NoSharedHash
  BY DEF Exclusive, OneOwner, Owner, NoSharedHash
<1> QED BY <1>1, <1>2, <1>3, PTL DEF Spec

-----------------------------------------------------------------------------
(* What a refresh task read is no older than the hash it began with, and as *)
(* long as the slot is in its use the cache holds that hash, or none.       *)

UsedBehind == \A t \in Trades : Polls(t) => refresh[t].used <= chain[trade[t].nonce]
LastForward == \A t \in Trades : Polls(t) =>
                  refresh[t].last = NoHash \/ refresh[t].used <= refresh[t].last
UseHash == \A t \in Trades :
              (Polls(t) /\ slots[trade[t].nonce].in_use = TRUE
                        /\ slots[trade[t].nonce].epoch = refresh[t].epoch)
              => slots[trade[t].nonce].hash \in {refresh[t].used, NoHash}

Forward == EpochKept /\ UsedBehind /\ LastForward /\ UseHash

LEMMA ForwardInit == Init => Forward
BY DEF Init, Forward, EpochKept, UsedBehind, LastForward, UseHash, Polls, NoRefresh

\* A step keeps Forward when no task begins to poll or reads, the chain does not
\* go back, and every slot in use under the same epoch keeps its hash or loses it.
LEMMA ForwardKept ==
    ASSUME Basic, Forward,
           \A u \in Trades : Polls(u)' => /\ Polls(u) /\ refresh'[u] = refresh[u]
                                          /\ trade'[u].nonce = trade[u].nonce,
           \A n \in Nonces :
              /\ chain'[n] \in Nat /\ chain[n] <= chain'[n]
              /\ slots'[n].epoch \in Nat /\ slots[n].epoch <= slots'[n].epoch
              /\ slots'[n].in_use = TRUE /\ slots'[n].epoch = slots[n].epoch
                 => slots[n].in_use = TRUE /\ slots'[n].hash \in {slots[n].hash, NoHash}
    PROVE  Forward'
<1>0. Types /\ Accounts BY DEF Basic
<1>1. \A u \in Trades : Polls(u) => trade[u].nonce \in Nonces BY OwnerAccount
<1>2. \A u \in Trades : refresh[u].epoch \in Nat /\ refresh[u].used \in Nat
  BY <1>0 DEF Types, Refreshes
<1>3. \A n \in Nonces : slots[n].epoch \in Nat /\ chain[n] \in Nat BY <1>0 DEF Types, Slots
<1>4. EpochKept' BY <1>1, <1>2, <1>3 DEF Forward, EpochKept
<1>5. UsedBehind' BY <1>1, <1>2, <1>3 DEF Forward, UsedBehind
<1>6. LastForward' BY DEF Forward, LastForward
<1>7. UseHash'
  <2> SUFFICES ASSUME NEW u \in Trades, Polls(u)', slots'[trade'[u].nonce].in_use = TRUE,
                      slots'[trade'[u].nonce].epoch = refresh'[u].epoch
               PROVE  slots'[trade'[u].nonce].hash \in {refresh'[u].used, NoHash}
    BY DEF UseHash
  <2>1. /\ Polls(u) /\ refresh'[u] = refresh[u] /\ trade'[u].nonce = trade[u].nonce
        /\ trade[u].nonce \in Nonces
    BY <1>1
  <2>2. slots[trade[u].nonce].epoch = refresh[u].epoch
    BY <1>2, <1>3, <2>1 DEF Forward, EpochKept
  <2>3. /\ slots[trade[u].nonce].in_use = TRUE
        /\ slots'[trade[u].nonce].hash \in {slots[trade[u].nonce].hash, NoHash}
    BY <2>1, <2>2
  <2> QED BY <2>1, <2>2, <2>3 DEF Forward, UseHash
<1> QED BY <1>4, <1>5, <1>6, <1>7 DEF Forward

LEMMA TradingForward ==
    ASSUME NEW t \in Trades, Basic, Forward, Trading(t) PROVE Forward'
<1> USE DEF chainVars, poolVars
<1>0. Types /\ Accounts BY DEF Basic
<1>1. UNCHANGED chain BY DEF Trading, acquire_nonce, AllBusy, send, NonceRefreshOnDrop
<1>2. \A n \in Nonces : chain[n] \in Nat /\ slots[n].epoch \in Nat BY <1>0 DEF Types, Slots
<1>3. CASE acquire_nonce(t)
  <2>1. PICK n \in Nonces :
          /\ slots' = [slots EXCEPT ![n].in_use = TRUE, ![n].epoch = @ + 1]
          /\ trade' = [trade EXCEPT ![t] = [pc |-> "held", nonce |-> n, hash |-> slots[n].hash]]
    BY <1>3 DEF acquire_nonce
  <2>2. trade[t].pc = "idle" /\ UNCHANGED refresh BY <1>3 DEF acquire_nonce, Comes
  <2>3. ~Polls(t) BY <1>0, <2>2 DEF Accounts, Polls
  <2>4. \A u \in Trades : u # t => trade'[u] = trade[u] BY <1>0, <2>1 DEF Types
  <2>5. \A u \in Trades : Polls(u)' => /\ Polls(u) /\ refresh'[u] = refresh[u]
                                       /\ trade'[u].nonce = trade[u].nonce
    BY <2>2, <2>3, <2>4 DEF Polls
  <2>6. slots'[n].epoch = slots[n].epoch + 1 BY <1>0, <2>1 DEF Types, Slots
  <2>7. \A m \in Nonces : m # n => slots'[m] = slots[m] BY <1>0, <2>1 DEF Types
  <2>8. ASSUME NEW m \in Nonces
        PROVE  /\ chain'[m] \in Nat /\ chain[m] <= chain'[m]
               /\ slots'[m].epoch \in Nat /\ slots[m].epoch <= slots'[m].epoch
               /\ slots'[m].in_use = TRUE /\ slots'[m].epoch = slots[m].epoch
                  => slots[m].in_use = TRUE /\ slots'[m].hash \in {slots[m].hash, NoHash}
    <3>1. CASE m = n BY <1>1, <1>2, <2>6, <3>1
    <3>2. CASE m # n BY <1>1, <1>2, <2>7, <3>2
    <3> QED BY <3>1, <3>2
  <2> QED BY <2>5, <2>8, ForwardKept
<1>4. ASSUME NEW pc, trade' = [trade EXCEPT ![t].pc = pc], UNCHANGED slots,
             \/ UNCHANGED refresh
             \/ refresh' = [refresh EXCEPT ![t].pc = "spawned"]
      PROVE  Forward'
  <2>1. \A u \in Trades : trade'[u].nonce = trade[u].nonce BY <1>0, <1>4 DEF Types, Signatures
  <2>2. \A u \in Trades : Polls(u)' => Polls(u) /\ refresh'[u] = refresh[u]
    BY <1>0, <1>4 DEF Types, Refreshes, Polls
  <2>3. \A m \in Nonces :
               /\ chain'[m] \in Nat /\ chain[m] <= chain'[m]
               /\ slots'[m].epoch \in Nat /\ slots[m].epoch <= slots'[m].epoch
               /\ slots'[m].in_use = TRUE /\ slots'[m].epoch = slots[m].epoch
                  => slots[m].in_use = TRUE /\ slots'[m].hash \in {slots[m].hash, NoHash}
    BY <1>1, <1>2, <1>4
  <2> QED BY <2>1, <2>2, <2>3, ForwardKept
<1>5. CASE AllBusy(t) BY <1>4, <1>5 DEF AllBusy, Goto
<1>6. ASSUME NEW kind \in {"buy", "sell"}, NEW ok \in BOOLEAN, NEW reached \in BOOLEAN,
             send(t, kind, ok, reached)
      PROVE  Forward'
  BY <1>4, <1>6 DEF send, Goto
<1>7. CASE NonceRefreshOnDrop(t) BY <1>4, <1>7 DEF NonceRefreshOnDrop, Goto
<1> QED BY <1>3, <1>5, <1>6, <1>7 DEF Trading

\* A task begins with the hash of its slot, reads what the chain holds now, and
\* frees the slot when it writes.
LEMMA RefreshForward ==
    ASSUME NEW t \in Trades, "lag" \notin Faults, Basic, Behind, Forward,
           schedule_nonce_refresh(t)
    PROVE  Forward'
<1> USE DEF chainVars, OnlyRefresh, RefreshEnds
<1>0. Types /\ Accounts BY DEF Basic
<1>1. UNCHANGED <<chain, trade>>
  BY DEF schedule_nonce_refresh, RefreshStart, RefreshPoll, RefreshWrite
<1>2. \A r : refresh' = [refresh EXCEPT ![t] = r] =>
              refresh'[t] = r /\ \A u \in Trades : u # t => refresh'[u] = refresh[u]
  BY <1>0 DEF Types
<1>3. \A n \in Nonces : chain[n] \in Nat /\ slots[n].epoch \in Nat /\ slots[n].hash \in Nat
  BY <1>0 DEF Types, Slots
<1>4. ASSUME UNCHANGED slots, \A u \in Trades : u # t => refresh'[u] = refresh[u],
             Polls(t)' => /\ refresh'[t].epoch <= slots[trade[t].nonce].epoch
                          /\ refresh'[t].used <= chain[trade[t].nonce]
                          /\ refresh'[t].last = NoHash \/ refresh'[t].used <= refresh'[t].last
                          /\ (slots[trade[t].nonce].in_use = TRUE
                              /\ slots[trade[t].nonce].epoch = refresh'[t].epoch)
                             => slots[trade[t].nonce].hash \in {refresh'[t].used, NoHash}
      PROVE  Forward'
  <2>1. \A u \in Trades : u # t => (Polls(u)' <=> Polls(u)) BY <1>4 DEF Polls
  <2>2. EpochKept' BY <1>1, <1>4, <2>1 DEF Forward, EpochKept
  <2>3. UsedBehind' BY <1>1, <1>4, <2>1 DEF Forward, UsedBehind
  <2>4. LastForward' BY <1>1, <1>4, <2>1 DEF Forward, LastForward
  <2>5. UseHash' BY <1>1, <1>4, <2>1 DEF Forward, UseHash
  <2> QED BY <2>2, <2>3, <2>4, <2>5 DEF Forward
<1>5. CASE RefreshStart(t)
  <2>1. refresh[t].pc = "spawned" /\ UNCHANGED slots BY <1>5 DEF RefreshStart
  <2>2. trade[t].nonce \in Nonces BY <1>0, <2>1 DEF Accounts, Signed
  <2>3. /\ refresh'[t] = [pc |-> "poll", used |-> slots[trade[t].nonce].hash,
                          epoch |-> slots[trade[t].nonce].epoch, last |-> NoHash, tries |-> 0]
        /\ \A u \in Trades : u # t => refresh'[u] = refresh[u]
    BY <1>2, <1>5 DEF RefreshStart
  <2>4. slots[trade[t].nonce].hash <= chain[trade[t].nonce] BY <2>2 DEF Behind, CacheBehind
  <2>5. slots[trade[t].nonce].epoch \in Nat BY <1>3, <2>2
  <2>6. /\ refresh'[t].epoch = slots[trade[t].nonce].epoch
        /\ refresh'[t].used = slots[trade[t].nonce].hash /\ refresh'[t].last = NoHash
    BY <2>3
  <2> QED BY <1>4, <2>1, <2>3, <2>4, <2>5, <2>6
<1>6. ASSUME NEW h \in Hashes, RefreshPoll(t, h) PROVE Forward'
  <2>1. refresh[t].pc = "poll" /\ UNCHANGED slots BY <1>6 DEF RefreshPoll
  <2>2. trade[t].nonce \in Nonces /\ chain[trade[t].nonce] \in Nat
    BY <1>0, <2>1 DEF Types, Accounts, Signed
  <2>3. h = NoHash \/ h = chain[trade[t].nonce] BY <1>6 DEF RefreshPoll, Readable
  <2>4. refresh[t] \in Refreshes BY <1>0 DEF Types
  <2> DEFINE tries == refresh[t].tries + 1
             last == IF h = NoHash THEN refresh[t].last ELSE h
             pc == IF (h # NoHash /\ h # refresh[t].used) \/ tries = RefreshAttempts
                   THEN "write" ELSE refresh[t].pc
             e == [refresh[t] EXCEPT !.last = last, !.tries = tries, !.pc = pc]
  <2>5. refresh' = [refresh EXCEPT ![t] = NoRefresh] \/ refresh' = [refresh EXCEPT ![t] = e]
    BY <1>6 DEF RefreshPoll
  <2>6. last = refresh[t].last \/ last = chain[trade[t].nonce] BY <2>3
  <2> HIDE DEF last, tries, pc
  <2>7. e.last = last /\ e.epoch = refresh[t].epoch /\ e.used = refresh[t].used
    BY <2>4 DEF Refreshes
  <2> HIDE DEF e
  <2>8. refresh'[t] \in {NoRefresh, e} /\ \A u \in Trades : u # t => refresh'[u] = refresh[u]
    BY <1>2, <2>5
  <2>9. Polls(t) BY <2>1 DEF Polls
  <2>10. /\ refresh[t].epoch <= slots[trade[t].nonce].epoch
         /\ refresh[t].used <= chain[trade[t].nonce]
         /\ refresh[t].last = NoHash \/ refresh[t].used <= refresh[t].last
         /\ (slots[trade[t].nonce].in_use = TRUE
              /\ slots[trade[t].nonce].epoch = refresh[t].epoch)
            => slots[trade[t].nonce].hash \in {refresh[t].used, NoHash}
    BY <2>9 DEF Forward, EpochKept, UsedBehind, LastForward, UseHash
  <2>11. Polls(t)' => refresh'[t] = e BY <2>8 DEF Polls, NoRefresh
  <2>12. last = NoHash \/ refresh[t].used <= last BY <2>6, <2>10
  <2> QED BY <1>4, <2>1, <2>7, <2>8, <2>10, <2>11, <2>12
<1>7. CASE RefreshWrite(t)
  <2>1. refresh[t].pc = "write" BY <1>7 DEF RefreshWrite
  <2>2. trade[t].nonce \in Nonces BY <1>0, <2>1 DEF Accounts, Signed
  <2>3. refresh'[t] = NoRefresh /\ \A u \in Trades : u # t => refresh'[u] = refresh[u]
    BY <1>2, <1>7 DEF RefreshWrite
  <2>4. \A u \in Trades : Polls(u)' => /\ Polls(u) /\ refresh'[u] = refresh[u]
                                       /\ trade'[u].nonce = trade[u].nonce
    BY <1>1, <2>3 DEF Polls, NoRefresh
  <2>5. \A n \in Nonces : /\ slots'[n].epoch = slots[n].epoch
                          /\ slots'[n] = slots[n] \/ slots'[n].in_use = FALSE
    BY <1>0, <1>7, <2>2 DEF RefreshWrite, Types, Slots
  <2>6. \A m \in Nonces :
               /\ chain'[m] \in Nat /\ chain[m] <= chain'[m]
               /\ slots'[m].epoch \in Nat /\ slots[m].epoch <= slots'[m].epoch
               /\ slots'[m].in_use = TRUE /\ slots'[m].epoch = slots[m].epoch
                  => slots[m].in_use = TRUE /\ slots'[m].hash \in {slots[m].hash, NoHash}
    BY <1>1, <1>3, <2>5
  <2> QED BY <2>4, <2>6, ForwardKept
<1> QED BY <1>5, <1>6, <1>7 DEF schedule_nonce_refresh

LEMMA ForwardStep ==
    ASSUME "lag" \notin Faults, Basic, Behind, Forward, [Next]_vars PROVE Forward'
<1>0. Types /\ Accounts BY DEF Basic
<1>1. \A n \in Nonces : chain[n] \in Nat /\ slots[n].epoch \in Nat BY <1>0 DEF Types, Slots
<1>2. ASSUME UNCHANGED <<refresh, trade>>,
             \A n \in Nonces : chain'[n] \in Nat /\ chain[n] <= chain'[n],
             \A n \in Nonces :
                /\ slots'[n].epoch = slots[n].epoch
                /\ slots'[n].in_use = TRUE =>
                     slots[n].in_use = TRUE /\ slots'[n].hash \in {slots[n].hash, NoHash}
      PROVE  Forward'
  <2>1. \A u \in Trades : Polls(u)' => /\ Polls(u) /\ refresh'[u] = refresh[u]
                                       /\ trade'[u].nonce = trade[u].nonce
    BY <1>2 DEF Polls
  <2>2. \A m \in Nonces :
               /\ chain'[m] \in Nat /\ chain[m] <= chain'[m]
               /\ slots'[m].epoch \in Nat /\ slots[m].epoch <= slots'[m].epoch
               /\ slots'[m].in_use = TRUE /\ slots'[m].epoch = slots[m].epoch
                  => slots[m].in_use = TRUE /\ slots'[m].hash \in {slots[m].hash, NoHash}
    BY <1>1, <1>2
  <2> QED BY <2>1, <2>2, ForwardKept
<1>a. chain' = chain => \A n \in Nonces : chain'[n] \in Nat /\ chain[n] <= chain'[n] BY <1>1
<1>b. slots' = slots => \A n \in Nonces :
                           /\ slots'[n].epoch = slots[n].epoch
                           /\ slots'[n].in_use = TRUE =>
                                slots[n].in_use = TRUE /\ slots'[n].hash \in {slots[n].hash, NoHash}
  OBVIOUS
<1>3. CASE UNCHANGED vars
  <2>1. chain' = chain /\ slots' = slots /\ UNCHANGED <<refresh, trade>> BY <1>3 DEF vars
  <2> QED BY <1>2, <1>a, <1>b, <2>1
<1>4. ASSUME NEW t \in Trades, Lands(t) \/ AdvanceLands(t) PROVE Forward'
  <2>1. /\ UNCHANGED <<slots, trade, refresh>> /\ trade[t].nonce \in Nonces
        /\ chain' = [chain EXCEPT ![trade[t].nonce] = @ + 1]
    BY <1>0, <1>4 DEF Lands, AdvanceLands, CanLand, Accounts, Signed, poolVars
  <2>2. \A n \in Nonces : chain'[n] \in Nat /\ chain[n] <= chain'[n] BY <1>0, <2>1 DEF Types
  <2> QED BY <1>2, <1>b, <2>1, <2>2
<1>5. ASSUME NEW t \in Trades, Burning(t) PROVE Forward'
  <2>2. UNCHANGED <<chain, trade, refresh>>
    BY <1>5 DEF Burning, burn_nonce_tx, BurnSend, BurnInvalidate, BurnVerify, OnlyBurn
  <2>3. slots' = slots \/ slots' = [slots EXCEPT ![trade[t].nonce].hash = NoHash]
    BY <1>5 DEF Burning, burn_nonce_tx, BurnSend, BurnInvalidate, BurnVerify
  <2>4. \A n \in Nonces : /\ slots'[n].epoch = slots[n].epoch
                          /\ slots'[n].in_use = slots[n].in_use
                          /\ slots'[n].hash \in {slots[n].hash, NoHash}
    BY <1>0, <2>3 DEF Types, Slots
  <2>5. \A n \in Nonces :
           /\ slots'[n].epoch = slots[n].epoch
           /\ slots'[n].in_use = TRUE =>
                slots[n].in_use = TRUE /\ slots'[n].hash \in {slots[n].hash, NoHash}
    BY <2>4
  <2> QED BY <1>a, <1>2, <2>2, <2>5
<1>6. ASSUME NEW n \in Nonces, NEW h \in Hashes, on_nonce_account_update(n, h)
      PROVE  Forward'
  <2>1. /\ slots' = [slots EXCEPT ![n].pushed = h, ![n].hash = h,
                                  ![n].in_use = @ /\ slots[n].hash = h]
        /\ UNCHANGED <<chain, trade, refresh>>
    BY <1>6 DEF on_nonce_account_update, chainVars
  <2>2. slots'[n].hash = h /\ slots'[n].epoch = slots[n].epoch
    BY <1>0, <2>1 DEF Types, Slots
  <2>3. slots'[n].in_use = (slots[n].in_use /\ slots[n].hash = h) BY <1>0, <2>1 DEF Types, Slots
  <2>4. slots'[n].in_use = TRUE => slots[n].in_use = TRUE /\ slots[n].hash = h
    <3>1. slots[n].in_use \in BOOLEAN BY <1>0 DEF Types, Slots
    <3> QED BY <2>3, <3>1
  <2>5. \A m \in Nonces : m # n => slots'[m] = slots[m] BY <1>0, <2>1 DEF Types
  <2>6. ASSUME NEW m \in Nonces
        PROVE  /\ slots'[m].epoch = slots[m].epoch
               /\ slots'[m].in_use = TRUE =>
                     slots[m].in_use = TRUE /\ slots'[m].hash \in {slots[m].hash, NoHash}
    <3>1. CASE m = n BY <2>2, <2>4, <3>1
    <3>2. CASE m # n BY <2>5, <3>2
    <3> QED BY <3>1, <3>2
  <2> QED BY <1>a, <1>2, <2>1, <2>6
<1>7. ASSUME NEW t \in Trades, Trading(t) \/ schedule_nonce_refresh(t) PROVE Forward'
  BY <1>7, TradingForward, RefreshForward
<1> QED BY <1>3, <1>4, <1>5, <1>6, <1>7 DEF Next

\* The cached hash of an account is dropped or moves on, never back, when neither
\* a read nor an update is late, for every pool: an update during a use, a burn at
\* any time and a refresh task that starts late do no harm, because a task whose
\* use is over writes nothing and one whose use lasts read no older hash.
THEOREM CacheForward == {"lag", "late_push"} \cap Faults = {} => (Spec => CacheNeverRewinds)
<1> SUFFICES ASSUME {"lag", "late_push"} \cap Faults = {} PROVE Spec => CacheNeverRewinds
  OBVIOUS
<1>1. "lag" \notin Faults /\ "late_push" \notin Faults OBVIOUS
<1> DEFINE Inv == Basic /\ Behind /\ Forward
           NoRewind == \A n \in Nonces : slots'[n].hash = NoHash \/ slots'[n].hash >= slots[n].hash
<1>2. Init => Inv BY BasicInit, BehindInit, ForwardInit
<1>3. Inv /\ [Next]_vars => Inv' BY <1>1, BasicStep, BehindStep, ForwardStep
<1>4. ASSUME Inv, Next PROVE NoRewind
  <2>0. Types /\ Accounts BY <1>4 DEF Basic
  <2>1. \A n \in Nonces : slots[n].hash \in Nat BY <2>0 DEF Types, Slots
  <2>2. ASSUME \A n \in Nonces : slots'[n].hash \in {slots[n].hash, NoHash} PROVE NoRewind
    BY <2>1, <2>2
  <2>3. ASSUME NEW t \in Trades, Lands(t) \/ AdvanceLands(t) PROVE NoRewind
    BY <2>2, <2>3 DEF Lands, AdvanceLands, poolVars
  <2>4. ASSUME NEW t \in Trades, Trading(t) PROVE NoRewind
    <3>1. slots' = slots \/ \E n \in Nonces :
              slots' = [slots EXCEPT ![n].in_use = TRUE, ![n].epoch = @ + 1]
      BY <2>4 DEF Trading, acquire_nonce, AllBusy, send, NonceRefreshOnDrop, poolVars
    <3>2. CASE UNCHANGED slots BY <2>2, <3>2
    <3>3. ASSUME NEW m \in Nonces,
                 slots' = [slots EXCEPT ![m].in_use = TRUE, ![m].epoch = slots[m].epoch + 1]
          PROVE  NoRewind
      <4>1. \A n \in Nonces : slots'[n].hash = slots[n].hash BY <2>0, <3>3 DEF Types, Slots
      <4> QED BY <2>2, <4>1
    <3> QED BY <3>1, <3>2, <3>3
  <2>5. ASSUME NEW t \in Trades, Burning(t) PROVE NoRewind
    <3>1. slots' = slots \/ slots' = [slots EXCEPT ![trade[t].nonce].hash = NoHash]
      BY <2>5 DEF Burning, burn_nonce_tx, BurnSend, BurnInvalidate, BurnVerify
    <3>2. \A n \in Nonces : slots'[n].hash \in {slots[n].hash, NoHash}
      BY <2>0, <3>1 DEF Types, Slots
    <3> QED BY <2>2, <3>2
  <2>6. ASSUME NEW t \in Trades, schedule_nonce_refresh(t) PROVE NoRewind
    <3>1. CASE UNCHANGED slots BY <2>2, <3>1
    <3>2. CASE /\ refresh[t].pc = "write" /\ Ours(t)
               /\ slots' = [slots EXCEPT ![trade[t].nonce].hash = refresh[t].last,
                                         ![trade[t].nonce].in_use = FALSE]
      <4>1. Polls(t) BY <3>2 DEF Polls
      <4>2. trade[t].nonce \in Nonces BY <1>4, <4>1, OwnerAccount
      <4>3. /\ slots[trade[t].nonce].in_use = TRUE
            /\ slots[trade[t].nonce].epoch = refresh[t].epoch
        BY <2>0, <3>2, <4>2 DEF Ours, Types, Slots
      <4>4. /\ slots[trade[t].nonce].hash \in {refresh[t].used, 0}
            /\ refresh[t].last = NoHash \/ refresh[t].used <= refresh[t].last
        BY <1>4, <4>1, <4>3 DEF Forward, UseHash, LastForward, NoHash
      <4>5. refresh[t].last \in Nat /\ refresh[t].used \in Nat BY <2>0 DEF Types, Refreshes
      <4>6. refresh[t].last = NoHash \/ refresh[t].last >= slots[trade[t].nonce].hash
        BY <4>4, <4>5
      <4>7. \A n \in Nonces : \/ slots'[n].hash = slots[n].hash
                              \/ n = trade[t].nonce /\ slots'[n].hash = refresh[t].last
        BY <2>0, <3>2, <4>2 DEF Types, Slots
      <4> QED BY <2>1, <4>6, <4>7
    <3> QED BY <2>6, <3>1, <3>2
          DEF schedule_nonce_refresh, RefreshStart, RefreshPoll, RefreshWrite
  <2>7. ASSUME NEW n \in Nonces, NEW h \in Hashes, on_nonce_account_update(n, h)
        PROVE  NoRewind
    <3>1. h >= slots[n].hash BY <1>1, <2>7 DEF on_nonce_account_update, Prompt
    <3>2. \A m \in Nonces : slots'[m].hash = IF m = n THEN h ELSE slots[m].hash
      BY <2>0, <2>7 DEF on_nonce_account_update, Types, Slots
    <3> QED BY <2>1, <3>1, <3>2
  <2> QED BY <1>4, <2>3, <2>4, <2>5, <2>6, <2>7 DEF Next
<1>5. Inv /\ [Next]_vars => [NoRewind]_vars BY <1>4
<1> QED BY <1>2, <1>3, <1>5, PTL DEF Spec, CacheNeverRewinds
=============================================================================
