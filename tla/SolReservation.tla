--------------------------- MODULE SolReservation ---------------------------
(***************************************************************************)
(* The SOL a wallet has promised to its buys: the earmark ledger and the   *)
(* balance cache of a trader (src/shared/executor/core/src/engine.rs), the *)
(* guards of dispatch_buy that read them, everything that settles or       *)
(* releases an earmark (exec_real.rs, sinks.rs, reapers.rs), the rebuild   *)
(* of a wallet's trader (wallets/runtime.rs) and a manual transfer         *)
(* (wallets/ops.rs).                                                       *)
(*                                                                         *)
(* One wallet.  The versions of its balance are numbered; a reading shows  *)
(* one of them, not always the newest.  A buy leaves "sent" only when its  *)
(* fate is known: that is what RealEntry is about.                         *)
(***************************************************************************)
EXTENDS Naturals, Sequences, FiniteSetsExt

CONSTANTS
    Positions,
    Size,          \* lamports of each position's buy, fees apart
    Balance0,      \* what the wallet starts with
    Floor,         \* RESERVE_FLOOR_LAMPORTS
    FeeReserve,    \* SEND_FEE_RESERVE, which a transfer leaves
    Proceeds,      \* what a sell may bring
    MaxCommitted,  \* settings.max_committed_sol
    Transfer,      \* lamports of the manual transfer
    MaxEvents,     \* bound: rebuilds, manual transfers and restarts
    Faults         \* what the timing may do

(***************************************************************************)
(* "late_push", "lag": a pushed, a polled balance is older than one that   *)
(*     was read before (a replay; `confirmed` is behind `processed`);      *)
(* "slow": a reading is older than a buy seen POLL_COVER_LAG ago;          *)
(* "same_slot": two of the wallet's transactions land in one slot;         *)
(* "cold": a buy is dispatched on a trader that has read no balance yet;   *)
(* "unfolded": a buy is dispatched while another's fill is on its way to   *)
(*     the engine;                                                         *)
(* "early_exit": a sell starts before a reading shows its buy;             *)
(* "adopted": a restart with a buy in flight, or not yet in a reading;     *)
(* "two_rebuilds": two rebuilds of the same wallet overlap;                *)
(* "transfer_race": a buy is dispatched between the check of a transfer    *)
(*     and the first reading that shows it.                                *)
(***************************************************************************)
FaultKinds == {"late_push", "lag", "slow", "same_slot", "cold", "unfolded",
               "early_exit", "adopted", "two_rebuilds", "transfer_race"}

ASSUME SolReservationAssumption ==
    /\ IsFiniteSet(Positions) /\ Size \in [Positions -> Nat \ {0}]
    /\ Balance0 \in Nat /\ Floor \in Nat /\ FeeReserve \in 0 .. Floor
    /\ MaxCommitted \in Nat /\ Proceeds \subseteq Nat /\ Transfer \in Nat \ {0}
    /\ MaxEvents \in Nat
    /\ Faults \subseteq FaultKinds

Traders == 0 .. MaxEvents  \* the traders built for the wallet, in order
NoTrader == MaxEvents + 1
Unread == [version |-> 0, push |-> FALSE]

\* An earmark: held by a buy in flight; settled with its slot or slotless once it
\* landed, then fresh, aged (POLL_COVER_LAG is over), and covered (read since).
Settled == {"settled", "slotless"}
Ages == {"fresh", "aged", "covered"}
Mark(kind) == [kind |-> kind, age |-> "fresh"]
NoMark == Mark("none")
NoMarks == [p \in Positions |-> NoMark]

VARIABLES
    hist,      \* every balance the wallet has had, with its slot
    pos,       \* each position, as the engine and its task have it
    landed,    \* the version its buy made; 0: it has not landed
    ledger,    \* position_commitments of each trader
    current,   \* the trader in the wallet's slot
    reading,   \* its balance_lamports_cache
    pushed,    \* its balance_push_slot
    holder,    \* the trader the position's task works with
    rebuild,   \* for each trader being built, the one its rebuild found
    seen,      \* the newest version any reading has shown
    transfer,  \* manual transfer: checked and not landed; the version the last made
    events     \* rebuilds, transfers and restarts so far

vars == <<hist, pos, landed, ledger, reading, pushed, current, holder, rebuild, seen, transfer,
          events>>
cacheVars == <<reading, pushed, seen>>
traderVars == <<current, rebuild, events>>

Now == Len(hist)
Wallet == hist[Now].lamports
Entering == {"entering", "sent", "retry"}
Registered == Entering \cup {"failing", "filled", "holding", "exiting"}
Ended == {"failed", "closed", "stuck"}
Versions == 0 .. 1 + 2 * Cardinality(Positions) + MaxEvents

TypeOK ==
    /\ Now \in Versions \ {0}
    /\ \A v \in 1 .. Now : hist[v].lamports \in Nat /\ hist[v].slot \in 1 .. v
    /\ pos \in [Positions -> {"idle"} \cup Registered \cup Ended]
    /\ landed \in [Positions -> 0 .. Now]
    /\ ledger \in [Traders -> [Positions -> [kind : {"none", "held"} \cup Settled, age : Ages]]]
    /\ \A t \in Traders, p \in Positions : ledger[t][p].kind \in Settled => landed[p] # 0
    /\ reading \in [version : 0 .. Now, push : BOOLEAN] /\ pushed \in 0 .. Now
    /\ current \in Traders /\ holder \in [Positions -> Traders]
    /\ rebuild \in [Traders -> Traders \cup {NoTrader}]
    /\ seen \in 0 .. Now
    /\ transfer \in [pending : BOOLEAN, version : 0 .. Now]
    /\ events \in 0 .. MaxEvents

Init ==
    /\ hist = <<[lamports |-> Balance0, slot |-> 1]>>
    /\ pos = [p \in Positions |-> "idle"]
    /\ landed = [p \in Positions |-> 0]
    /\ ledger = [t \in Traders |-> NoMarks]
    /\ reading = Unread /\ pushed = 0
    /\ current = 0
    /\ holder = [p \in Positions |-> 0]
    /\ rebuild = [t \in Traders |-> NoTrader]
    /\ seen = 0
    /\ transfer = [pending |-> FALSE, version |-> 0]
    /\ events = 0

-----------------------------------------------------------------------------
(* The ledger.                                                             *)

SizeOf(S) == MapThenSumSet(LAMBDA p : Size[p], S)
Goto(p, pc) == pos' = [pos EXCEPT ![p] = pc]

\* A reading at the slot before the buy's is taken to show it.
HoldsOffByOne(p) ==
    LET mark == ledger[current][p]
    IN  \/ mark.kind = "held"
        \/ /\ mark.kind \in Settled
           /\ \/ reading.version = 0
              \/ IF mark.kind = "settled" /\ reading.push
                 THEN hist[reading.version].slot + 1 < hist[landed[p]].slot
                 ELSE mark.age # "covered"

\* By slot when both are known, else by the lag since it settled.
holds(p) ==
    LET mark == ledger[current][p]
    IN  \/ mark.kind = "held"
        \/ /\ mark.kind \in Settled
           /\ \/ reading.version = 0
              \/ IF mark.kind = "settled" /\ reading.push
                 THEN hist[reading.version].slot < hist[landed[p]].slot
                 ELSE mark.age # "covered"

committed_lamports == SizeOf({p \in Positions : holds(p)})

\* What computing it leaves: the earmarks a reading has covered are dropped.
Retained == [p \in Positions |-> IF holds(p) THEN ledger[current][p] ELSE NoMark]

free_lamports_cover(lamports) ==
    \/ reading.version = 0
    \/ lamports + committed_lamports + Floor <= hist[reading.version].lamports

release_sol(T, p) ==
    ledger' = [t \in Traders |->
                IF t \in T THEN [ledger[t] EXCEPT ![p] = NoMark] ELSE ledger[t]]

settle_sol(T, p, kind) ==
    ledger' = [t \in Traders |->
                IF t \in T /\ ledger[t][p].kind = "held"
                THEN [ledger[t] EXCEPT ![p] = Mark(kind)] ELSE ledger[t]]

\* An entering position counts its earmark, an entered one what it paid.
open_exposure_lamports(p) ==
    SizeOf({q \in Positions \ {p} :
        \/ pos[q] \in {"holding", "exiting"}
        \/ pos[q] \in Registered /\ ledger[current][q] # NoMark})

-----------------------------------------------------------------------------
(* A buy: guards and earmark, the entry task, the reaper, the sink.        *)

OnlyPosition == UNCHANGED <<hist, landed, cacheVars, traderVars, transfer>>

Dispatchable ==
    /\ "cold" \in Faults \/ reading.version # 0
    /\ "unfolded" \in Faults \/ \A q \in Positions : pos[q] # "filled"
    /\ "transfer_race" \in Faults \/ (~transfer.pending /\ transfer.version <= seen)

\* An earmark held by an earlier attempt is kept; without a reading it is granted.
try_reserve_buy(p) ==
    LET kept == IF reading.version = 0 THEN ledger[current] ELSE Retained
    IN  IF ledger[current][p] # NoMark THEN Goto(p, "entering") /\ UNCHANGED ledger
        ELSE IF free_lamports_cover(Size[p])
        THEN Goto(p, "entering") /\ ledger' = [ledger EXCEPT ![current] = [kept EXCEPT ![p] = Mark("held")]]
        ELSE Goto(p, "failing") /\ ledger' = [ledger EXCEPT ![current] = kept]

\* Only what is in the earmark ledger counts.
GuardReadsLedger(p) ==
    IF Size[p] + SizeOf({q \in Positions \ {p} : ledger[current][q] # NoMark}) > MaxCommitted
    THEN Goto(p, "failing") /\ UNCHANGED ledger
    ELSE try_reserve_buy(p)

max_committed_sol_guard(p) ==
    IF Size[p] + open_exposure_lamports(p) > MaxCommitted
    THEN Goto(p, "failing") /\ UNCHANGED ledger
    ELSE try_reserve_buy(p)

dispatch_buy(p) ==
    /\ pos[p] \in {"idle", "retry"} /\ Dispatchable
    /\ max_committed_sol_guard(p)
    /\ UNCHANGED holder /\ OnlyPosition

TaskEnds(p) == holder' = [holder EXCEPT ![p] = 0]

\* The task works with the trader it finds.
run_entry(p) ==
    /\ pos[p] = "entering"
    /\ \/ Goto(p, "sent") /\ holder' = [holder EXCEPT ![p] = current] /\ UNCHANGED ledger
       \/ Goto(p, "failing") /\ release_sol({current}, p) /\ UNCHANGED holder
       \/ Goto(p, "retry") /\ UNCHANGED <<ledger, holder>>
    /\ OnlyPosition

emit_entry_filled(p, kind) ==
    /\ pos[p] = "sent" /\ landed[p] # 0
    /\ settle_sol({holder[p], current}, p, kind)
    /\ Goto(p, "filled")
    /\ TaskEnds(p) /\ OnlyPosition

\* A retry keeps the earmark, a fatal answer gives it back.
emit_entry_outcome(p) ==
    /\ pos[p] = "sent" /\ landed[p] = 0
    /\ \/ Goto(p, "retry") /\ UNCHANGED ledger
       \/ Goto(p, "failing") /\ release_sol({holder[p], current}, p)
    /\ TaskEnds(p) /\ OnlyPosition

\* The reaper: adopts a buy that landed, drops one proven dead.
resolve_buy_submitted(p) ==
    /\ pos[p] = "sent"
    /\ IF landed[p] # 0
       THEN Goto(p, "filled") /\ settle_sol({current}, p, "settled")
       ELSE Goto(p, "failing") /\ release_sol({current}, p)
    /\ TaskEnds(p) /\ OnlyPosition

\* Nothing is given back.
FailsUnreleased(p) ==
    /\ pos[p] \in {"failing", "retry"}
    /\ Goto(p, "failed")
    /\ UNCHANGED <<ledger, holder>> /\ OnlyPosition

\* A reverted attempt was the last, or the answer was fatal.
on_entry_failed(p) ==
    /\ pos[p] \in {"failing", "retry"}
    /\ Goto(p, "failed") /\ release_sol({current}, p)
    /\ UNCHANGED holder /\ OnlyPosition

\* entry_sol is known from here on.
on_holding(p) ==
    /\ pos[p] = "filled"
    /\ Goto(p, "holding")
    /\ UNCHANGED <<ledger, holder>> /\ OnlyPosition

-----------------------------------------------------------------------------
(* A sell, and the chain.                                                  *)

Changes(amount) ==
    \E slot \in {hist[Now].slot + 1}
                \cup IF "same_slot" \in Faults THEN {hist[Now].slot} ELSE {} :
        hist' = Append(hist, [lamports |-> amount, slot |-> slot])

Lands(p) ==
    /\ pos[p] = "sent" /\ landed[p] = 0
    /\ Size[p] <= Wallet
    /\ Changes(Wallet - Size[p])
    /\ landed' = [landed EXCEPT ![p] = Now + 1]
    /\ UNCHANGED <<pos, ledger, holder, cacheVars, traderVars, transfer>>

\* It gives the earmark back before it does anything else.
run_exit(p) ==
    /\ pos[p] = "holding"
    /\ "early_exit" \in Faults \/ landed[p] <= seen
    /\ release_sol({current}, p)
    /\ Goto(p, "exiting")
    /\ UNCHANGED holder /\ OnlyPosition

on_end(p, proceeds) ==
    /\ pos[p] = "exiting"
    /\ Changes(Wallet + proceeds)
    /\ release_sol({current}, p)
    /\ Goto(p, "closed")
    /\ UNCHANGED <<landed, holder, cacheVars, traderVars, transfer>>

on_exit_no_fill(p) ==
    /\ pos[p] = "exiting"
    /\ release_sol({current}, p)
    /\ Goto(p, "stuck")
    /\ UNCHANGED holder /\ OnlyPosition

-----------------------------------------------------------------------------
(* Readings.                                                               *)

OnlyReading == UNCHANGED <<hist, pos, landed, holder, traderVars, transfer>>

Timely(v) ==
    \/ "slow" \in Faults
    \/ \A p \in Positions : ledger[current][p].age # "fresh" => landed[p] <= v

Cache(v, push) ==
    /\ reading' = [version |-> v, push |-> push]
    /\ ledger' = [ledger EXCEPT ![current] = [p \in Positions |->
                    IF @[p].age = "aged" THEN [@[p] EXCEPT !.age = "covered"] ELSE @[p]]]
    /\ seen' = Max({seen, v})

update_balance_lamports_cache(v) ==
    /\ "lag" \in Faults \/ v >= seen
    /\ Timely(v)
    /\ Cache(v, FALSE)
    /\ UNCHANGED pushed /\ OnlyReading

update_balance_lamports_at_slot(v) ==
    /\ "late_push" \in Faults \/ v >= seen
    /\ Timely(v)
    /\ hist[v].slot >= pushed
    /\ pushed' = hist[v].slot
    /\ Cache(v, TRUE)
    /\ OnlyReading

\* POLL_COVER_LAG is over.
LagPasses(p) ==
    LET Settling(t) == ledger[t][p].kind \in Settled /\ ledger[t][p].age = "fresh"
    IN  /\ Settling(current)
        /\ ledger' = [t \in Traders |->
                        IF Settling(t) THEN [ledger[t] EXCEPT ![p].age = "aged"] ELSE ledger[t]]
        /\ UNCHANGED cacheVars /\ OnlyReading

-----------------------------------------------------------------------------
(* The wallet: rebuild, manual transfer, restart.                          *)

Event == events < MaxEvents /\ events' = events + 1
Building == {t \in Traders : t > current /\ rebuild[t] # NoTrader}

\* It finds the trader, then builds the new one for seconds.
RebuildStarts(t) ==
    /\ t = Max({current} \cup Building) + 1
    /\ "two_rebuilds" \in Faults \/ Building = {}
    /\ Event
    /\ rebuild' = [rebuild EXCEPT ![t] = current]
    /\ UNCHANGED <<hist, pos, landed, ledger, holder, cacheVars, current, transfer>>

\* The new trader's ledger is filled; the others matter while a rebuild found them.
Swap(t, marks) ==
    /\ t \in Building
    /\ current' = t
    /\ ledger' = [u \in Traders |->
                    IF u = t THEN marks
                    ELSE IF \E b \in Building \ {t} : b > t /\ rebuild[b] = u THEN ledger[u] ELSE NoMarks]
    /\ rebuild' = [u \in Traders |-> IF u > t THEN rebuild[u] ELSE NoTrader]
    /\ reading' = Unread /\ pushed' = 0
    /\ UNCHANGED <<hist, pos, landed, holder, seen, transfer, events>>

\* The earmarks are copied from the trader it found; no reading is.
RebuildSwaps(t) == Swap(t, ledger[rebuild[t]])

\* spendable: a balance just read, less the fee reserve and the earmarks.
send_sol(v) ==
    /\ ~transfer.pending /\ transfer.version <= v
    /\ Event
    /\ "lag" \in Faults \/ v >= seen
    /\ Timely(v)
    /\ Transfer + FeeReserve + committed_lamports <= hist[v].lamports
    /\ ledger' = [ledger EXCEPT ![current] = Retained]
    /\ transfer' = [transfer EXCEPT !.pending = TRUE]
    /\ UNCHANGED <<hist, pos, landed, holder, cacheVars, current, rebuild>>

TransferLands ==
    /\ transfer.pending /\ Transfer <= Wallet
    /\ Changes(Wallet - Transfer)
    /\ transfer' = [pending |-> FALSE, version |-> Now + 1]
    /\ UNCHANGED <<pos, landed, ledger, holder, cacheVars, traderVars>>

\* What boot adopts: rows without an answer go to the reaper, bags are held.
Adopted(s) == CASE s \in Entering \cup {"failing", "filled"} -> "sent"
                [] s = "exiting" -> "holding"
                [] OTHER -> s

\* Ledger and cache are memory; boot makes no earmark.
Crash ==
    /\ Event
    /\ "adopted" \in Faults
       \/ \A p \in Positions : pos[p] \notin Entering \cup {"failing", "filled"} /\ landed[p] <= seen
    /\ pos' = [p \in Positions |-> Adopted(pos[p])]
    /\ ledger' = [t \in Traders |-> NoMarks]
    /\ reading' = Unread /\ pushed' = 0
    /\ rebuild' = [t \in Traders |-> NoTrader]
    /\ holder' = [p \in Positions |-> 0]
    /\ UNCHANGED <<hist, landed, current, seen, transfer>>

-----------------------------------------------------------------------------
Buying(p) ==
    \/ dispatch_buy(p) \/ run_entry(p)
    \/ \E kind \in Settled : emit_entry_filled(p, kind)
    \/ emit_entry_outcome(p) \/ resolve_buy_submitted(p)
    \/ on_entry_failed(p) \/ on_holding(p) \/ Lands(p)

Selling(p) ==
    \/ run_exit(p) \/ on_exit_no_fill(p)
    \/ \E proceeds \in Proceeds : on_end(p, proceeds)

Reading ==
    \/ \E v \in 1 .. Now : update_balance_lamports_cache(v) \/ update_balance_lamports_at_slot(v)
    \/ \E p \in Positions : LagPasses(p)

Rebuilding == \E t \in Traders : RebuildStarts(t) \/ RebuildSwaps(t)

Transferring == (\E v \in 1 .. Now : send_sol(v)) \/ TransferLands

Next ==
    \/ \E p \in Positions : Buying(p) \/ Selling(p)
    \/ Reading \/ Rebuilding \/ Transferring \/ Crash

Spec == Init /\ [][Next]_vars

-----------------------------------------------------------------------------
\* No SOL is promised twice: whatever was read, settled, released, rebuilt or
\* transferred, the wallet really holds what every buy that may still land will
\* take, and the fee reserve (try_reserve_buy, SolReservation).
Solvent ==
    SizeOf({p \in Positions : pos[p] \in Entering /\ landed[p] = 0}) + FeeReserve <= Wallet

\* The SOL in open positions, and in buys that may become one, never exceeds the
\* ceiling (the max_committed_sol guard of dispatch_buy, open_exposure_lamports).
ExposureCapped ==
    SizeOf({p \in Positions : pos[p] \in Registered \ {"failing"}}) <= MaxCommitted

\* A position that is over holds no SOL back on the wallet's trader, whichever
\* trader its task worked with (release_commitment).
NoStrandedEarmark == \A p \in Positions : pos[p] \in Ended => ledger[current][p] = NoMark
=============================================================================
