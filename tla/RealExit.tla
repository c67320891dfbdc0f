------------------------------ MODULE RealExit ------------------------------
(***************************************************************************)
(* A real position's exit, end to end: the engine's sell intent and its    *)
(* retries, the exit task (exec_real.rs, run_exit), the reaper's nudges,   *)
(* heals and redrives (reapers.rs), the orphan sell (orphan_exit.rs), the  *)
(* durable row, the chain, and a restart.                                  *)
(*                                                                         *)
(* Every position holds one bag, and all bags are in one token account (one *)
(* wallet, one mint): a sell takes its bag from whatever the account holds, *)
(* so a second sell of one position takes a sibling's.  A sell rides a      *)
(* durable nonce and never expires: it can land any time later unless its   *)
(* nonce is burned.  The mint lock is atomic here; ExitLock has its steps.  *)
(***************************************************************************)
EXTENDS Naturals, Sequences, FiniteSets

CONSTANTS
    Positions,
    MaxExitAttempts,  \* engine bound on sell intents per exit
    SellAttempts,     \* SELL_ATTEMPTS: sends inside one task
    RedriveCap,       \* EXIT_REDRIVE_CAP
    MaxSells,         \* bound: sells ever sent
    MaxCrashes,       \* bound: restarts
    MaxManual,        \* bound: operator retries
    Faults            \* what may go wrong besides lost sends, feed and RPC

(***************************************************************************)
(* "early_nudge": a reaper tick falls between the spawn of an exit task     *)
(*     and its claim of the exit guard (a row read, a wallet freeze);       *)
(* "lost_append": the background append_exit_sig fails or a restart beats it; *)
(* "slow": a row stays ExitPending past EXIT_PENDING_STALE while the engine *)
(*     still owns it (two waits on the mint lock are enough);               *)
(* "stale_row": the reaper acts on the row it read at the start of a tick;  *)
(* "verify_race": the operator verifies a row whose exit is in flight (the  *)
(*     handler asks for no guard).                                          *)
(***************************************************************************)
FaultKinds == {"early_nudge", "lost_append", "slow", "stale_row", "verify_race"}

ASSUME RealExitAssumption ==
    /\ IsFiniteSet(Positions)
    /\ MaxExitAttempts \in Nat \ {0} /\ SellAttempts \in Nat \ {0} /\ RedriveCap \in Nat
    /\ MaxSells \in Nat /\ MaxCrashes \in Nat /\ MaxManual \in Nat
    /\ Faults \subseteq FaultKinds

Orphan == 0
Tasks == Positions \X (0 .. MaxExitAttempts)  \* <<position, intent>>; 0: orphan sell

VARIABLES
    eng,      \* what the engine knows: Holding, ExitPending or Gone
    intent,   \* its sell intents so far; the last one is in flight
    row,      \* the durable status
    parked,   \* exit_parked
    redrives, \* exit_redrive_count
    task,     \* the exit tasks
    sells,    \* every sell ever signed
    inbox,    \* fill_tx: answers on their way to the engine, in order
    seen,     \* the reaper's copy of a row: its status and the sells it names
    crashes,
    manuals

engVars == <<eng, intent, inbox>>
rowVars == <<row, parked, redrives>>
bounds == <<crashes, manuals>>
vars == <<eng, intent, row, parked, redrives, task, sells, inbox, seen, crashes, manuals>>

Open == {"Holding", "ExitPending", "ExitStuck", "ExitUnconfirmed"}
Off == [pc |-> "off", tries |-> 0, sig |-> 0, ok |-> FALSE, known |-> {}]
SellIds == 1 .. Len(sells)
Unread == [status |-> "none", known |-> {}]

Init ==
    /\ eng = [p \in Positions |-> "Holding"]
    /\ intent = [p \in Positions |-> 0]
    /\ row = [p \in Positions |-> "Holding"]
    /\ parked = [p \in Positions |-> FALSE]
    /\ redrives = [p \in Positions |-> 0]
    /\ task = [t \in Tasks |-> Off]
    /\ sells = <<>>
    /\ inbox = <<>>
    /\ seen = [p \in Positions |-> Unread]
    /\ crashes = 0 /\ manuals = 0

(***************************************************************************)
(* The chain and the feed.                                                 *)
(***************************************************************************)
Landed(s) == sells[s].st = "landed"
SellsOf(p) == {s \in SellIds : sells[s].pos = p}
SentBy(t) == {s \in SellIds : sells[s].by = t}
Named(p) == {s \in SellsOf(p) : sells[s].named}
HeldOnChain == Cardinality(Positions) - Cardinality({s \in SellIds : Landed(s)})

Land(s) ==
    /\ sells[s].st = "flying" /\ HeldOnChain > 0
    /\ sells' = [sells EXCEPT ![s].st = "landed"]
    /\ UNCHANGED <<eng, intent, row, parked, redrives, task, inbox, seen, crashes, manuals>>

Revert(s) ==
    /\ sells[s].st = "flying"
    /\ sells' = [sells EXCEPT ![s].st = "reverted"]
    /\ UNCHANGED <<eng, intent, row, parked, redrives, task, inbox, seen, crashes, manuals>>

\* The trade feed shows a landed sell, late or never.
FeedShows(s) ==
    /\ Landed(s) /\ ~sells[s].feed
    /\ sells' = [sells EXCEPT ![s].feed = TRUE]
    /\ UNCHANGED <<eng, intent, row, parked, redrives, task, inbox, seen, crashes, manuals>>

\* find_exit_pending_cleared, find_cleared_by_status: the wallet's net in the
\* feed is zero.
FeedCleared == Cardinality({s \in SellIds : sells[s].feed}) >= Cardinality(Positions)

\* burn_nonce_tx: a sell whose nonce is tracked can be made unable to land.
Burned(ss) == [s \in SellIds |->
    IF s \in ss /\ sells[s].st = "flying" THEN [sells[s] EXCEPT !.st = "dead"] ELSE sells[s]]
Burnable(ss) == \A s \in ss : sells[s].tracked \/ sells[s].st = "dead"
\* heal_missing_sell_legs: fetch what the feed missed of landed sells.
Healed(ss) == [s \in SellIds |->
    IF s \in ss /\ Landed(s) THEN [sells[s] EXCEPT !.feed = TRUE] ELSE sells[s]]

(***************************************************************************)
(* Guards: one exit task per position, one sell per account.               *)
(***************************************************************************)
Claims == {"queued", "late", "prove", "bag", "send", "confirm", "judge", "wait", "waitLanded",
           "leave"}
Sells == Claims \ {"queued", "late"}  \* late: it waited for the lock in vain
exit_held(p) == \E n \in 0 .. MaxExitAttempts : task[<<p, n>>].pc \in Claims
exit_mint_held == \E t \in Tasks : task[t].pc \in Sells
Idle(p) == ~exit_held(p) /\ ~exit_mint_held

Go(t, pc) == task' = [task EXCEPT ![t].pc = pc]
Spawned == [Off EXCEPT !.pc = "spawned"]
Owned(p) == eng[p] # "Gone"

(***************************************************************************)
(* The engine: decide, retry what is safe to retry, give up on the rest.   *)
(***************************************************************************)
\* The fold of a sell decision, mark_exit_pending and dispatch_sell.
DecideExit(p) ==
    /\ eng[p] = "Holding"
    /\ eng' = [eng EXCEPT ![p] = "ExitPending"]
    /\ intent' = [intent EXCEPT ![p] = 1]
    /\ row' = [row EXCEPT ![p] = "ExitPending"]
    /\ task' = [task EXCEPT ![<<p, 1>>] = Spawned]
    /\ UNCHANGED <<parked, redrives, sells, inbox, seen, crashes, manuals>>

\* on_exit_no_fill: the row keeps the sells the task sent (fail_exit kept them).
NameSent(m) == [s \in SellIds |->
    IF sells[s].by = <<m.pos, m.intent>> THEN [sells[s] EXCEPT !.named = TRUE] ELSE sells[s]]
\* (mutant) one retry too many
LastAttempt_mutant(m) == m.intent > MaxExitAttempts
LastAttempt(m) == m.intent >= MaxExitAttempts
\* on_end: the sale is booked and the position leaves the registry.
Close(m) ==
    /\ eng' = [eng EXCEPT ![m.pos] = "Gone"]
    /\ row' = [row EXCEPT ![m.pos] = "End"]
GiveUp(m, status) ==
    /\ eng' = [eng EXCEPT ![m.pos] = "Gone"]
    /\ row' = [row EXCEPT ![m.pos] = status]
    /\ sells' = NameSent(m)
    /\ UNCHANGED <<intent, task>>

Fold ==
  LET m == Head(inbox) IN
    /\ inbox # <<>>
    /\ inbox' = Tail(inbox)
    /\ IF m.kind = "Cleared"
       THEN \* ExternallyCleared: only a position whose sell is not in flight
            /\ IF eng[m.pos] = "Holding" THEN Close(m) ELSE UNCHANGED <<eng, row>>
            /\ UNCHANGED <<intent, task, sells>>
       ELSE IF eng[m.pos] # "ExitPending" \/ intent[m.pos] # m.intent
       THEN UNCHANGED <<eng, intent, row, task, sells>>
       ELSE CASE m.kind = "Confirmed" -> Close(m) /\ UNCHANGED <<intent, task, sells>>
              [] m.kind = "Unconfirmed" -> GiveUp(m, "ExitUnconfirmed")
              [] m.kind = "Fatal" -> GiveUp(m, "ExitStuck")
              [] m.kind = "Reverted" ->
                   IF LastAttempt(m)
                   THEN GiveUp(m, "ExitStuck")
                   ELSE /\ intent' = [intent EXCEPT ![m.pos] = m.intent + 1]
                        /\ task' = [task EXCEPT ![<<m.pos, m.intent + 1>>] = Spawned]
                        /\ UNCHANGED <<eng, row, sells>>
    /\ UNCHANGED <<parked, redrives, seen, crashes, manuals>>

(***************************************************************************)
(* run_exit up to its first send.                                          *)
(***************************************************************************)
Message(t, kind) == [pos |-> t[1], intent |-> t[2], kind |-> kind]
Answer(t, kind) == inbox' = Append(inbox, Message(t, kind))
Unsent(t, kind) == \A i \in 1 .. Len(inbox) : inbox[i] # Message(t, kind)

WalletNotLoaded(t) ==
    /\ task[t].pc = "spawned"
    /\ task' = [task EXCEPT ![t] = Off]
    /\ Answer(t, "Reverted")
    /\ UNCHANGED <<eng, intent, rowVars, sells, seen, bounds>>

\* The guard held by another task: this one ends without an answer.
TryBeginExit(t) ==
    /\ task[t].pc = "spawned"
    /\ IF exit_held(t[1]) THEN task' = [task EXCEPT ![t] = Off]
       ELSE IF exit_mint_held THEN Go(t, "queued")
       ELSE Go(t, "send")
    /\ UNCHANGED <<engVars, rowVars, sells, seen, bounds>>

MintWaitOver(t) ==
    /\ task[t].pc = "queued" /\ exit_mint_held
    /\ Answer(t, "Reverted")
    /\ Go(t, "late")
    /\ UNCHANGED <<eng, intent, rowVars, sells, seen, bounds>>

exit_still_current(t) == eng[t[1]] = "ExitPending" /\ intent[t[1]] = t[2]
BeginExitMint(t) ==
    /\ task[t].pc = "queued" /\ ~exit_mint_held
    /\ IF exit_still_current(t) THEN Go(t, "send") ELSE task' = [task EXCEPT ![t] = Off]
    /\ UNCHANGED <<engVars, rowVars, sells, seen, bounds>>

\* The answer is sent, the task returns and drops its guards.
Leave(t) ==
    /\ task[t].pc \in {"late", "leave"}
    /\ task' = [task EXCEPT ![t] = Off]
    /\ UNCHANGED <<engVars, rowVars, sells, seen, bounds>>

(***************************************************************************)
(* How a task ends: an engine task answers its intent, an orphan sell       *)
(* writes its row (spawn_orphan_sell, the match on its own fill channel).   *)
(***************************************************************************)
OrphanRow(p, kind) ==
    CASE kind = "Confirmed" -> "End"
      [] kind = "Unconfirmed" ->
            IF row[p] \in {"ExitPending", "Holding"} THEN "ExitUnconfirmed" ELSE row[p]
      [] OTHER -> IF row[p] \in Open THEN "ExitStuck" ELSE row[p]

Finish(t, kind) ==
    /\ Go(t, "leave")
    /\ IF t[2] = Orphan
       THEN /\ row' = [row EXCEPT ![t[1]] = OrphanRow(t[1], kind)]
            /\ UNCHANGED inbox
       ELSE /\ Answer(t, kind)
            /\ UNCHANGED row
    /\ UNCHANGED <<eng, intent, parked, redrives, seen, bounds>>

(***************************************************************************)
(* The send and confirm loop.                                              *)
(***************************************************************************)
NewSell(t, named) ==
    [pos |-> t[1], by |-> t, st |-> "flying", feed |-> FALSE, named |-> named, tracked |-> TRUE]

\* A send that failed or timed out may still have reached the network, and
\* keeps its signature when it got as far as signing.
Send(t, ok) ==
    /\ task[t].pc = "send" /\ task[t].tries < SellAttempts /\ Len(sells) < MaxSells
    /\ \E named \in {TRUE} \cup (IF "lost_append" \in Faults THEN {FALSE} ELSE {}) :
           sells' = Append(sells, NewSell(t, named))
    /\ task' = [task EXCEPT ![t].pc = "confirm", ![t].tries = @ + 1,
                            ![t].sig = Len(sells) + 1, ![t].ok = ok]
    /\ UNCHANGED <<engVars, rowVars, seen, bounds>>

SendNothing(t) ==
    /\ task[t].pc = "send" /\ task[t].tries < SellAttempts
    /\ task' = [task EXCEPT ![t].pc = "confirm", ![t].tries = @ + 1, ![t].sig = 0]
    /\ UNCHANGED <<engVars, rowVars, sells, seen, bounds>>

SendsExhausted(t) ==
    /\ task[t].pc = "send" /\ task[t].tries = SellAttempts
    /\ Finish(t, IF SentBy(t) = {} THEN "Reverted" ELSE "Unconfirmed")
    /\ UNCHANGED sells

ShownSold(t) == \E s \in SentBy(t) : sells[s].feed
ConfirmSell(t) ==
    /\ task[t].pc \in {"confirm", "wait", "waitLanded"} /\ ShownSold(t)
    /\ Finish(t, "Confirmed")
    /\ UNCHANGED sells

ConfirmWindowOver(t) ==
    /\ task[t].pc = "confirm" /\ ~ShownSold(t)
    /\ Go(t, IF task[t].sig = 0 THEN "send" ELSE "judge")
    /\ UNCHANGED <<engVars, rowVars, sells, seen, bounds>>

\* A failed send whose nonce is burned and that the chain has not seen: the
\* next attempt is safe.
\* (mutant) the nonce is not burned
ResendDead_mutant(t) ==
    LET s == task[t].sig
    IN  /\ task[t].pc = "judge" /\ ~task[t].ok /\ sells[s].st = "flying"
        /\ Go(t, "send")
        /\ UNCHANGED <<engVars, rowVars, sells, seen, bounds>>
ResendDead(t) ==
    LET s == task[t].sig
    IN  /\ task[t].pc = "judge" /\ ~task[t].ok /\ sells[s].st = "flying"
        /\ Burnable({s})
        /\ sells' = Burned({s})
        /\ Go(t, "send")
        /\ UNCHANGED <<engVars, rowVars, seen, bounds>>

\* classify_sell_confirm on a revert: retry, reroute or refresh, or stop.
JudgeReverted(t, again) ==
    /\ task[t].pc = "judge" /\ sells[task[t].sig].st = "reverted"
    /\ UNCHANGED sells
    /\ IF again THEN Go(t, "send") /\ UNCHANGED <<engVars, rowVars, seen, bounds>>
       ELSE Finish(t, "Fatal")

\* Succeeded, Pending and a failed status read all wait: never send again.
JudgeUnclear(t, readable) ==
    /\ task[t].pc = "judge"
    /\ readable => sells[task[t].sig].st # "reverted"
    /\ Go(t, IF readable /\ Landed(task[t].sig) THEN "waitLanded" ELSE "wait")
    /\ UNCHANGED <<engVars, rowVars, sells, seen, bounds>>

WaitOver(t) ==
    /\ task[t].pc \in {"wait", "waitLanded"} /\ ~ShownSold(t)
    /\ Finish(t, "Unconfirmed")
    /\ UNCHANGED sells

HealAndConfirm(t) ==
    /\ task[t].pc = "waitLanded" /\ ~ShownSold(t)
    /\ sells' = Healed(SentBy(t))
    /\ Finish(t, "Confirmed")

(***************************************************************************)
(* The orphan sell: never over a sell that may still land, and only when   *)
(* the account holds every open row's bag.  It works from the row its      *)
(* caller read.                                                            *)
(***************************************************************************)
spawn_orphan_sell(p, known) ==
    /\ Idle(p)
    /\ task' = [task EXCEPT ![<<p, Orphan>>] = [Off EXCEPT !.pc = "prove", !.known = known]]

\* landed_fill_of_own_sigs: one of the row's own sells landed.
\* (mutant) a sell on record is taken for a sell that landed
OwnLanded_mutant(known) == known # {}
\* (mutant) any sell from the account pays the row
OwnLanded_sibling(known) == \E s \in SellIds : Landed(s)
OwnLanded(known) == \E s \in known : Landed(s)

\* book_externally_cleared: through the engine when it owns the position.
Book(p) ==
    IF Owned(p)
    THEN /\ Answer(<<p, Orphan>>, "Cleared")
         /\ UNCHANGED row
    ELSE /\ row' = [row EXCEPT ![p] = "End"]
         /\ UNCHANGED inbox

OwnSellLanded(t) ==
    /\ task[t].pc = "prove"
    /\ OwnLanded(task[t].known)
    /\ sells' = Healed(task[t].known)
    /\ Book(t[1])
    /\ task' = [task EXCEPT ![t] = Off]
    /\ UNCHANGED <<eng, intent, parked, redrives, seen, bounds>>

Provable(ss) == \A s \in ss : sells[s].tracked \/ sells[s].st # "flying"
\* (the chain read failed, or the earlier sell may still land)
NotProvable(t) ==
    /\ task[t].pc \in {"prove", "bag"}
    /\ task' = [task EXCEPT ![t] = Off]
    /\ UNCHANGED <<engVars, rowVars, sells, seen, bounds>>

\* (mutant) a sell whose nonce is known counts as dead without burning it
PriorSellsDead_mutant(t) ==
    /\ task[t].pc = "prove" /\ Provable(task[t].known)
    /\ Go(t, "bag")
    /\ UNCHANGED <<engVars, rowVars, sells, seen, bounds>>
PriorSellsDead(t) ==
    /\ task[t].pc = "prove" /\ Provable(task[t].known)
    /\ sells' = Burned({s \in task[t].known : sells[s].tracked})
    /\ Go(t, "bag")
    /\ UNCHANGED <<engVars, rowVars, seen, bounds>>

OpenRows == {p \in Positions : row[p] \in Open}
ChainBagHeld(t) ==
    /\ task[t].pc = "bag"
    /\ HeldOnChain >= Cardinality(OpenRows) /\ HeldOnChain > 0
    /\ Go(t, "send")
    /\ UNCHANGED <<engVars, rowVars, sells, seen, bounds>>

ChainBagCleared(t) ==
    /\ task[t].pc = "bag" /\ HeldOnChain = 0
    /\ IF OwnLanded(task[t].known)
       THEN Book(t[1]) /\ UNCHANGED parked
       ELSE parked' = [parked EXCEPT ![t[1]] = TRUE] /\ UNCHANGED <<row, inbox>>
    /\ task' = [task EXCEPT ![t] = Off]
    /\ UNCHANGED <<eng, intent, redrives, sells, seen, bounds>>

ChainBagShort(t) ==
    /\ task[t].pc = "bag"
    /\ HeldOnChain > 0 /\ HeldOnChain < Cardinality(OpenRows)
    /\ row' = [row EXCEPT ![t[1]] = IF @ \in Open THEN "ExitStuck" ELSE @]
    /\ parked' = [parked EXCEPT ![t[1]] = TRUE]
    /\ task' = [task EXCEPT ![t] = Off]
    /\ UNCHANGED <<engVars, redrives, sells, seen, bounds>>

(***************************************************************************)
(* The reaper.                                                             *)
(***************************************************************************)
\* redrive_orphaned_exit_pending, a row the engine still owns.
\* (mutant) nobody nudges
Nudge_mutant(p) == FALSE /\ UNCHANGED vars
Nudge(p) ==
    /\ row[p] = "ExitPending" /\ eng[p] = "ExitPending" /\ Idle(p)
    /\ "early_nudge" \notin Faults => task[<<p, intent[p]>>].pc # "spawned"
    /\ Unsent(<<p, intent[p]>>, "Reverted")  \* bound: the same nudge waits once
    /\ Answer(<<p, intent[p]>>, "Reverted")
    /\ UNCHANGED <<eng, intent, rowVars, task, sells, seen, bounds>>

\* A pass lists its rows, then works through the list.
Copy(p) == [status |-> row[p], known |-> Named(p)]
ReadRow(p) ==
    /\ row[p] \in Open \ {"Holding"} /\ seen[p] # Copy(p)
    /\ seen' = [seen EXCEPT ![p] = Copy(p)]
    /\ UNCHANGED <<engVars, rowVars, task, sells, bounds>>
Listed(p, status) ==
    /\ seen[p].status = status
    /\ "stale_row" \notin Faults => seen[p] = Copy(p)
    /\ seen' = [seen EXCEPT ![p] = Unread]
Known(p) == seen[p].known

\* redrive_orphaned_exit_pending, a row nobody owns.
RedrivePending(p) ==
    /\ Listed(p, "ExitPending") /\ ~Owned(p)
    /\ spawn_orphan_sell(p, Known(p))
    /\ UNCHANGED <<engVars, rowVars, sells, bounds>>

\* park_or_recover: count the redrive, park at the cap.
CountRedrive(p) ==
    /\ redrives' = [redrives EXCEPT ![p] = IF @ < RedriveCap THEN @ + 1 ELSE @]
    /\ \/ parked' = [parked EXCEPT ![p] = @ \/ redrives[p] + 1 >= RedriveCap]
       \/ UNCHANGED parked  \* the account was re-pointed, or the bag is gone

RedriveStuck(p) ==
    /\ Listed(p, "ExitStuck") /\ ~parked[p]
    /\ spawn_orphan_sell(p, Known(p))
    /\ CountRedrive(p)
    /\ UNCHANGED <<engVars, row, sells, bounds>>

RedriveUnconfirmed(p) ==
    /\ Listed(p, "ExitUnconfirmed") /\ ~parked[p] /\ Burnable(Known(p))
    /\ sells' = Burned(Known(p))
    /\ spawn_orphan_sell(p, Known(p))
    /\ CountRedrive(p)
    /\ UNCHANGED <<engVars, row, bounds>>

\* heal_exit_pending_cleared and heal_cleared_by_status (resolve_if_bag_gone).
HealCleared(p) ==
    /\ row[p] \in Open \ {"Holding"} /\ FeedCleared /\ Idle(p)
    /\ Unsent(<<p, Orphan>>, "Cleared")
    /\ IF OwnLanded(Named(p))
       THEN Book(p) /\ UNCHANGED parked
       ELSE /\ HeldOnChain = 0 /\ ~parked[p]
            /\ parked' = [parked EXCEPT ![p] = TRUE]
            /\ UNCHANGED <<row, inbox>>
    /\ UNCHANGED <<eng, intent, redrives, task, sells, seen, bounds>>

\* mark_stale_exit_pending_stuck.
MarkStale(p) ==
    /\ row[p] = "ExitPending" /\ ~FeedCleared
    /\ "slow" \notin Faults => ~Owned(p)
    /\ row' = [row EXCEPT ![p] = "ExitStuck"]
    /\ UNCHANGED <<engVars, parked, redrives, task, sells, seen, bounds>>

(***************************************************************************)
(* The operator's retry, and a restart: Holding rows are adopted, the      *)
(* nonces of sent sells are forgotten.                                     *)
(***************************************************************************)
ManualRetry(p) ==
    /\ row[p] \in {"ExitStuck", "ExitUnconfirmed"} /\ manuals < MaxManual
    /\ manuals' = manuals + 1
    /\ spawn_orphan_sell(p, Named(p))
    /\ IF row[p] = "ExitStuck" /\ parked[p]
       THEN /\ parked' = [parked EXCEPT ![p] = FALSE]
            /\ redrives' = [redrives EXCEPT ![p] = 0]
       ELSE UNCHANGED <<parked, redrives>>
    /\ UNCHANGED <<engVars, row, sells, seen, crashes>>

\* verify_position: book what the row's own sells already sold, never sell.
Verify(p) ==
    /\ row[p] = "ExitUnconfirmed" /\ OwnLanded(Named(p))
    /\ "verify_race" \notin Faults => Idle(p)
    /\ sells' = Healed(Named(p))
    /\ Book(p)
    /\ UNCHANGED <<eng, intent, parked, redrives, task, seen, bounds>>

Restart ==
    /\ crashes < MaxCrashes
    /\ crashes' = crashes + 1
    /\ eng' = [p \in Positions |-> IF row[p] = "Holding" THEN "Holding" ELSE "Gone"]
    /\ task' = [t \in Tasks |-> Off]
    /\ inbox' = <<>>
    /\ sells' = [s \in SellIds |-> [sells[s] EXCEPT !.tracked = FALSE]]
    /\ seen' = [p \in Positions |-> Unread]
    /\ UNCHANGED <<intent, rowVars, manuals>>

-----------------------------------------------------------------------------
TaskStep(t) ==
    \/ WalletNotLoaded(t) \/ TryBeginExit(t) \/ MintWaitOver(t) \/ BeginExitMint(t)
    \/ Leave(t) \/ SendNothing(t) \/ SendsExhausted(t) \/ ConfirmSell(t)
    \/ ConfirmWindowOver(t) \/ ResendDead(t) \/ WaitOver(t) \/ HealAndConfirm(t)
    \/ \E b \in BOOLEAN : Send(t, b) \/ JudgeReverted(t, b) \/ JudgeUnclear(t, b)
    \/ OwnSellLanded(t) \/ NotProvable(t) \/ PriorSellsDead(t)
    \/ ChainBagHeld(t) \/ ChainBagCleared(t) \/ ChainBagShort(t)

Reaper(p) ==
    \/ Nudge(p) \/ ReadRow(p) \/ RedrivePending(p) \/ RedriveStuck(p)
    \/ RedriveUnconfirmed(p) \/ HealCleared(p) \/ MarkStale(p)

Next ==
    \/ \E p \in Positions : DecideExit(p) \/ Reaper(p) \/ ManualRetry(p) \/ Verify(p)
    \/ Fold
    \/ \E t \in Tasks : TaskStep(t)
    \/ \E s \in SellIds : Land(s) \/ Revert(s) \/ FeedShows(s)
    \/ Restart

Spec == Init /\ [][Next]_vars

\* Every wait of a task is bounded by a timeout, the loop folds its inbox, and
\* the reaper ticks forever; what else happens may keep a guard held at a tick,
\* hence strong fairness for the nudge.
Fairness ==
    /\ \A t \in Tasks : WF_vars(TaskStep(t))
    /\ WF_vars(Fold)
    /\ \A p \in Positions : SF_vars(Nudge(p))
FairSpec == Spec /\ Fairness

-----------------------------------------------------------------------------
TypeOK ==
    /\ eng \in [Positions -> {"Holding", "ExitPending", "Gone"}]
    /\ intent \in [Positions -> 0 .. MaxExitAttempts]
    /\ row \in [Positions -> Open \cup {"End"}]
    /\ parked \in [Positions -> BOOLEAN]
    /\ redrives \in [Positions -> 0 .. RedriveCap]
    /\ \A t \in Tasks : task[t].pc \in Claims \cup {"off", "spawned"}
    /\ Len(sells) <= MaxSells

\* No position has two sells that landed or can still land: a second one takes
\* a sibling's tokens out of the shared account (run_exit's never-resend rule,
\* burn_nonce_tx, prior_sells_dead and the row's exit_tx_signatures together).
OneLiveSell ==
    \A p \in Positions : Cardinality({s \in SellsOf(p) : sells[s].st \in {"flying", "landed"}}) <= 1

\* A row is closed only when one of its own sells landed: never by a sibling's
\* sell, a sell in flight, or silence (finish_cleared_sell,
\* landed_fill_of_own_sigs, close_cleared_bag).
BookedIsSold == \A p \in Positions : row[p] = "End" => \E s \in SellsOf(p) : Landed(s)

\* An exit the engine has in flight ends: every task answers, or the reaper
\* answers for it, so the arm and its concurrency slot are given back.
ExitAnswered == \A p \in Positions : eng[p] = "ExitPending" ~> eng[p] # "ExitPending"

\* "Stuck/unconfirmed rows are never engine-owned (the arm was dropped)":
\* the close handler of the console relies on it.
StuckNotOwned ==
    \A p \in Positions : row[p] \in {"ExitStuck", "ExitUnconfirmed"} => ~Owned(p)
=============================================================================
