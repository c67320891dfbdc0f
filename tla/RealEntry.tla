----------------------------- MODULE RealEntry -----------------------------
(***************************************************************************)
(* A real position's entry, end to end: the engine's buy intent and its    *)
(* retries, dispatch_buy, the entry task (exec_real.rs, run_entry), the    *)
(* sink's background writes, the reaper and the operator's Verify          *)
(* (reapers.rs, resolve_buy_submitted), adoption after a restart, and the  *)
(* chain with its feed.                                                    *)
(*                                                                         *)
(* One position.  A buy on a durable nonce never expires: it can land any  *)
(* time later unless its nonce is burned, and only a tracked one can be.   *)
(***************************************************************************)
EXTENDS Naturals, Sequences, FiniteSets

CONSTANTS
    MaxEntryAttempts,  \* engine bound on the buys of one entry
    MaxBuys,           \* bound: buys ever signed
    MaxCrashes,        \* bound: restarts
    MaxInbox,          \* bound: a reaper tick starts with fewer answers unread
    Faults             \* what may go wrong besides sends, RPC reads and reverts

(***************************************************************************)
(* "lost_mark": mark_buy_submitted times out, or a restart beats it or the *)
(*     insert of the row;                                                  *)
(* "stale_copy": the reaper acts on the row it listed when the tick began; *)
(* "overlap": the reaper resolves the row while the engine is between two  *)
(*     attempts or its writes are on their way (an answer unread, a task   *)
(*     not begun, a mark or a booking not yet in the row);                 *)
(* "migrated_unseen": a buy that landed is not on the feed by the end of   *)
(*     its window, and the token has migrated;                             *)
(* "feed_gap": a landed buy is not on the feed when the RPC node no longer  *)
(*     has its status (it keeps a few minutes of them);                    *)
(* "untracked": a buy rides a recent blockhash (the nonce pool was busy),  *)
(*     or is older than this process, so no burn can prove it dead.        *)
(***************************************************************************)
FaultKinds == {"lost_mark", "stale_copy", "overlap", "migrated_unseen", "feed_gap",
               "untracked"}

ASSUME RealEntryAssumption ==
    /\ MaxEntryAttempts \in Nat \ {0} /\ MaxBuys \in Nat /\ MaxCrashes \in Nat
    /\ MaxInbox \in Nat \ {0}
    /\ Faults \subseteq FaultKinds

NoOne == 0
Intents == 1 .. MaxEntryAttempts
Reaper == MaxEntryAttempts + 1

VARIABLES
    eng,      \* the arm: Armed, EntryPending, Entered or Gone
    intent,   \* its intent in flight, one per attempt
    reg,      \* the registry's inflight_intent; 0: none
    inbox,    \* fill_tx: answers on their way to the engine, in order
    task,     \* the entry task of each intent
    guard,    \* who holds the entry guard of this position
    journal,  \* BuyJournal: the buys this process signed
    row,      \* the durable row: status, signatures, buy legs booked, age
    pg,       \* the sink's chained writes still to run
    marks,    \* mark_buy_submitted calls still to run
    buys,     \* every buy ever signed
    migrated,
    reaper,
    crashes

vars == <<eng, intent, reg, inbox, task, guard, journal, row, pg, marks, buys, migrated,
          reaper, crashes>>
engVars == <<eng, intent, reg>>
taskVars == <<task, guard, journal>>
dbVars == <<row, pg, marks>>
chainVars == <<buys, migrated>>

BuyIds == 1 .. Len(buys)
Off == [pc |-> "off", sig |-> 0]
IdleReaper == [pc |-> "idle", sigs |-> {}, old |-> FALSE]
Answer(i, what) == [intent |-> i, what |-> what]

Flying(b) == buys[b].st = "flying"
CanLand(b) == Flying(b) /\ ~migrated  \* a completed curve takes no buy
Landed(b) == buys[b].st = "landed"
Reverted(b) == buys[b].st = "reverted"
OnFeed(b) == Landed(b) /\ buys[b].feed

Init ==
    /\ eng = "Armed" /\ intent = 0 /\ reg = NoOne
    /\ inbox = <<>>
    /\ task = [i \in Intents |-> Off]
    /\ guard = NoOne /\ journal = {}
    /\ row = [status |-> "none", sigs |-> {}, booked |-> 0, old |-> FALSE]
    /\ pg = <<>> /\ marks = {}
    /\ buys = <<>> /\ migrated = FALSE
    /\ reaper = IdleReaper
    /\ crashes = 0

-----------------------------------------------------------------------------
(* The engine: it enters, folds answers, and dispatches its next buy.      *)

DispatchForgetsAnswer(i, rest) ==
    \/ /\ reg' = i
       /\ task' = [task EXCEPT ![i] = [pc |-> "start", sig |-> 0]]
       /\ inbox' = rest
    \/ /\ inbox' = rest
       /\ UNCHANGED <<reg, task>>

\* It spawns the task, or (no arm, wallet, SOL) answers the intent itself.
dispatch_buy(i, rest) ==
    \/ /\ reg' = i
       /\ task' = [task EXCEPT ![i] = [pc |-> "start", sig |-> 0]]
       /\ inbox' = rest
    \/ /\ inbox' = Append(rest, Answer(i, "Fatal"))
       /\ UNCHANGED <<reg, task>>

Enter ==
    /\ eng = "Armed"
    /\ eng' = "EntryPending" /\ intent' = 1
    /\ pg' = Append(pg, "insert")
    /\ dispatch_buy(1, inbox)
    /\ UNCHANGED <<guard, journal, row, marks, chainVars, reaper, crashes>>

\* The sink books the failure and drops the registry entry.
on_entry_failed ==
    /\ eng' = "Gone" /\ reg' = NoOne
    /\ pg' = Append(pg, "failed")
    /\ UNCHANGED intent

IsAnswer(what) ==
    /\ inbox # <<>>
    /\ eng = "EntryPending" /\ Head(inbox) = Answer(intent, what)

FoldFilled ==
    /\ IsAnswer("Filled")
    /\ eng' = "Entered"
    /\ pg' = Append(pg, "holding")
    /\ inbox' = Tail(inbox)
    /\ UNCHANGED <<intent, reg, taskVars, row, marks, chainVars, reaper, crashes>>

\* A revert retries while attempts are left and the rule still qualifies.
RetriesForEver == TRUE

AttemptsLeft == intent < MaxEntryAttempts

FoldRetry ==
    /\ IsAnswer("Reverted") /\ AttemptsLeft
    /\ intent' = intent + 1
    /\ dispatch_buy(intent + 1, Tail(inbox))
    /\ UNCHANGED <<eng, guard, journal, dbVars, chainVars, reaper, crashes>>

FoldGiveUp ==
    /\ IsAnswer("Reverted") \/ IsAnswer("Fatal")
    /\ on_entry_failed
    /\ inbox' = Tail(inbox)
    /\ UNCHANGED <<taskVars, row, marks, chainVars, reaper, crashes>>

FoldStale ==
    /\ inbox # <<>>
    /\ ~(eng = "EntryPending" /\ Head(inbox).intent = intent)
    /\ inbox' = Tail(inbox)
    /\ UNCHANGED <<engVars, taskVars, dbVars, chainVars, reaper, crashes>>

ClosesAnyBuy == FALSE

\* A Stop closes what it may: never a real buy in flight.
real_buy_in_flight == reg # NoOne

Stop ==
    /\ eng = "EntryPending" /\ ~real_buy_in_flight
    /\ on_entry_failed
    /\ UNCHANGED <<inbox, taskVars, row, marks, chainVars, reaper, crashes>>

-----------------------------------------------------------------------------
(* The entry task of intent i.                                             *)

Goto(i, pc) == task' = [task EXCEPT ![i].pc = pc]
At(i, pc) == task[i].pc = pc

Reply(i, what) ==
    /\ inbox' = Append(inbox, Answer(i, what))
    /\ Goto(i, "leaving")

OnlyTask == UNCHANGED <<engVars, dbVars, chainVars, reaper, crashes>>

\* The guard is taken, or the intent is failed as retryable.
StartClaim(i) ==
    /\ At(i, "start") /\ guard = NoOne
    /\ guard' = i
    /\ Goto(i, "claimed")
    /\ UNCHANGED <<inbox, journal>> /\ OnlyTask

StartHeld(i) ==
    /\ At(i, "start") /\ guard # NoOne
    /\ inbox' = Append(inbox, Answer(i, "Reverted"))
    /\ task' = [task EXCEPT ![i] = Off]
    /\ UNCHANGED <<guard, journal>> /\ OnlyTask

StartNoWallet(i) ==
    /\ At(i, "start")
    /\ inbox' = Append(inbox, Answer(i, "Fatal"))
    /\ task' = [task EXCEPT ![i] = Off]
    /\ UNCHANGED <<guard, journal>> /\ OnlyTask

\* adopt_existing_fill comes first.  It never finds a fill: a retry is sent only
\* after every buy of the journal is known to have reverted.
NothingToAdopt(i) == At(i, "claimed") /\ \A b \in journal : ~OnFeed(b)

\* Too late for a retry, or the token has migrated: no send.
SkipSend(i) ==
    /\ NothingToAdopt(i)
    /\ journal # {} \/ migrated
    /\ Reply(i, "Fatal")
    /\ UNCHANGED <<guard, journal>> /\ OnlyTask

NeverSigned(i) ==
    /\ NothingToAdopt(i) /\ ~migrated
    /\ Reply(i, "Reverted")
    /\ UNCHANGED <<guard, journal>> /\ OnlyTask

on_signed(i) ==
    LET b == Len(buys) + 1 IN
    /\ NothingToAdopt(i) /\ ~migrated
    /\ Len(buys) < MaxBuys
    /\ \E tracked \in (IF "untracked" \in Faults THEN BOOLEAN ELSE {TRUE}) :
          buys' = Append(buys, [st |-> "flying", feed |-> FALSE, forgot |-> FALSE,
                                tracked |-> tracked])
    /\ journal' = journal \cup {b}
    /\ marks' = marks \cup {b}
    /\ task' = [task EXCEPT ![i] = [pc |-> "early", sig |-> b]]
    /\ UNCHANGED <<engVars, inbox, guard, row, pg, migrated, reaper, crashes>>

\* confirm_entry: the feed ends every wait at once.
poll_feed_buy(i) ==
    /\ task[i].pc \in {"early", "window", "extended"} /\ OnFeed(task[i].sig)
    /\ Reply(i, "Filled")
    /\ UNCHANGED <<guard, journal>> /\ OnlyTask

\* The migration gate comes before the status read, and ends the entry.
Gate(i) ==
    \/ ~migrated /\ Goto(i, "ended") /\ UNCHANGED inbox
    \/ /\ migrated
       /\ "migrated_unseen" \in Faults \/ ~Landed(task[i].sig)
       /\ Reply(i, "Fatal")

\* By ENTRY_EARLY_STATUS the mark has landed or timed out.
EarlyStatus(i) ==
    /\ At(i, "early") /\ ~OnFeed(task[i].sig) /\ task[i].sig \notin marks
    /\ \/ Reverted(task[i].sig) /\ Gate(i)
       \/ Goto(i, "window") /\ UNCHANGED inbox
    /\ UNCHANGED <<guard, journal>> /\ OnlyTask

WindowEnds(i) ==
    /\ At(i, "window") /\ ~OnFeed(task[i].sig)
    /\ Gate(i)
    /\ UNCHANGED <<guard, journal>> /\ OnlyTask

PendingIsRevert(b) == Reverted(b) \/ Flying(b)

\* classify_silent_send: pending is not failed.
IsRevert(b) == Reverted(b)

ConfirmReverted(i) ==
    /\ At(i, "ended") /\ IsRevert(task[i].sig)
    /\ Reply(i, "Reverted") \/ Reply(i, "Fatal")
    /\ UNCHANGED <<guard, journal>> /\ OnlyTask

ConfirmLanded(i) ==
    /\ At(i, "ended") /\ Landed(task[i].sig)
    /\ Goto(i, "extended")
    /\ UNCHANGED <<inbox, guard, journal>> /\ OnlyTask

\* Pending, unreadable, or landed and never seen: no answer, the reaper's row.
Ambiguous(i) ==
    /\ \/ At(i, "ended")
       \/ At(i, "extended") /\ ~OnFeed(task[i].sig)
    /\ Goto(i, "leaving")
    /\ UNCHANGED <<inbox, guard, journal>> /\ OnlyTask

\* The guard falls with the task, after its answer was sent.
Leave(i) ==
    /\ At(i, "leaving")
    /\ guard' = NoOne
    /\ task' = [task EXCEPT ![i] = Off]
    /\ UNCHANGED <<inbox, journal>> /\ OnlyTask

Confirm(i) ==
    \/ poll_feed_buy(i) \/ EarlyStatus(i) \/ WindowEnds(i)
    \/ ConfirmReverted(i) \/ ConfirmLanded(i) \/ Ambiguous(i)

run_entry(i) ==
    \/ StartClaim(i) \/ StartHeld(i) \/ StartNoWallet(i)
    \/ SkipSend(i) \/ NeverSigned(i) \/ on_signed(i) \/ Confirm(i) \/ Leave(i)

-----------------------------------------------------------------------------
(* Background writes: the sink's chain, and the signature marks.           *)

Exists == row.status \notin {"none", "deleted"}

BookEntry == [row EXCEPT !.status = "Holding", !.booked = @ + 1]

PgInsert ==
    /\ pg # <<>> /\ Head(pg) = "insert"
    /\ row' = [row EXCEPT !.status = "BuySubmitted"]
    /\ pg' = Tail(pg)
    /\ UNCHANGED <<engVars, inbox, taskVars, marks, chainVars, reaper, crashes>>

record_entry_fill ==
    /\ pg # <<>> /\ Head(pg) = "holding"
    /\ row' = IF Exists THEN BookEntry ELSE row
    /\ pg' = Tail(pg)
    /\ UNCHANGED <<engVars, inbox, taskVars, marks, chainVars, reaper, crashes>>

mark_entry_failed ==
    /\ pg # <<>> /\ Head(pg) = "failed"
    /\ row' = IF Exists THEN [row EXCEPT !.status = "EntryFailed"] ELSE row
    /\ pg' = Tail(pg)
    /\ UNCHANGED <<engVars, inbox, taskVars, marks, chainVars, reaper, crashes>>

\* It waits for the insert, and leaves a row past BuySubmitted alone.
mark_buy_submitted(b) ==
    /\ b \in marks /\ row.status # "none"
    /\ row' = IF row.status = "BuySubmitted" THEN [row EXCEPT !.sigs = @ \cup {b}, !.old = FALSE]
                                              ELSE row
    /\ marks' = marks \ {b}
    /\ UNCHANGED <<engVars, inbox, taskVars, pg, chainVars, reaper, crashes>>

MarkLost(b) ==
    /\ "lost_mark" \in Faults /\ b \in marks
    /\ marks' = marks \ {b}
    /\ UNCHANGED <<engVars, inbox, taskVars, row, pg, chainVars, reaper, crashes>>

\* UNENTERED_STALE and NEVER_BROADCAST_STALE, ten minutes: a task and its
\* writes take less than two.
Ages ==
    /\ row.status = "BuySubmitted" /\ ~row.old
    /\ marks = {} /\ inbox = <<>> /\ \A i \in Intents : task[i] = Off
    /\ row' = [row EXCEPT !.old = TRUE]
    /\ UNCHANGED <<engVars, inbox, taskVars, pg, marks, chainVars, reaper, crashes>>

Writes ==
    \/ Ages
    \/ PgInsert \/ record_entry_fill \/ mark_entry_failed
    \/ \E b \in marks : mark_buy_submitted(b) \/ MarkLost(b)

-----------------------------------------------------------------------------
(* The reaper, and the operator's Verify: adopt, drop, or wait.            *)

OnlyReaper == UNCHANGED <<engVars, task, journal, pg, marks, migrated, crashes>>

\* A spawned task claims the guard at once; the reaper's reads take longer.
NoneStarting == \A i \in Intents : task[i].pc # "start"

\* The engine is not between two attempts, and the row says all it will.
Settled ==
    /\ pg = <<>> /\ marks = {}
    /\ NoneStarting
    /\ \A n \in 1 .. Len(inbox) : inbox[n].intent # intent

find_all_buy_submitted ==
    /\ reaper.pc = "idle" /\ row.status = "BuySubmitted" /\ Len(inbox) < MaxInbox
    /\ reaper' = [pc |-> "listed", sigs |-> row.sigs, old |-> row.old]
    /\ UNCHANGED <<inbox, guard, row, buys>> /\ OnlyReaper

CopyIsFresh == row.status = "BuySubmitted" /\ row.sigs = reaper.sigs

\* The guard is held: the next row of the list.
ReaperSkips ==
    /\ reaper.pc = "listed" /\ (guard # NoOne \/ ~CopyIsFresh)
    /\ reaper' = IdleReaper
    /\ UNCHANGED <<inbox, guard, row, buys>> /\ OnlyReaper

try_begin_entry ==
    /\ reaper.pc = "listed" /\ guard = NoOne
    /\ "stale_copy" \in Faults \/ CopyIsFresh
    /\ "overlap" \in Faults \/ Settled
    /\ guard' = Reaper
    /\ reaper' = [reaper EXCEPT !.pc = "resolve"]
    /\ UNCHANGED <<inbox, row, buys>> /\ OnlyReaper

Indexed == \E b \in reaper.sigs : OnFeed(b)

AdoptTwice ==
    /\ reaper.pc = "resolve" /\ Indexed
    /\ eng # "Gone" /\ reg # NoOne
    /\ inbox' = Append(inbox, Answer(reg, "Filled"))
    /\ row' = BookEntry
    /\ reaper' = [reaper EXCEPT !.pc = "leaving"]
    /\ UNCHANGED <<guard, buys>> /\ OnlyReaper

\* The engine still owns the buy: hand it the fill, and let the sink book it.
AdoptToEngine ==
    /\ reaper.pc = "resolve" /\ Indexed
    /\ eng # "Gone" /\ reg # NoOne
    /\ inbox' = Append(inbox, Answer(reg, "Filled"))
    /\ reaper' = [reaper EXCEPT !.pc = "leaving"]
    /\ UNCHANGED <<guard, row, buys>> /\ OnlyReaper

AdoptRow ==
    /\ reaper.pc = "resolve" /\ Indexed
    /\ ~(eng # "Gone" /\ reg # NoOne) /\ Exists
    /\ row' = BookEntry
    /\ reaper' = [reaper EXCEPT !.pc = "leaving"]
    /\ UNCHANGED <<inbox, guard, buys>> /\ OnlyReaper

\* No signature, long enough, and the feed shows no buy of this wallet.
NeverMarked == reaper.sigs = {} /\ reaper.old /\ \A b \in BuyIds : ~OnFeed(b)

\* Every signature the row names has reverted.
AllReverted == reaper.sigs # {} /\ \A b \in reaper.sigs : Reverted(b) /\ ~buys[b].forgot

ResolveDrop ==
    /\ reaper.pc = "resolve" /\ ~Indexed /\ NoneStarting
    /\ NeverMarked \/ AllReverted
    /\ reaper' = [reaper EXCEPT !.pc = "drop"]
    /\ UNCHANGED <<inbox, guard, row, buys>> /\ OnlyReaper

\* resolve_never_broadcast: burn every nonce first.
ResolveBurn ==
    /\ reaper.pc = "resolve" /\ ~Indexed /\ NoneStarting
    /\ reaper.sigs # {} /\ reaper.old /\ \A b \in reaper.sigs : buys[b].tracked
    /\ buys' = [b \in BuyIds |-> IF b \in reaper.sigs /\ Flying(b)
                                 THEN [buys[b] EXCEPT !.st = "dead"] ELSE buys[b]]
    /\ reaper' = [reaper EXCEPT !.pc = "burned"]
    /\ UNCHANGED <<inbox, guard, row>> /\ OnlyReaper

\* Then no signature may have a status, and none may be on the feed.
NeverLanded ==
    \A b \in reaper.sigs : (buys[b].st = "dead" \/ buys[b].forgot) /\ ~OnFeed(b)

ResolveDead ==
    /\ reaper.pc = "burned" /\ NeverLanded
    /\ reaper' = [reaper EXCEPT !.pc = "drop"]
    /\ UNCHANGED <<inbox, guard, row, buys>> /\ OnlyReaper

\* Too young, throttled, unreadable, not provable: nothing changes.
ResolveWait ==
    /\ reaper.pc \in {"resolve", "burned"}
    /\ reaper' = [reaper EXCEPT !.pc = "leaving"]
    /\ UNCHANGED <<inbox, guard, row, buys>> /\ OnlyReaper

DropRow ==
    /\ reaper.pc = "drop" /\ NoneStarting
    /\ row' = [row EXCEPT !.status = "deleted"]
    /\ reaper' = [reaper EXCEPT !.pc = "tell"]
    /\ UNCHANGED <<inbox, guard, buys>> /\ OnlyReaper

DropTell ==
    /\ reaper.pc = "tell"
    /\ inbox' = IF eng # "Gone" /\ reg # NoOne
                THEN Append(inbox, Answer(reg, "Fatal")) ELSE inbox
    /\ reaper' = [reaper EXCEPT !.pc = "leaving"]
    /\ UNCHANGED <<guard, row, buys>> /\ OnlyReaper

ReaperLeaves ==
    /\ reaper.pc = "leaving"
    /\ guard' = NoOne
    /\ reaper' = IdleReaper
    /\ UNCHANGED <<inbox, row, buys>> /\ OnlyReaper

resolve_buy_submitted ==
    \/ AdoptToEngine \/ AdoptRow \/ ResolveDrop \/ ResolveBurn \/ ResolveDead
    \/ ResolveWait \/ DropRow \/ DropTell \/ ReaperLeaves

redrive_orphaned_buy_submitted ==
    find_all_buy_submitted \/ ReaperSkips \/ try_begin_entry \/ resolve_buy_submitted

-----------------------------------------------------------------------------
(* The chain, its feed, and a restart.                                     *)

OnlyChain == UNCHANGED <<engVars, inbox, taskVars, dbVars, reaper, crashes>>

Lands(b) ==
    /\ CanLand(b)
    /\ buys' = [buys EXCEPT ![b].st = "landed"]
    /\ UNCHANGED migrated /\ OnlyChain

Reverts(b) ==
    /\ Flying(b)
    /\ buys' = [buys EXCEPT ![b].st = "reverted"]
    /\ UNCHANGED migrated /\ OnlyChain

\* A recent blockhash expires; nothing ever reports it.
Expires(b) ==
    /\ Flying(b) /\ ~buys[b].tracked
    /\ buys' = [buys EXCEPT ![b].st = "dead"]
    /\ UNCHANGED migrated /\ OnlyChain

Feed(b) ==
    /\ Landed(b) /\ ~buys[b].feed
    /\ buys' = [buys EXCEPT ![b].feed = TRUE]
    /\ UNCHANGED migrated /\ OnlyChain

\* getSignatureStatuses answers from a recent cache only.
Forget(b) ==
    /\ Landed(b) \/ Reverted(b)
    /\ ~buys[b].forgot /\ \A i \in Intents : task[i].sig # b
    /\ "feed_gap" \in Faults \/ Reverted(b) \/ buys[b].feed
    /\ buys' = [buys EXCEPT ![b].forgot = TRUE]
    /\ UNCHANGED migrated /\ OnlyChain

Migrate ==
    /\ ~migrated
    /\ migrated' = TRUE
    /\ UNCHANGED buys /\ OnlyChain

Chain ==
    \/ Migrate
    \/ \E b \in BuyIds : Lands(b) \/ Reverts(b) \/ Expires(b) \/ Feed(b) \/ Forget(b)

\* adopt_holdings, adopt_buy_submitted: each open row comes back once, a
\* submitted one with a fresh intent and no task; none if the rows cannot be read.
AdoptedAs(read) ==
    CASE read /\ row.status = "BuySubmitted" -> "EntryPending"
      [] read /\ row.status = "Holding" -> "Entered"
      [] OTHER -> "Gone"

Crash ==
    /\ crashes < MaxCrashes /\ eng # "Armed"
    /\ "lost_mark" \in Faults \/ (marks = {} /\ row.status # "none")
    /\ crashes' = crashes + 1
    /\ \E read \in BOOLEAN : eng' = AdoptedAs(read)
    /\ intent' = 1
    /\ reg' = IF eng' = "EntryPending" THEN 1 ELSE NoOne
    /\ inbox' = <<>>
    /\ task' = [i \in Intents |-> Off]
    /\ guard' = NoOne /\ journal' = {}
    /\ pg' = <<>> /\ marks' = {}
    /\ buys' = [b \in BuyIds |-> [buys[b] EXCEPT !.tracked = FALSE]]
    /\ reaper' = IdleReaper
    /\ UNCHANGED <<row, migrated>>

Engine == Enter \/ FoldFilled \/ FoldRetry \/ FoldGiveUp \/ FoldStale \/ Stop

Next ==
    \/ Engine
    \/ \E i \in Intents : run_entry(i)
    \/ Writes
    \/ redrive_orphaned_buy_submitted
    \/ Chain
    \/ Crash

Spec == Init /\ [][Next]_vars

(***************************************************************************)
(* What the code promises to do: fold its inbox, run its tasks and writes, *)
(* and tick the reaper.  A reaper's pass gives up on any RPC error, so its *)
(* reads need strong fairness: an RPC that answers again and again.        *)
(* Nothing is promised of the chain, but the feed carries what landed.     *)
(***************************************************************************)
FairSpec ==
    /\ Spec
    /\ WF_vars(FoldFilled \/ FoldRetry \/ FoldGiveUp \/ FoldStale)
    /\ \A i \in Intents : WF_vars(run_entry(i))
    /\ WF_vars(PgInsert \/ record_entry_fill \/ mark_entry_failed)
    /\ \A b \in 1 .. MaxBuys : WF_vars(mark_buy_submitted(b))
    /\ WF_vars(Ages)
    /\ WF_vars(find_all_buy_submitted) /\ WF_vars(ReaperSkips) /\ SF_vars(try_begin_entry)
    /\ SF_vars(AdoptToEngine \/ AdoptRow)
    /\ SF_vars(ResolveDrop) /\ SF_vars(ResolveBurn) /\ SF_vars(ResolveDead)
    /\ WF_vars(resolve_buy_submitted)
    /\ \A b \in 1 .. MaxBuys : /\ WF_vars(b \in BuyIds /\ Feed(b))
                               /\ WF_vars(b \in BuyIds /\ Forget(b))

-----------------------------------------------------------------------------
TypeOK ==
    /\ eng \in {"Armed", "EntryPending", "Entered", "Gone"}
    /\ intent \in 0 .. MaxEntryAttempts /\ reg \in 0 .. MaxEntryAttempts
    /\ inbox \in Seq([intent : Intents, what : {"Filled", "Reverted", "Fatal"}])
    /\ task \in [Intents -> [pc : {"off", "start", "claimed", "early", "window", "ended",
                                   "extended", "leaving"},
                             sig : 0 .. MaxBuys]]
    /\ guard \in 0 .. Reaper
    /\ journal \subseteq BuyIds /\ marks \subseteq BuyIds
    /\ row.status \in {"none", "BuySubmitted", "Holding", "EntryFailed", "deleted"}
    /\ row.sigs \subseteq BuyIds /\ row.booked \in Nat /\ row.old \in BOOLEAN
    /\ pg \in Seq({"insert", "holding", "failed"})
    /\ buys \in Seq([st : {"flying", "landed", "reverted", "dead"}, feed : BOOLEAN,
                     forgot : BOOLEAN, tracked : BOOLEAN])
    /\ migrated \in BOOLEAN /\ crashes \in 0 .. MaxCrashes
    /\ reaper.pc \in {"idle", "listed", "resolve", "burned", "drop", "tell", "leaving"}
    /\ reaper.sigs \subseteq BuyIds

\* Nothing durable stands for this entry any more.
Abandoned ==
    \/ row.status \in {"EntryFailed", "deleted"}
    \/ row.status = "none" /\ eng = "Gone" /\ pg = <<>>

\* A position given up (its row failed, dropped, or never written) owns no
\* tokens and never will: no buy of it has landed or can still land.  Retry,
\* reaper, Verify, Stop and restart each have their own way to give up.
NoStrandedBuy == Abandoned => \A b \in BuyIds : ~Landed(b) /\ ~CanLand(b)

\* At most one buy of a position has landed or can still land: no retry after
\* a revert, an ambiguous end or a restart buys twice.
OneLiveBuy == \A b, c \in BuyIds : (b # c /\ (Landed(b) \/ CanLand(b))) => ~(Landed(c) \/ CanLand(c))

\* The entry's fill is booked once, whoever learns of it first (task, reaper,
\* Verify, restarted engine), and only for a buy that landed.
BookedOnce ==
    /\ row.booked <= 1
    /\ row.booked = 1 => \E b \in BuyIds : Landed(b)

\* A buy without a fill that rides a recent blockhash or was signed before a
\* restart: no nonce burn can prove it dead, and the RPC node forgets a revert.
Unprovable == \E b \in BuyIds : ~Landed(b) /\ ~buys[b].tracked

\* Every submitted entry ends, whatever is lost, reverts, migrates or restarts:
\* the arm, and the caps it counts against, are held for good only by a buy
\* whose fate neither the reaper nor Verify has a way to prove.
EntryAnswered == (eng = "EntryPending") ~> (eng # "EntryPending" \/ Unprovable)
=============================================================================
