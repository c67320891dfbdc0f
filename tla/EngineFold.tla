----------------------------- MODULE EngineFold -----------------------------
(***************************************************************************)
(* The decision engine of hunter (hunter/engine/src/reduce.rs): the fold   *)
(* reduce(state, event) that arms trading rules on tokens, submits buys    *)
(* and sells, books their answers and keeps the cap counters.              *)
(*                                                                         *)
(* The fold is single threaded.  Every event is one action, except that    *)
(* the per-arm loop of evaluate_token is one step per arm (DecideArm):     *)
(* while an evaluation runs (cur # NoMint) no other event is folded.       *)
(* Metrics, prices and clocks are abstracted to the verdicts they give:    *)
(* what an entry condition, a sell line or an elapsed cooldown says is a   *)
(* nondeterministic input.  The executor is the environment: an order      *)
(* handed to it is outstanding until its first answer, and an answer may   *)
(* be repeated or arrive after the arm has moved on.                       *)
(***************************************************************************)
EXTENDS Integers, FiniteSets

CONSTANTS
    Mints,              \* token mints, a set of naturals (BTreeMap order)
    Rules,              \* ids of strategy rules, a set of naturals
    Manual,             \* ids of manual episodes, naturals disjoint from Rules
    Priority,           \* rule -> priority
    Exclusive,          \* rules with the exclusive flag
    FirstSlot,          \* rules whose fingerprint has a first-slot axis
    ConcurrentCap,      \* rule -> bound on open positions
    TotalCap,           \* rule -> bound on entries of one run
    MaxPerCoin,         \* rule -> re-entry episodes per token, 0 = one-shot
    MaxEntryAttempts,
    MaxExitAttempts,
    Bag,                \* shares of one bag (10_000 basis points in the code)
    PartialBps,         \* sizes of partial sells a rule's plan may name
    ManualBps,          \* sizes of the console's "Sell N%"
    ReloadStates,       \* bound: rule states a reload may install
    MaxPositions,       \* bound: position ids minted
    MaxIntents          \* bound: no new partial sell once this many intents

AllRules == Rules \cup Manual
NoMint == 0
Statuses == {"Unborn", "BuySubmitted", "Holding", "ExitPending",
             "End", "EntryFailed", "ExitStuck", "ExitUnconfirmed"}
RuleStates == {"absent", "drain", "paper", "real"}
FailReasons == {"Reverted", "Timeout", "Unconfirmed", "Fatal"}

ASSUME ConstantsAssumption ==
    /\ Mints \subseteq Nat \ {NoMint} /\ IsFiniteSet(Mints)
    /\ Rules \subseteq Nat /\ Manual \subseteq Nat /\ Rules \cap Manual = {}
    /\ Priority \in [Rules -> Nat]
    /\ Exclusive \subseteq Rules /\ FirstSlot \subseteq Rules
    /\ ConcurrentCap \in [Rules -> Nat \ {0}]
    /\ TotalCap \in [Rules -> Nat \ {0}]
    /\ MaxPerCoin \in [Rules -> Nat]
    /\ MaxEntryAttempts \in Nat \ {0} /\ MaxExitAttempts \in Nat \ {0}
    /\ Bag \in Nat \ {0} /\ PartialBps \subseteq 1 .. (Bag - 1)
    /\ ManualBps \subseteq 1 .. (Bag - 1)
    /\ ReloadStates \subseteq RuleStates
    /\ MaxPositions \in Nat /\ MaxIntents \in Nat

VARIABLES
    rules,          \* EngineState.rules: absent, or loaded and its run's mode
    arms,           \* TokenState.arms of every mint; "None" = no arm
    slotSettled,    \* mints whose creation slot has settled
    episodes,       \* TokenState.episodes
    open, total,    \* RuleCounters
    positions,      \* EngineState.positions: id -> owner
    manualRules,    \* positions with a one-off manual exit rule
    intentSeq, positionSeq,
    cur, todo, rest, dead, print,   \* evaluate_token in progress
    status,         \* last status emitted per position (PositionUpdate)
    outstanding,    \* orders submitted and not answered yet
    \* History, read by properties only:
    abandoned,      \* outstanding buys whose arm the operator closed
    runEntries,     \* rule -> entries of its current run, less the failed
    oldRun,         \* open positions entered by an earlier run of their rule
    fills           \* mint -> rule -> buys filled while the mint is tracked

countVars == <<open, total>>
posVars == <<positions, manualRules, positionSeq, status>>
orderVars == <<intentSeq, outstanding>>
sweepVars == <<cur, todo, rest, dead, print>>
tokenVars == <<arms, slotSettled, episodes>>
runVars == <<runEntries, oldRun>>
historyVars == <<abandoned, runVars, fills>>
vars == <<rules, tokenVars, countVars, posVars, orderVars, sweepVars,
          historyVars>>

-----------------------------------------------------------------------------
(* Arms.                                                                   *)

All == [kind |-> "All", bps |-> 0]
Portions == [kind : {"All", "Initial", "Remaining"}, bps : 0 .. Bag]
IsPartial(p) == p.kind # "All"

\* `owed` is the share a sell latched during the buy owes: 0 none, Bag all.
\* `left` is the executor's bag (entry amount less sold amount) in shares.
NoArm == [st |-> "None", pos |-> 0, intent |-> 0, att |-> 0,
          reason |-> "None", portion |-> All, owed |-> 0, sold |-> 0, left |-> 0]
Idle(tag) == [NoArm EXCEPT !.st = tag]
EntryPending(p, i, n) ==
    [NoArm EXCEPT !.st = "EntryPending", !.pos = p, !.intent = i, !.att = n]
Entered(p, sold, left) ==
    [st |-> "Entered", pos |-> p, intent |-> 0, att |-> 0, reason |-> "None",
     portion |-> All, owed |-> 0, sold |-> sold, left |-> left]
ExitPending(a, i, n, why, portion) ==
    [st |-> "ExitPending", pos |-> a.pos, intent |-> i, att |-> n, reason |-> why,
     portion |-> portion, owed |-> 0, sold |-> a.sold, left |-> a.left]
\* a retry: the same order under a new intent
Resent(a, i) == [a EXCEPT !.intent = i, !.att = a.att + 1]

InFlight(a) == a.st \in {"EntryPending", "ExitPending"}
Holds(a) == a.st \in {"EntryPending", "Entered", "ExitPending"}
IsActive(a) == a.st \notin {"None", "Done", "Disarmed"}

Enabled(r) == r \in Rules /\ rules[r] \in {"paper", "real"}
Loaded(r) == r \in Rules /\ rules[r] # "absent"
\* rule_for: the loaded rule, or the position's manual exit rule
HasRule(r, a) == Loaded(r) \/ (Holds(a) /\ a.pos \in manualRules)

Tracked(m) == \E r \in AllRules : arms[m][r].st # "None"
Quiet == cur = NoMint /\ rest = {}    \* the fold is between two events

NoArms == [r \in AllRules |-> NoArm]
NoEpisodes == [r \in Rules |-> 0]

\* A token is put back only while one of its arms is active.
Store(m, tokenArms, eps) ==
    LET keep == \E r \in AllRules : IsActive(tokenArms[r])
    IN  /\ arms' = [arms EXCEPT ![m] = IF keep THEN tokenArms ELSE NoArms]
        /\ episodes' = [episodes EXCEPT ![m] = IF keep THEN eps ELSE NoEpisodes]
        /\ slotSettled' = IF keep THEN slotSettled ELSE slotSettled \ {m}
        /\ fills' = [fills EXCEPT ![m] = IF keep THEN @ ELSE NoEpisodes]
StoreArm(m, r, a) == Store(m, [arms[m] EXCEPT ![r] = a], episodes[m])

Intent(m, r, i) == [mint |-> m, rule |-> r, seq |-> i]
\* next_intent and the SubmitBuy / SubmitSell effect that carries it; `done`
\* is the order, if any, whose answer is being folded
Submit(m, r, done) ==
    /\ intentSeq' = intentSeq + 1
    /\ outstanding' = (outstanding \ done) \cup {Intent(m, r, intentSeq + 1)}
Answer(done) ==
    /\ outstanding' = outstanding \ done
    /\ UNCHANGED intentSeq

Report(p, s) == status' = [status EXCEPT ![p] = s]
\* (mutant) the owner map keeps a closed position
remove_position_mutant(p) ==
    /\ manualRules' = manualRules \ {p}
    /\ UNCHANGED <<positions, positionSeq>>
remove_position(p) ==
    /\ positions' = [q \in DOMAIN positions \ {p} |-> positions[q]]
    /\ manualRules' = manualRules \ {p}
    /\ UNCHANGED positionSeq

SaturatingDec(n) == IF n > 0 THEN n - 1 ELSE 0
\* (mutant) the close path forgets to free the concurrency slot
decrement_open_mutant(r) == UNCHANGED <<open, total>>
decrement_open(r) ==
    /\ open' = [open EXCEPT ![r] = SaturatingDec(@)]
    /\ UNCHANGED total
\* (mutant) a failed buy frees its slot and keeps its entry
rollback_entry_mutant(r) ==
    /\ open' = [open EXCEPT ![r] = SaturatingDec(@)]
    /\ UNCHANGED total
rollback_entry(r) ==
    /\ open' = [open EXCEPT ![r] = SaturatingDec(@)]
    /\ total' = [total EXCEPT ![r] = SaturatingDec(@)]

\* (history) the entry of p no longer counts for the run that made it
ForgetEntry(p, r) ==
    /\ runEntries' = IF r \in Rules /\ p \notin oldRun
                     THEN [runEntries EXCEPT ![r] = @ - 1] ELSE runEntries
    /\ oldRun' = oldRun \ {p}

\* rearm_after_close: the arm and episode count a full close leaves behind.
ReentryReason(why) == why = "Line"
CountsEpisode(r, why) == Loaded(r) /\ MaxPerCoin[r] > 0 /\ ReentryReason(why)
EpisodesAfter(m, r, why) ==
    IF CountsEpisode(r, why) THEN [episodes[m] EXCEPT ![r] = @ + 1] ELSE episodes[m]
\* (mutant) one episode too many
ArmAfterClose_mutant(m, r, why) ==
    IF CountsEpisode(r, why) /\ episodes[m][r] + 1 <= MaxPerCoin[r]
    THEN Idle("Cooldown") ELSE Idle("Done")
ArmAfterClose(m, r, why) ==
    IF CountsEpisode(r, why) /\ episodes[m][r] + 1 < MaxPerCoin[r]
    THEN Idle("Cooldown") ELSE Idle("Done")

\* portion_sold_bps: what the engine books; token_amount: what is sold.
portion_sold_bps(p, sold) ==
    CASE p.kind = "Initial"   -> p.bps
      [] p.kind = "Remaining" -> ((IF sold < Bag THEN Bag - sold ELSE 0) * p.bps) \div Bag
      [] OTHER                -> 0
\* wanted: the amount a portion asks for, before it is clamped to the bag.
wanted(p, left) ==
    CASE p.kind = "Initial"   -> p.bps
      [] p.kind = "Remaining" -> IF left * p.bps >= Bag THEN (left * p.bps) \div Bag
                                 ELSE IF left > 0 THEN 1 ELSE 0
      [] OTHER                -> left
token_amount(p, left) == IF wanted(p, left) > left THEN left ELSE wanted(p, left)

-----------------------------------------------------------------------------
(* evaluate_token: promote elapsed cooldowns, then decide the arms one by  *)
(* one, highest priority first and by id among equals.                     *)

BeginEvaluate(m, tokenArms, isDead, onPrint, others) ==
    \E elapsed \in SUBSET {r \in Rules : tokenArms[r].st = "Cooldown" /\ Enabled(r)} :
        /\ arms' = [arms EXCEPT ![m] =
              [r \in AllRules |-> IF r \in elapsed THEN Idle("Armed") ELSE tokenArms[r]]]
        /\ cur' = m /\ rest' = others
        /\ todo' = {r \in AllRules : tokenArms[r].st # "None"}
        /\ dead' = isDead /\ print' = onPrint

PriorityOf(r) == IF Loaded(r) THEN Priority[r] ELSE 0
IsNext(r) == /\ r \in todo
             /\ \A q \in todo \ {r} :
                  \/ PriorityOf(r) > PriorityOf(q)
                  \/ PriorityOf(r) = PriorityOf(q) /\ r < q

\* The loop body's common part: the next arm of the evaluated token, in a
\* given state, with a rule to decide it.
Deciding(r, tag) == /\ cur # NoMint /\ IsNext(r)
                    /\ arms[cur][r].st = tag /\ HasRule(r, arms[cur][r])
SetArm(r, a) == arms' = [arms EXCEPT ![cur][r] = a]
Advance(r) == /\ todo' = todo \ {r}
              /\ UNCHANGED <<rules, cur, rest, dead, print, slotSettled, episodes, fills>>

\* (mutant) a sibling's buy in flight is not seen
SiblingHolds_mutant(r) ==
    \E q \in AllRules \ {r} : arms[cur][q].st \in {"Entered", "ExitPending"}
SiblingHolds(r) == \E q \in AllRules \ {r} : Holds(arms[cur][q])

\* Dead, unsatisfiable or copycat-blocked: an armed rule gives the token up.
DecideDisarm(r) ==
    /\ Deciding(r, "Armed") /\ Enabled(r)
    /\ SetArm(r, Idle("Disarmed")) /\ Advance(r)
    /\ UNCHANGED <<countVars, posVars, orderVars, abandoned, runVars>>

\* ArmDecision::Exhaust: the entry can no longer happen on this token.
DecideExhaust(r) ==
    /\ Deciding(r, "Armed") /\ Enabled(r) /\ ~dead
    /\ r \in Exclusive => ~SiblingHolds(r)
    /\ SetArm(r, Idle("Done")) /\ Advance(r)
    /\ UNCHANGED <<countVars, posVars, orderVars, abandoned, runVars>>

\* (mutant) the cap is checked with <= instead of <
CapsAllow_mutant(r) == open[r] <= ConcurrentCap[r] /\ total[r] < TotalCap[r]
CapsAllow(r) == open[r] < ConcurrentCap[r] /\ total[r] < TotalCap[r]
DecideEnter(r) ==
    /\ Deciding(r, "Armed") /\ Enabled(r) /\ ~dead
    /\ r \in Exclusive => ~SiblingHolds(r)
    /\ CapsAllow(r)
    /\ positionSeq < MaxPositions
    /\ LET p == positionSeq + 1
       IN  /\ SetArm(r, EntryPending(p, intentSeq + 1, 1))
           /\ positionSeq' = p
           /\ positions' = [q \in DOMAIN positions \cup {p} |->
                              IF q = p THEN [mint |-> cur, rule |-> r] ELSE positions[q]]
           /\ Report(p, "BuySubmitted")
           /\ runEntries' = [runEntries EXCEPT ![r] = @ + 1]
    /\ open' = [open EXCEPT ![r] = @ + 1]
    /\ total' = [total EXCEPT ![r] = @ + 1]
    /\ Submit(cur, r, {}) /\ Advance(r)
    /\ UNCHANGED <<manualRules, abandoned, oldRun>>

\* ArmDecision::Exit and ::PartialExit share their effects.
SubmitExit(r, why, portion) ==
    /\ SetArm(r, ExitPending(arms[cur][r], intentSeq + 1, 1, why, portion))
    /\ Report(arms[cur][r].pos, "ExitPending")
    /\ Submit(cur, r, {}) /\ Advance(r)
    /\ UNCHANGED <<countVars, positions, manualRules, positionSeq, abandoned, runVars>>
DecideExit(r) ==
    /\ Deciding(r, "Entered")
    /\ SubmitExit(r, IF dead THEN "Dead" ELSE "Line", All)
\* A share of the first bag that would complete it is a full exit instead.
\* (mutant) off by one: a plan may sell the whole bag in partial sells
LeavesStub_mutant(a, portion) == portion.kind = "Initial" => a.sold + portion.bps <= Bag
LeavesStub(a, portion) == portion.kind = "Initial" => a.sold + portion.bps < Bag
DecidePartialExit(r) ==
    \E portion \in [kind : {"Initial", "Remaining"}, bps : PartialBps] :
        /\ Deciding(r, "Entered") /\ ~dead
        /\ intentSeq < MaxIntents
        /\ LeavesStub(arms[cur][r], portion)
        /\ SubmitExit(r, "Line", portion)

\* (mutant) sells latched one after the other are not clamped to the bag
AddOwed_mutant(owed, b, ofBag) ==
    IF ofBag THEN owed + ((Bag - owed) * b) \div Bag ELSE owed + b
\* note_inflight: a sell seen while the buy is in flight is owed at the fill.
AddOwed(owed, b, ofBag) ==
    LET next == IF ofBag THEN owed + ((Bag - owed) * b) \div Bag ELSE owed + b
    IN  IF next > Bag THEN Bag ELSE next
DecideInflight(r) ==
    \E b \in PartialBps \cup {Bag}, ofBag \in BOOLEAN :
        /\ Deciding(r, "EntryPending") /\ print /\ arms[cur][r].owed < Bag
        /\ SetArm(r, [arms[cur][r] EXCEPT !.owed = AddOwed(@, b, ofBag)])
        /\ Advance(r)
        /\ UNCHANGED <<countVars, posVars, orderVars, abandoned, runVars>>

\* No decision: no rule, nothing to do, or an entry that waits (its
\* condition does not hold, a cap is full, an exclusive rule stands down).
DecideNothing(r) ==
    /\ cur # NoMint /\ IsNext(r)
    /\ ~(dead /\ arms[cur][r].st = "Armed" /\ Enabled(r))
    /\ ~(dead /\ arms[cur][r].st = "Entered" /\ HasRule(r, arms[cur][r]))
    /\ Advance(r)
    /\ UNCHANGED <<arms, countVars, posVars, orderVars, abandoned, runVars>>

EndEvaluate ==
    /\ cur # NoMint /\ todo = {}
    /\ Store(cur, arms[cur], episodes[cur])
    /\ cur' = NoMint /\ dead' = FALSE /\ print' = FALSE
    /\ UNCHANGED <<rules, countVars, posVars, orderVars, todo, rest, abandoned, runVars>>

-----------------------------------------------------------------------------
(* Market events.                                                          *)

\* Each rule whose fingerprint matches the creation axes is armed.
TokenCreated(m, hits) ==
    /\ Quiet /\ ~Tracked(m)
    /\ LET matched == {r \in hits : Enabled(r)}
       IN  BeginEvaluate(m, [r \in AllRules |->
                               CASE r \in matched \cap FirstSlot -> Idle("PendingFirstSlot")
                                 [] r \in matched \ FirstSlot   -> Idle("Armed")
                                 [] OTHER                       -> NoArm],
                         FALSE, FALSE, {})
    /\ UNCHANGED <<rules, slotSettled, episodes, countVars, posVars, orderVars, historyVars>>

FirstSlotSettled(m, hits, isDead) ==
    /\ Quiet /\ Tracked(m) /\ m \notin slotSettled
    /\ slotSettled' = slotSettled \cup {m}
    /\ LET Settle(r, a) ==
              IF a.st # "PendingFirstSlot" \/ ~Enabled(r) THEN a
              ELSE IF r \in hits THEN Idle("Armed") ELSE NoArm
       IN  BeginEvaluate(m, [r \in AllRules |-> Settle(r, arms[m][r])], isDead, FALSE, {})
    /\ UNCHANGED <<rules, episodes, countVars, posVars, orderVars, historyVars>>

Trade(m, isDead) ==
    /\ Quiet /\ Tracked(m)
    /\ BeginEvaluate(m, arms[m], isDead, TRUE, {})
    /\ UNCHANGED <<rules, slotSettled, episodes, countVars, posVars, orderVars, historyVars>>

\* A tick walks every tracked token in mint order.
Tick ==
    /\ Quiet /\ \E m \in Mints : Tracked(m)
    /\ rest' = {m \in Mints : Tracked(m)}
    /\ UNCHANGED <<rules, tokenVars, countVars, posVars, orderVars, historyVars,
                   cur, todo, dead, print>>
TickToken(m, isDead) ==
    /\ cur = NoMint /\ m \in rest /\ \A n \in rest : m <= n
    /\ BeginEvaluate(m, arms[m], isDead, FALSE, rest \ {m})
    /\ UNCHANGED <<rules, slotSettled, episodes, countVars, posVars, orderVars, historyVars>>

\* Migration off the curve: arms that hold nothing disarm, bags ride it out.
\* (mutant) a bag without an order is given up as well
LeftByMigration_mutant(a) == a.st \in {"Armed", "PendingFirstSlot", "Cooldown", "Entered"}
LeftByMigration(a) == a.st \in {"Armed", "PendingFirstSlot", "Cooldown"}
Migrated(m) ==
    /\ Quiet /\ Tracked(m)
    /\ Store(m, [r \in AllRules |->
                   IF LeftByMigration(arms[m][r])
                   THEN Idle("Disarmed") ELSE arms[m][r]], episodes[m])
    /\ UNCHANGED <<rules, countVars, posVars, orderVars, sweepVars, abandoned, runVars>>

-----------------------------------------------------------------------------
(* Answers of the executor.  `o` is an order it works on, or one it has    *)
(* answered before: late and repeated answers can carry any earlier id.    *)

Orders == [mint : Mints, rule : AllRules, seq : 1 .. intentSeq]
ArmOf(o) == arms[o.mint][o.rule]
Awaited(o) == InFlight(ArmOf(o)) /\ ArmOf(o).intent = o.seq

\* The arm waits for another order, or for none: the answer is ignored.
\* (mutant) an answer the arm waits for is dropped as a stale one
StaleAnswer_mutant(o) ==
    /\ Quiet /\ o \in outstanding
    /\ Answer({o}) /\ abandoned' = abandoned \ {o}
    /\ UNCHANGED <<rules, tokenVars, countVars, posVars, sweepVars, runVars, fills>>
StaleAnswer(o) ==
    /\ Quiet /\ o \in outstanding /\ ~Awaited(o)
    /\ Answer({o}) /\ abandoned' = abandoned \ {o}
    /\ UNCHANGED <<rules, tokenVars, countVars, posVars, sweepVars, runVars, fills>>

BuyConfirmed(o) ==
    LET a == ArmOf(o)
        held == Entered(a.pos, 0, Bag)
        portion == IF a.owed = Bag THEN All ELSE [kind |-> "Remaining", bps |-> a.owed]
    IN  /\ Quiet /\ o \in Orders /\ Awaited(o) /\ a.st = "EntryPending"
        /\ arms' = [arms EXCEPT ![o.mint][o.rule] =
              IF a.owed > 0
              THEN ExitPending(held, intentSeq + 1, 1, "Line", portion)
              ELSE held]
        /\ Report(a.pos, IF a.owed > 0 THEN "ExitPending" ELSE "Holding")
        /\ IF a.owed > 0 THEN Submit(o.mint, o.rule, {o}) ELSE Answer({o})
        /\ fills' = IF o.rule \in Rules THEN [fills EXCEPT ![o.mint][o.rule] = @ + 1] ELSE fills
        /\ UNCHANGED <<rules, slotSettled, episodes, countVars, positions, manualRules,
                       positionSeq, sweepVars, abandoned, runVars>>

PartialSellConfirmed(o) ==
    LET a == ArmOf(o)
    IN  /\ Quiet /\ o \in Orders /\ Awaited(o)
        /\ a.st = "ExitPending" /\ IsPartial(a.portion)
        /\ arms' = [arms EXCEPT ![o.mint][o.rule] =
              Entered(a.pos, a.sold + portion_sold_bps(a.portion, a.sold),
                      a.left - token_amount(a.portion, a.left))]
        /\ Report(a.pos, "Holding") /\ Answer({o})
        /\ UNCHANGED <<rules, slotSettled, episodes, countVars, positions, manualRules,
                       positionSeq, sweepVars, historyVars>>

SellConfirmed(o) ==
    LET a == ArmOf(o)
    IN  /\ Quiet /\ o \in Orders /\ Awaited(o)
        /\ a.st = "ExitPending" /\ ~IsPartial(a.portion)
        /\ decrement_open(o.rule) /\ remove_position(a.pos)
        /\ Store(o.mint, [arms[o.mint] EXCEPT ![o.rule] = ArmAfterClose(o.mint, o.rule, a.reason)],
                 EpisodesAfter(o.mint, o.rule, a.reason))
        /\ Report(a.pos, "End") /\ Answer({o})
        /\ oldRun' = oldRun \ {a.pos}
        /\ UNCHANGED <<rules, sweepVars, abandoned, runEntries>>

\* FillFailed of a buy.  `qualifies` is can_enter at the failure's clock; a
\* manual episode has no rule row and always requalifies.
AttemptsLeft(a, why) == why # "Fatal" /\ a.att < MaxEntryAttempts
\* (mutant) a stopped rule still retries
Retries_mutant(o, why, qualifies) ==
    /\ AttemptsLeft(ArmOf(o), why)
    /\ Loaded(o.rule) => qualifies
    /\ ArmOf(o).owed < Bag
Retries(o, why, qualifies) ==
    /\ AttemptsLeft(ArmOf(o), why)
    /\ Loaded(o.rule) => Enabled(o.rule) /\ qualifies
    /\ ArmOf(o).owed < Bag
BuyRetried(o, why, qualifies) ==
    LET a == ArmOf(o)
    IN  /\ Quiet /\ o \in Orders /\ Awaited(o) /\ a.st = "EntryPending"
        /\ Retries(o, why, qualifies)
        /\ arms' = [arms EXCEPT ![o.mint][o.rule] = Resent(a, intentSeq + 1)]
        /\ Submit(o.mint, o.rule, {o})
        /\ UNCHANGED <<rules, slotSettled, episodes, countVars, posVars, sweepVars, historyVars>>
BuyGivenUp(o, why, qualifies) ==
    LET a == ArmOf(o)
    IN  /\ Quiet /\ o \in Orders /\ Awaited(o) /\ a.st = "EntryPending"
        /\ ~Retries(o, why, qualifies)
        /\ rollback_entry(o.rule) /\ remove_position(a.pos)
        /\ StoreArm(o.mint, o.rule,
                    Idle(IF AttemptsLeft(a, why) /\ Loaded(o.rule) THEN "Armed" ELSE "Done"))
        /\ Report(a.pos, "EntryFailed") /\ Answer({o})
        /\ ForgetEntry(a.pos, o.rule)
        /\ UNCHANGED <<rules, sweepVars, abandoned>>

\* FillFailed of a sell: an unconfirmed one may have cleared, never re-sell.
SellGivenUp(o, why) ==
    LET a == ArmOf(o)
    IN  /\ Quiet /\ o \in Orders /\ Awaited(o) /\ a.st = "ExitPending"
        /\ why \in {"Unconfirmed", "Fatal"} \/ a.att >= MaxExitAttempts
        /\ decrement_open(o.rule) /\ remove_position(a.pos)
        /\ StoreArm(o.mint, o.rule, Idle("Done"))
        /\ Report(a.pos, IF why = "Unconfirmed" THEN "ExitUnconfirmed" ELSE "ExitStuck")
        /\ Answer({o})
        /\ oldRun' = oldRun \ {a.pos}
        /\ UNCHANGED <<rules, sweepVars, abandoned, runEntries>>
SellRetried(o, why) ==
    LET a == ArmOf(o)
    IN  /\ Quiet /\ o \in Orders /\ Awaited(o) /\ a.st = "ExitPending"
        /\ why \in {"Reverted", "Timeout"} /\ a.att < MaxExitAttempts
        /\ arms' = [arms EXCEPT ![o.mint][o.rule] = Resent(a, intentSeq + 1)]
        /\ Submit(o.mint, o.rule, {o})
        /\ UNCHANGED <<rules, slotSettled, episodes, countVars, posVars, sweepVars, historyVars>>

-----------------------------------------------------------------------------
(* Operator commands.                                                      *)

\* A rule switched on again, or moved to the other mode, starts a new run.
NewRun(r, new) == /\ new[r] \in {"paper", "real"} /\ new[r] # rules[r]
\* An arm that holds nothing is disarmed when its rule is not active any more.
\* (mutant) only a plainly armed one is
DisarmedBy_mutant(new, r, a) ==
    a.st = "Armed" /\ (r \in Rules => new[r] \notin {"paper", "real"})
DisarmedBy(new, r, a) ==
    /\ a.st # "None" /\ ~Holds(a)
    /\ r \in Rules => new[r] \notin {"paper", "real"}
RulesReloaded(new) ==
    /\ Quiet
    /\ arms' = [m \in Mints |-> [r \in AllRules |->
                  IF DisarmedBy(new, r, arms[m][r]) THEN Idle("Disarmed") ELSE arms[m][r]]]
    /\ rules' = new
    /\ total' = [r \in AllRules |->
                   IF r \in Rules /\ NewRun(r, new) THEN 0 ELSE total[r]]
    /\ runEntries' = [r \in Rules |-> IF NewRun(r, new) THEN 0 ELSE runEntries[r]]
    /\ oldRun' = oldRun \cup {p \in DOMAIN positions :
                     positions[p].rule \in Rules /\ NewRun(positions[p].rule, new)}
    /\ UNCHANGED <<slotSettled, episodes, open, posVars, orderVars, sweepVars,
                   abandoned, fills>>

\* The adapter mints a fresh rule id per manual episode.
ManualBuy(m, r, exit) ==
    /\ Quiet /\ positionSeq < MaxPositions
    /\ \A n \in Mints : arms[n][r].st = "None"
    /\ LET p == positionSeq + 1
       IN  /\ arms' = [arms EXCEPT ![m][r] = EntryPending(p, intentSeq + 1, 1)]
           /\ positionSeq' = p
           /\ positions' = [q \in DOMAIN positions \cup {p} |->
                              IF q = p THEN [mint |-> m, rule |-> r] ELSE positions[q]]
           /\ manualRules' = IF exit THEN manualRules \cup {p} ELSE manualRules
           /\ Report(p, "BuySubmitted")
    /\ slotSettled' = IF Tracked(m) THEN slotSettled ELSE slotSettled \cup {m}
    /\ Submit(m, r, {})
    /\ UNCHANGED <<rules, episodes, countVars, sweepVars, historyVars>>

SetManualExit(p, exit) ==
    /\ Quiet /\ p \in DOMAIN positions
    /\ manualRules' = IF exit THEN manualRules \cup {p} ELSE manualRules \ {p}
    /\ UNCHANGED <<rules, tokenVars, countVars, positions, positionSeq, status,
                   orderVars, sweepVars, historyVars>>

OwnerArm(p) == arms[positions[p].mint][positions[p].rule]
OwnerOrder(p) == Intent(positions[p].mint, positions[p].rule, OwnerArm(p).intent)

\* Closing a buy in flight drops its arm; the order itself is not recalled.
ManualCloseBuy(p) ==
    /\ Quiet /\ p \in DOMAIN positions
    /\ OwnerArm(p).st = "EntryPending" /\ OwnerArm(p).pos = p
    /\ LET m == positions[p].mint
           r == positions[p].rule
       IN  /\ rollback_entry(r) /\ StoreArm(m, r, Idle("Done"))
    /\ remove_position(p) /\ Report(p, "EntryFailed")
    /\ abandoned' = abandoned \cup {OwnerOrder(p)}
    /\ ForgetEntry(p, positions[p].rule)
    /\ UNCHANGED <<rules, orderVars, sweepVars>>

\* (mutant) a bag whose sell is in flight is sold again
CanClose_mutant(p) == OwnerArm(p).st \in {"Entered", "ExitPending"} /\ OwnerArm(p).pos = p
CanClose(p) == OwnerArm(p).st = "Entered" /\ OwnerArm(p).pos = p
ManualCloseBag(p, portion) ==
    /\ Quiet /\ p \in DOMAIN positions /\ CanClose(p)
    /\ IsPartial(portion) => intentSeq < MaxIntents
    /\ LET m == positions[p].mint
           r == positions[p].rule
       IN  /\ arms' = [arms EXCEPT ![m][r] =
                         ExitPending(@, intentSeq + 1, 1, "Manual", portion)]
           /\ Submit(m, r, {})
    /\ Report(p, "ExitPending")
    /\ UNCHANGED <<rules, slotSettled, episodes, countVars, positions, manualRules,
                   positionSeq, sweepVars, historyVars>>

\* The bag left the wallet by other means: close without a sell.
ExternallyCleared(p) ==
    /\ Quiet /\ p \in DOMAIN positions /\ CanClose(p)
    /\ LET m == positions[p].mint
           r == positions[p].rule
       IN  /\ decrement_open(r) /\ StoreArm(m, r, Idle("Done"))
    /\ remove_position(p) /\ Report(p, "End")
    /\ oldRun' = oldRun \ {p}
    /\ UNCHANGED <<rules, orderVars, sweepVars, abandoned, runEntries>>

-----------------------------------------------------------------------------
Init ==
    /\ rules = [r \in Rules |-> "real"]
    /\ arms = [m \in Mints |-> NoArms]
    /\ slotSettled = {} /\ episodes = [m \in Mints |-> NoEpisodes]
    /\ open = [r \in AllRules |-> 0] /\ total = [r \in AllRules |-> 0]
    /\ positions = [p \in {} |-> 0] /\ manualRules = {}
    /\ intentSeq = 0 /\ positionSeq = 0
    /\ cur = NoMint /\ todo = {} /\ rest = {} /\ dead = FALSE /\ print = FALSE
    /\ status = [p \in 1 .. MaxPositions |-> "Unborn"]
    /\ outstanding = {}
    /\ abandoned = {} /\ runEntries = [r \in Rules |-> 0] /\ oldRun = {}
    /\ fills = [m \in Mints |-> NoEpisodes]

Decide == \E r \in todo : \/ DecideDisarm(r) \/ DecideExhaust(r) \/ DecideEnter(r)
                         \/ DecideExit(r) \/ DecidePartialExit(r)
                         \/ DecideInflight(r) \/ DecideNothing(r)
Evaluation == Decide \/ EndEvaluate \/ \E m \in rest, d \in BOOLEAN : TickToken(m, d)

Market == \E m \in Mints :
    \/ \E hits \in SUBSET Rules : TokenCreated(m, hits)
    \/ \E hits \in SUBSET Rules, d \in BOOLEAN : FirstSlotSettled(m, hits, d)
    \/ \E d \in BOOLEAN : Trade(m, d)
    \/ Migrated(m)

AnswerOrder(o) ==
    \/ StaleAnswer(o) \/ BuyConfirmed(o) \/ PartialSellConfirmed(o) \/ SellConfirmed(o)
    \/ \E why \in FailReasons :
        \/ \E q \in BOOLEAN : BuyRetried(o, why, q) \/ BuyGivenUp(o, why, q)
        \/ SellGivenUp(o, why) \/ SellRetried(o, why)

ManualPortions == {All} \cup {[kind |-> "Initial", bps |-> b] : b \in ManualBps}
Operator ==
    \/ \E new \in [Rules -> ReloadStates] : RulesReloaded(new)
    \/ \E m \in Mints, r \in Manual, exit \in BOOLEAN : ManualBuy(m, r, exit)
    \/ \E p \in DOMAIN positions :
        \/ \E exit \in BOOLEAN : SetManualExit(p, exit)
        \/ ManualCloseBuy(p) \/ ExternallyCleared(p)
        \/ \E portion \in ManualPortions : ManualCloseBag(p, portion)

Next == \/ Evaluation
        \/ Market \/ Tick \/ Operator
        \/ Quiet /\ \E o \in Orders : AnswerOrder(o)

Spec == Init /\ [][Next]_vars

\* The loop folds what it is handed and every evaluation runs to its end;
\* the executor answers every order it was handed (each order is a task that
\* ends in exactly one of the answers, bounded by its own timeouts).  Other
\* events keep interrupting, hence strong fairness.
AnswerFor(m, r) == \E o \in outstanding : o.mint = m /\ o.rule = r /\ AnswerOrder(o)
Fairness == /\ WF_vars(Evaluation)
            /\ \A m \in Mints, r \in AllRules : SF_vars(AnswerFor(m, r))
FairSpec == Spec /\ Fairness

-----------------------------------------------------------------------------
(* Properties.                                                             *)

ArmTags == {"None", "PendingFirstSlot", "Armed", "EntryPending", "Entered",
            "ExitPending", "Cooldown", "Done", "Disarmed"}
Arm == [st : ArmTags, pos : Nat, intent : Nat, att : Nat,
        reason : {"None", "Line", "Dead", "Manual"}, portion : Portions,
        owed : 0 .. Bag, sold : Nat, left : 0 .. Bag]
IntentIds == [mint : Mints, rule : AllRules, seq : Nat]

\* The variables have the types of EngineState, TokenState and ArmState.
TypeOK ==
    /\ rules \in [Rules -> RuleStates]
    /\ arms \in [Mints -> [AllRules -> Arm]]
    /\ slotSettled \subseteq Mints
    /\ episodes \in [Mints -> [Rules -> Nat]]
    /\ open \in [AllRules -> Nat] /\ total \in [AllRules -> Nat]
    /\ DOMAIN positions \subseteq 1 .. positionSeq
    /\ \A p \in DOMAIN positions : positions[p] \in [mint : Mints, rule : AllRules]
    /\ manualRules \subseteq Nat
    /\ intentSeq \in Nat /\ positionSeq \in 0 .. MaxPositions
    /\ cur \in Mints \cup {NoMint} /\ todo \subseteq AllRules /\ rest \subseteq Mints
    /\ dead \in BOOLEAN /\ print \in BOOLEAN
    /\ status \in [1 .. MaxPositions -> Statuses]
    /\ outstanding \subseteq IntentIds
    /\ abandoned \subseteq IntentIds
    /\ runEntries \in [Rules -> Int] /\ oldRun \subseteq Nat
    /\ fills \in [Mints -> [Rules -> Nat]]

Holders(r) == {m \in Mints : Holds(arms[m][r])}

\* The concurrency counter of a rule counts exactly the tokens it holds a
\* position or an in-flight order on, over retries, partial fills, reloads,
\* give-ups and operator closes (with_counters, decrement_open and
\* rollback_entry in reduce.rs).  A drift either way wedges a capped rule or
\* lets it overspend.
OpenCountsHolders == \A r \in Rules : open[r] = Cardinality(Holders(r))

\* So a rule never holds more tokens at once than its concurrency cap allows.
ConcurrencyCapped == \A r \in Rules : Cardinality(Holders(r)) <= ConcurrentCap[r]

\* The owner map and the arms agree: a position is in `positions` exactly
\* when one arm holds it, that arm is the one the map names, and its last
\* reported status is the arm's.  ManualClose and ExternallyCleared find the
\* arm of a position only through this map.
StatusOf(tag) == CASE tag = "EntryPending" -> "BuySubmitted"
                   [] tag = "Entered"      -> "Holding"
                   [] tag = "ExitPending"  -> "ExitPending"
                   [] OTHER                -> "Unborn"
OwnersMatchArms ==
    /\ \A p \in DOMAIN positions : Holds(OwnerArm(p)) /\ OwnerArm(p).pos = p
    /\ \A m \in Mints, r \in AllRules :
         Holds(arms[m][r]) =>
            /\ arms[m][r].pos \in DOMAIN positions
            /\ positions[arms[m][r].pos] = [mint |-> m, rule |-> r]
            /\ status[arms[m][r].pos] = StatusOf(arms[m][r].st)

\* No order is lost: every order the executor still works on is the one its
\* arm waits for, unless the operator closed that buy in flight.  A stale or
\* repeated answer that moved an arm would strand the live order, and its
\* fill would be a bag (or a second sell) nobody tracks.
OutstandingAwaited == \A o \in outstanding : Awaited(o) \/ o \in abandoned

\* Two exclusive rules never hold the same token, whatever the priorities,
\* retries and re-entries (the stand-down in decide_arm).
ExclusiveNeverShare ==
    \A m \in Mints, r, q \in Exclusive :
        r # q => ~(Holds(arms[m][r]) /\ Holds(arms[m][q]))

\* While a token is tracked a rule fills at most one buy on it, or
\* max_per_coin buys when it is configured to re-enter (rearm_after_close).
ReentryBounded ==
    \A m \in Mints, r \in Rules :
        fills[m][r] <= IF MaxPerCoin[r] > 1 THEN MaxPerCoin[r] ELSE 1

\* The run's entry counter never overcounts: it never refuses an entry the
\* run still has (with_counters, rollback_entry, reload).
TotalNeverOvercounts == \A r \in Rules : total[r] <= runEntries[r]

NewBuys == {o \in outstanding' \ outstanding : ArmOf(o)'.st = "EntryPending"}

\* A rule that stays loaded only to drain its open positions buys nothing
\* more, not even as the retry of a buy that was in flight when it was
\* stopped (the entry_enabled check of FillFailed and of decide_arm).
DrainingRuleNeverBuys ==
    [][\A o \in NewBuys : o.rule \in Rules => rules[o.rule] # "drain"]_vars

\* Stated by the comment on that check in reduce.rs (a "stop rule" click must
\* not let an in-flight revert buy again) and by disable_rule ("the rule
\* immediately leaves the live arm set"): no rule that is not active buys,
\* the ones a reload dropped included.
StoppedRuleNeverBuys ==
    [][\A o \in NewBuys : o.rule \in Rules => Enabled(o.rule)]_vars

\* An arm waiting to enter always has a loaded rule, and one waiting for the
\* creation slot an enabled one: FirstSlotSettled never leaves it behind.
WaitingArmsHaveRules ==
    \A m \in Mints, r \in AllRules :
        /\ arms[m][r].st \in {"Armed", "Cooldown"} => Loaded(r)
        /\ arms[m][r].st = "PendingFirstSlot" => Enabled(r)

\* Every buy and every sell comes to an answer the position is booked under:
\* retries are bounded, and no answer leaves the arm waiting.
OrdersResolve ==
    \A p \in 1 .. MaxPositions :
        /\ status[p] = "BuySubmitted" ~> status[p] # "BuySubmitted"
        /\ status[p] = "ExitPending" ~> status[p] # "ExitPending"

\* Stated by state.rs ("max_total counts one run's entries"): a run never
\* has more entries than its max_total.
RunCapRespected == \A r \in Rules : runEntries[r] <= TotalCap[r]

\* A held position always has a share of its first bag left by the engine's
\* own book, so a full exit is still to come: a plan's partial sells, and the
\* ones owed at the fill, never add up to the whole bag (decide_arm turns the
\* one that would into a full exit; note_inflight likewise).
ShareLeftWhileHolding ==
    \A m \in Mints, r \in AllRules : arms[m][r].st = "Entered" => arms[m][r].sold < Bag

\* Stated by docs/plans/strategies/partial-exits.md ("PARTIAL fill confirmed:
\* stage advances, bag remains"): a position is Holding only while it has a bag.
HoldingHasBag ==
    \A m \in Mints, r \in AllRules : arms[m][r].st = "Entered" => arms[m][r].left > 0

\* The abstract lifecycle this specification implements.
Lifecycle == INSTANCE PositionLifecycle WITH
                 owner <- [p \in DOMAIN positions |-> positions[p].rule]
ImplementsLifecycle == Lifecycle!Spec
=============================================================================
