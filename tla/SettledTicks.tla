---------------------------- MODULE SettledTicks ----------------------------
(***************************************************************************)
(* The tick skip of the decision engine (Settled in                        *)
(* hunter/engine/src/state.rs, settle_until and the Tick branch of         *)
(* reduce.rs) and the copycat guard (dupe_guard.rs).                       *)
(*                                                                         *)
(* Five times a second a Tick re-decides every tracked token.  A sweep     *)
(* that stood past every clock a token's decision reads stamps the token   *)
(* settled, and later ticks skip it while no cross-token input (cap        *)
(* counter, guard memory, rule set) has moved.  The skip must be neutral:  *)
(* EngineFold leaves clocks out and evaluates on every tick, so this       *)
(* module keeps them.                                                      *)
(*                                                                         *)
(* Each event is one action at the instant `now`; time moves between       *)
(* events by steps of any length.  A rule is a small program over atoms,   *)
(* the readings the properties tell apart.  Only the equality of epochs    *)
(* matters, so the counter is renumbered between events: 0 is the current  *)
(* epoch and a stale stamp is no stamp.                                    *)
(***************************************************************************)
EXTENDS Integers, FiniteSets, SequencesExt

CONSTANTS
    Mints, Rules, Manual,   \* naturals; Manual are ids of manual episodes
    Identity,               \* mint -> hashes of its (name, symbol) it may be born with
    Matches,                \* mint -> rules whose fingerprint it matches
    FirstSlot,              \* rules whose fingerprint has a first-slot axis
    Tables,                 \* the rule sets a reload may load, rule -> program, numbered
    ManualLine,             \* the sell line of a manual exit rule
    Threshold,              \* clock -> the span the programs compare it with
    Quiet,                  \* DEAD_QUIET_SECS
    GuardWindow, PruneEvery, MaxMintsPerIdentity,
    ManualMints,            \* bound: the mints the operator buys by hand
    Policies,               \* bound: values the guard may be switched to
    Prints,                 \* bound: the trades that occur, [price, dust]
    MaxTime, MaxEvents      \* bounds: the clock; events that are not ticks or fills

NoId == 0
Never == 0
NoStamp == -1
NoMemo == -1
Ids == Rules \cup Manual
Clocks == {"window", "age", "stall", "held", "stage"}
\* Atoms that read a clock, and the clock.
ClockOf == [recent |-> "window", young |-> "age", old |-> "age",
            stalled |-> "stall", held |-> "held", staged |-> "stage"]
Atoms == DOMAIN ClockOf \cup {"high", "print"}
Program == [enter : SUBSET Atoms, line : [0 .. 1 -> SUBSET Atoms],
            act : {"sell", "partial", "go"}, ends : Clocks \cup {"none"},
            mode : {"paper", "real"}, on : BOOLEAN, exclusive : BOOLEAN,
            cap : Nat, cooldown : Nat]

ASSUME ConstantsAssumption ==
    /\ Mints \subseteq Nat /\ Rules \subseteq Nat /\ Manual \subseteq Nat
    /\ Rules \cap Manual = {}
    /\ Identity \in [Mints -> SUBSET Nat] /\ Matches \in [Mints -> SUBSET Rules]
    /\ FirstSlot \subseteq Rules
    /\ \A k \in DOMAIN Tables : /\ DOMAIN Tables[k] \subseteq Rules
                               /\ \A r \in DOMAIN Tables[k] : Tables[k][r] \in Program
    /\ ManualLine \subseteq Atoms /\ Threshold \in [Clocks -> Nat]
    /\ {Quiet, GuardWindow, PruneEvery, MaxMintsPerIdentity} \subseteq Nat \ {0}
    /\ ManualMints \subseteq Mints
    /\ Policies \subseteq BOOLEAN /\ Prints \subseteq [price : 1 .. 2, dust : BOOLEAN]
    /\ MaxTime \in Nat /\ MaxEvents \in Nat

VARIABLES
    s,          \* EngineState: tokens, rules (by number), open, guard, epoch,
                \* memo; and tried, a history
    now,        \* event time
    events      \* bound: market and operator events and failures so far
vars == <<s, now, events>>

Loaded(st) == DOMAIN Tables[st.rules]
Rule(st, r) == Tables[st.rules][r]

-----------------------------------------------------------------------------
(* Arms and tokens.                                                        *)

NoArm == [st |-> "None", at |-> Never, stage |-> 0, since |-> Never,
          why |-> "None", partial |-> FALSE, exit |-> FALSE]
Idle(tag) == [NoArm EXCEPT !.st = tag]
Cooldown(until) == [NoArm EXCEPT !.st = "Cooldown", !.at = until]
IsActive(a) == a.st \notin {"None", "Paused", "Disarmed", "Done"}
Holds(a) == a.st \in {"EntryPending", "Entered", "ExitPending"}
Active(t) == \E r \in Ids : IsActive(t.arms[r])

\* price: 0 no print yet, 1 a drained pool, 2 a healthy one; high: the last
\* new all-time high, peak its price
NewToken(id, slot) ==
    [created |-> now, id |-> id, last |-> Never, meaningful |-> Never,
     price |-> 0, peak |-> 0, high |-> now, print |-> FALSE, slot |-> slot,
     settled |-> NoStamp, arms |-> [r \in Ids |-> NoArm]]

Drop(f, x) == [y \in DOMAIN f \ {x} |-> f[y]]
Put(f, x, v) == [y \in DOMAIN f \cup {x} |-> IF y = x THEN v ELSE f[y]]
Or(t, otherwise) == IF t = Never THEN otherwise ELSE t
SetArm(st, m, r, a) == [st EXCEPT !.tokens[m].arms[r] = a]

\* fold_trade: the observation half of a print.
fold_trade(t, price, dust) ==
    [t EXCEPT !.last = now, !.meaningful = IF dust THEN @ ELSE now,
              !.price = price, !.print = TRUE, !.settled = NoStamp,
              !.high = IF price > t.peak THEN now ELSE @,
              !.peak = IF price > @ THEN price ELSE @]

\* What an atom reads of token t; position clocks read NaN without a bag.
Reads(atom, t, a) ==
    CASE atom = "recent"  -> t.last # Never /\ now - t.last <= Threshold["window"]
      [] atom = "young"   -> now - t.created <= Threshold["age"]
      [] atom = "old"     -> now - t.created > Threshold["age"]
      [] atom = "stalled" -> now - t.high > Threshold["stall"]
      [] atom = "held"    -> a.st = "Entered" /\ now - a.at > Threshold["held"]
      [] atom = "staged"  -> a.st = "Entered" /\ now - a.since > Threshold["stage"]
      [] atom = "high"    -> t.price = 2
      [] atom = "print"   -> t.print
AllHold(atoms, t, a) == \A atom \in atoms : Reads(atom, t, a)
LineHolds(line, t, a) == line # {} /\ AllHold(line, t, a)

-----------------------------------------------------------------------------
(* The copycat guard: per mode and identity, the mints tried and when.     *)

NoMemory == [k \in {"paper", "real"} \X UNION {Identity[m] : m \in Mints} |-> <<>>]

\* (mutant) the window is one instant short
BlocksShort(g, mode, t, m) ==
    /\ g.on /\ t.id # NoId
    /\ \E i \in DOMAIN g.memory[mode, t.id] :
        LET e == g.memory[mode, t.id][i] IN e.mint # m /\ e.at > now - GuardWindow + 1
blocks(g, mode, t, m) ==
    /\ g.on /\ t.id # NoId
    /\ \E i \in DOMAIN g.memory[mode, t.id] :
        LET e == g.memory[mode, t.id][i] IN e.mint # m /\ e.at > now - GuardWindow

record(g, mode, id, m) ==
    IF ~g.on \/ id = NoId THEN g
    ELSE LET old == g.memory[mode, id]
             same == {i \in DOMAIN old : old[i].mint = m}
             full == Len(old) >= MaxMintsPerIdentity
         IN  [g EXCEPT !.memory[mode, id] =
                IF same # {} THEN [i \in DOMAIN old |->
                                     IF i \in same THEN [mint |-> m, at |-> now] ELSE old[i]]
                ELSE Append(IF full THEN Tail(old) ELSE old, [mint |-> m, at |-> now])]

\* Driven by ticks, at most once in PruneEvery.
prune(g) ==
    IF now < g.next THEN g
    ELSE [g EXCEPT !.next = now + PruneEvery,
                   !.memory = [k \in DOMAIN g.memory |->
                      SelectSeq(g.memory[k], LAMBDA e : e.at > now - GuardWindow)]]

bump_cross_epoch(st) == [st EXCEPT !.epoch = @ + 1, !.memo = NoMemo]
\* (mutant) a cap slot moves without a new epoch
WithOpenUnbumped(st, r, n) == [st EXCEPT !.open[r] = n]
with_open(st, r, n) == bump_cross_epoch([st EXCEPT !.open[r] = n])
decrement_open(st, r) == with_open(st, r, IF st.open[r] > 0 THEN st.open[r] - 1 ELSE 0)
\* The field `tried` is history: the attempts made while the guard was on.
Try(mode, id, m) == [mode |-> mode, id |-> id, mint |-> m, at |-> now]
record_identity(st, mode, m) ==
    LET id == st.tokens[m].id
    IN  bump_cross_epoch([st EXCEPT !.guard = record(@, mode, id, m),
           !.tried = {e \in @ : e.at > now - GuardWindow}
                        \cup (IF st.guard.on THEN {Try(mode, id, m)} ELSE {})])

-----------------------------------------------------------------------------
(* When nothing about a token can change on its own any more.              *)

ClocksRead(c) ==
    {ClockOf[atom] : atom \in (c.enter \cup c.line[0] \cup c.line[1]) \cap DOMAIN ClockOf}
        \cup ({c.ends} \cap Clocks)
\* tick_horizons: the union over the loaded rules; a threshold is widened by
\* the metric's tolerance (a deadline by half a second), a window is not.
tick_horizons ==
    [k \in DOMAIN Tables |-> [clock \in Clocks |->
        IF \E r \in DOMAIN Tables[k] : clock \in ClocksRead(Tables[k][r])
        THEN Threshold[clock] + (IF clock = "window" THEN 0 ELSE 1) ELSE 0]]

settle_until(st, t) ==
    LET h == tick_horizons[st.rules]
        anchor == Or(t.last, t.created)
        held == {t.arms[r] : r \in {q \in Ids : t.arms[q].st = "Entered"}}
        cooling == {t.arms[r] : r \in {q \in Ids : t.arms[q].st = "Cooldown"}}
    IN  Max({anchor + h["window"], t.created + h["age"],
             anchor + h["stall"], Or(t.meaningful, t.created) + Quiet}
            \cup {a.at : a \in cooling}
            \cup {a.at + h["held"] : a \in held}
            \cup {a.since + h["stage"] : a \in held})
\* An active arm without a loaded rule (a manual episode): its clocks are not
\* in the union, so the token never settles.
Settles(st, t) == /\ \A r \in Ids : IsActive(t.arms[r]) => r \in Loaded(st)
                  /\ now >= settle_until(st, t)

-----------------------------------------------------------------------------
(* evaluate_token: decide and apply the arms in order, then stamp.         *)

ManualRule == [enter |-> {}, line |-> [i \in 0 .. 1 |-> ManualLine], act |-> "sell",
               ends |-> "none", mode |-> "real", on |-> FALSE, exclusive |-> FALSE,
               cap |-> 0, cooldown |-> 0]
HasRule(st, r, a) == r \in Loaded(st) \/ (Holds(a) /\ a.exit)
rule_for(st, r) == IF r \in Loaded(st) THEN Rule(st, r) ELSE ManualRule

Dead(t) == t.price = 1 /\ now - Or(t.meaningful, t.created) >= Quiet
Elapsed(basis, t, a) ==
    CASE basis = "age" -> now - t.created
      [] basis = "held" -> now - a.at
      [] basis = "stage" -> now - a.since
Deadline(c, t, a) == /\ c.ends # "none" /\ a.stage = 0
                     /\ Elapsed(c.ends, t, a) >= Threshold[c.ends]
\* entry_unsatisfiable: a monotonic bound of the entry is crossed for good
Unsatisfiable(c, t) == "young" \in c.enter /\ ~Reads("young", t, NoArm)
Veto(c, t) == c.act # "go" /\ LineHolds(c.line[0], t, NoArm)
can_enter(c, t) == AllHold(c.enter, t, NoArm) /\ ~Veto(c, t)
SiblingHolds(t, r) == \E q \in Ids \ {r} : Holds(t.arms[q])

decide_armed(st, m, r, dead) ==
    LET t == st.tokens[m]
        c == rule_for(st, r)
    IN  CASE ~c.on -> "None"
          [] c.on /\ (dead \/ Unsatisfiable(c, t) \/ blocks(st.guard, c.mode, t, m)) -> "Disarm"
          [] OTHER -> IF /\ c.exclusive => ~SiblingHolds(t, r)
                         /\ can_enter(c, t)
                         /\ st.open[r] < c.cap   \* over a cap: stay armed
                      THEN "Enter" ELSE "None"
held_step(st, m, r, dead) ==
    LET t == st.tokens[m]
        a == t.arms[r]
        c == rule_for(st, r)
    IN  CASE dead -> "Dead"
          [] ~dead /\ Deadline(c, t, a) -> "go"
          [] OTHER -> IF LineHolds(c.line[a.stage], t, a)
                      THEN (IF a.stage = 0 THEN c.act ELSE "sell") ELSE "None"
decide_arm(st, m, r, dead) ==
    LET a == st.tokens[m].arms[r]
    IN  CASE ~HasRule(st, r, a) -> "None"
          [] HasRule(st, r, a) /\ a.st = "Armed" -> decide_armed(st, m, r, dead)
          [] HasRule(st, r, a) /\ a.st = "Entered" -> held_step(st, m, r, dead)
          [] OTHER -> "None"

Exit(a, why, partial) ==
    [a EXCEPT !.st = "ExitPending", !.why = why, !.partial = partial]
apply_decision(st, m, r, decision) ==
    LET a == st.tokens[m].arms[r]
    IN  CASE decision = "None" -> st
          [] decision = "Disarm" -> SetArm(st, m, r, Idle("Disarmed"))
          [] decision = "Enter" ->
                record_identity(with_open(SetArm(st, m, r, Idle("EntryPending")), r,
                                          st.open[r] + 1), Rule(st, r).mode, m)
          [] decision = "Dead" -> SetArm(st, m, r, Exit(a, "Dead", FALSE))
          [] decision = "sell" -> SetArm(st, m, r, Exit(a, "Line", FALSE))
          [] decision = "partial" -> SetArm(st, m, r, Exit(a, "Line", TRUE))
          [] decision = "go" -> SetArm(st, m, r, [a EXCEPT !.stage = 1, !.since = now])

IdOrder == SetToSortSeq(Ids, <)
MintOrder == SetToSortSeq(Mints, <)
evaluate_token(st, m) ==
    LET dead == Dead(st.tokens[m])
        Rearms(r, a) == /\ a.st = "Cooldown" /\ now >= a.at
                        /\ r \in Loaded(st) /\ Rule(st, r).on
        promoted == [st EXCEPT !.tokens[m].arms =
                       [r \in Ids |-> IF Rearms(r, @[r]) THEN Idle("Armed") ELSE @[r]]]
        Decide[i \in 0 .. Len(IdOrder)] ==
            IF i = 0 THEN promoted
            ELSE LET acc == Decide[i - 1] r == IdOrder[i]
                 IN  apply_decision(acc, m, r, decide_arm(acc, m, r, dead))
        decided == Decide[Len(IdOrder)]
    IN  [decided EXCEPT !.tokens[m].settled =
            IF Settles(decided, decided.tokens[m]) THEN decided.epoch ELSE NoStamp]

\* A token stays tracked only while one of its arms is active.
Store(st, m) == IF Active(st.tokens[m]) THEN st ELSE [st EXCEPT !.tokens = Drop(@, m)]

-----------------------------------------------------------------------------
(* Events.  Every one but Tick forgets the memo first.                     *)

\* The epochs renumbered: a stamp of an earlier epoch is as good as none.
Renumbered(st) ==
    [st EXCEPT !.epoch = 0,
               !.tokens = [m \in DOMAIN @ |-> [@[m] EXCEPT !.settled =
                              IF @ = st.epoch THEN 0 ELSE NoStamp]]]

Fold(new) == s' = Renumbered(new) /\ UNCHANGED now
Event(new) == Fold(new) /\ events < MaxEvents /\ events' = events + 1
Answered(new) == Fold(new) /\ UNCHANGED events

Forget(st) == [st EXCEPT !.memo = NoMemo]
Unsettle(st, m) == [Forget(st) EXCEPT !.tokens[m].settled = NoStamp]
Arm(m, r) == s.tokens[m].arms[r]

RulesReloaded(k) ==
    LET Stays(r) == r \in DOMAIN Tables[k] /\ Tables[k][r].on
        Reloaded(r, a) == IF a.st = "None" \/ Holds(a) \/ Stays(r) THEN a ELSE Idle("Paused")
    IN  Event(bump_cross_epoch(
            [s EXCEPT !.rules = k,
                      !.tokens = [m \in DOMAIN @ |->
                         [@[m] EXCEPT !.settled = NoStamp,
                                      !.arms = [r \in Ids |-> Reloaded(r, @[r])]]]]))

\* The enabled rules whose fingerprint m matches.
Arms(m) == {r \in Matches[m] \cap Loaded(s) : Rule(s, r).on}
TokenCreated(m, id) ==
    /\ m \notin DOMAIN s.tokens
    /\ LET t == [NewToken(id, FALSE) EXCEPT !.arms =
                   [r \in Ids |-> IF r \notin Arms(m) THEN NoArm
                                  ELSE Idle(IF r \in FirstSlot THEN "PendingFirstSlot" ELSE "Armed")]]
       IN  Event(Store(evaluate_token([Forget(s) EXCEPT !.tokens = Put(@, m, t)], m), m))

FirstSlotSettled(m, full) ==
    /\ m \in DOMAIN s.tokens /\ ~s.tokens[m].slot
    /\ LET Settle(r, a) == IF a.st # "PendingFirstSlot" \/ r \notin Arms(m) THEN a
                           ELSE IF full THEN Idle("Armed") ELSE NoArm
       IN  Event(Store(evaluate_token(
                [Forget(s) EXCEPT !.tokens[m].slot = TRUE,
                                  !.tokens[m].arms = [r \in Ids |-> Settle(r, @[r])]], m), m))

Printed(m, p) == [Forget(s) EXCEPT !.tokens[m] = fold_trade(@, p.price, p.dust)]
Trade(m, p) ==
    m \in DOMAIN s.tokens /\ Event(Store(evaluate_token(Printed(m, p), m), m))
\* A trade that was printed before the process watched: observed, not decided.
prime_trade(m, p) == m \in DOMAIN s.tokens /\ Event(Printed(m, p))

Migrated(m) ==
    /\ m \in DOMAIN s.tokens
    /\ LET Leaves(a) == IF a.st \in {"Armed", "PendingFirstSlot", "Cooldown"}
                        THEN Idle("Disarmed") ELSE a
       IN  Event(Store([Unsettle(s, m) EXCEPT !.tokens[m].arms =
                           [r \in Ids |-> Leaves(@[r])]], m))

\* A rule switched on mid-run: a tracked token is armed, not decided.
hydrate_token(m) ==
    /\ m \in DOMAIN s.tokens
    /\ LET Hydrated(r, a) ==
             IF /\ r \in Arms(m) /\ a.st \in {"None", "Paused"}
                /\ r \in FirstSlot => s.tokens[m].slot
             THEN Idle("Armed") ELSE a
       IN  Event(Store([Unsettle(s, m) EXCEPT !.tokens[m].arms =
                           [r \in Ids |-> Hydrated(r, @[r])]], m))

\* The sweep.  A token is skipped by the epoch the tick began with.
Swept(st, m) ==
    IF st.tokens[m].settled = s.epoch THEN [st EXCEPT !.all = @]
    ELSE LET ticked == evaluate_token([st EXCEPT !.tokens[m].print = FALSE], m)
         IN  Store([ticked EXCEPT !.all = @ /\ ticked.tokens[m].settled # NoStamp], m)
Tick ==
    LET pruned == [s EXCEPT !.guard = prune(@)]
        order == SelectSeq(MintOrder, LAMBDA m : m \in DOMAIN s.tokens)
        Walk[i \in 0 .. Len(order)] ==
            IF i = 0 THEN pruned @@ [all |-> TRUE] ELSE Swept(Walk[i - 1], order[i])
        walked == Walk[Len(order)]
        memo == IF walked.all /\ walked.epoch = s.epoch
                THEN Cardinality(DOMAIN walked.tokens) ELSE NoMemo
    IN  Answered(IF s.memo = Cardinality(DOMAIN s.tokens) THEN pruned
                 ELSE Drop([walked EXCEPT !.memo = memo], "all"))

BuyConfirmed(m, r) ==
    /\ Arm(m, r).st = "EntryPending"
    /\ Answered(SetArm(Unsettle(s, m), m, r,
          [Arm(m, r) EXCEPT !.st = "Entered", !.at = now, !.since = now]))
\* A buy that failed is sent again only if the entry still holds.
BuyFailed(m, r, attemptsLeft) ==
    LET st == Unsettle(s, m)
        loaded == r \in Loaded(s)
        requalifies == loaded => Rule(s, r).on /\ can_enter(Rule(s, r), s.tokens[m])
        next == Idle(IF attemptsLeft /\ loaded THEN "Armed" ELSE "Done")
    IN  /\ Arm(m, r).st = "EntryPending"
        /\ Event(IF attemptsLeft /\ requalifies THEN st
                 ELSE Store(SetArm(decrement_open(st, r), m, r, next), m))
\* again: the episode cap is not reached
SellConfirmed(m, r, again) ==
    LET a == Arm(m, r)
        st == Unsettle(s, m)
        rearms == /\ again /\ a.why = "Line" /\ r \in Loaded(s)
                  /\ Rule(s, r).cooldown > 0
        next == IF rearms THEN Cooldown(now + Rule(s, r).cooldown) ELSE Idle("Done")
        moved == [a EXCEPT !.st = "Entered", !.why = "None", !.partial = FALSE,
                           !.stage = IF a.why = "Line" THEN 1 ELSE @,
                           !.since = IF a.why = "Line" THEN now ELSE @]
    IN  /\ a.st = "ExitPending"
        /\ Answered(IF a.partial THEN SetArm(st, m, r, moved)
                    ELSE Store(SetArm(decrement_open(st, r), m, r, next), m))
SellFailed(m, r, over) ==
    /\ Arm(m, r).st = "ExitPending"
    /\ Event(IF over THEN Store(SetArm(decrement_open(Unsettle(s, m), r), m, r,
                                          Idle("Done")), m)
             ELSE Unsettle(s, m))

ManualBuy(m, r, exit) ==
    LET st == IF m \in DOMAIN s.tokens THEN Unsettle(s, m)
              ELSE [Forget(s) EXCEPT !.tokens = Put(@, m, NewToken(NoId, TRUE))]
    IN  /\ \A n \in DOMAIN s.tokens : Arm(n, r).st = "None"
        /\ Event(record_identity(
              SetArm(st, m, r, [Idle("EntryPending") EXCEPT !.exit = exit]), "real", m))
SetManualExit(m, r, exit) ==
    /\ Holds(Arm(m, r))
    /\ Event([Forget(s) EXCEPT !.tokens[m].arms[r].exit = exit])
ManualClose(m, r, partial) ==
    LET a == Arm(m, r)
        st == Unsettle(s, m)
    IN  \/ a.st = "EntryPending"
           /\ Event(Store(SetArm(decrement_open(st, r), m, r, Idle("Done")), m))
        \/ a.st = "Entered" /\ Event(SetArm(st, m, r, Exit(a, "Manual", partial)))
ExternallyCleared(m, r) ==
    /\ Arm(m, r).st = "Entered"
    /\ Event(Store(SetArm(decrement_open(Unsettle(s, m), r), m, r, Idle("Done")), m))

\* An operator switch, not an event: it leaves the memo and the epoch alone.
set_dupe_guard_policy(on) ==
    /\ s.guard.on # on /\ events < MaxEvents /\ events' = events + 1
    /\ s' = [s EXCEPT !.guard.on = on]
    /\ UNCHANGED now

\* Time passes between any two events; a tick may be late by any amount.
Elapse == events > 0 /\ now < MaxTime /\ now' = now + 1 /\ UNCHANGED <<s, events>>

-----------------------------------------------------------------------------
Init ==
    /\ \E k \in DOMAIN Tables :
         s = [tokens |-> [m \in {} |-> NoArm], rules |-> k,
              open |-> [r \in Ids |-> 0], epoch |-> 0, memo |-> NoMemo,
              guard |-> [on |-> TRUE, memory |-> NoMemory, next |-> 0], tried |-> {}]
    /\ now = 1 /\ events = 0

Market(m) ==
    \/ \E id \in Identity[m] : TokenCreated(m, id)
    \/ Migrated(m) \/ hydrate_token(m)
    \/ \E full \in BOOLEAN : FirstSlotSettled(m, full)
    \/ \E p \in Prints : Trade(m, p) \/ prime_trade(m, p)
Answers(m, r) ==
    \/ BuyConfirmed(m, r)
    \/ \E yes \in BOOLEAN : BuyFailed(m, r, yes) \/ SellConfirmed(m, r, yes)
                            \/ SellFailed(m, r, yes)
Operator(m, r) ==
    \/ \E yes \in BOOLEAN : SetManualExit(m, r, yes) \/ ManualClose(m, r, yes)
    \/ ExternallyCleared(m, r)

Next ==
    \/ \E m \in Mints : Market(m)
    \/ \E m \in DOMAIN s.tokens, r \in Ids : Answers(m, r) \/ Operator(m, r)
    \/ \E m \in ManualMints, r \in Manual, exit \in BOOLEAN : ManualBuy(m, r, exit)
    \/ \E k \in DOMAIN Tables : RulesReloaded(k)
    \/ \E on \in Policies : set_dupe_guard_policy(on)
    \/ Tick
    \/ Elapse

Spec == Init /\ [][Next]_vars

-----------------------------------------------------------------------------
(* Properties.                                                             *)

ArmType == [st : {"None", "PendingFirstSlot", "Armed", "Cooldown", "EntryPending", "Entered",
                  "ExitPending", "Paused", "Disarmed", "Done"},
            at : Nat, stage : 0 .. 1, since : Nat, why : {"None", "Line", "Dead", "Manual"},
            partial : BOOLEAN, exit : BOOLEAN]
TokenType == [created : Nat, id : Nat, last : Nat, meaningful : Nat, price : 0 .. 2,
              peak : 0 .. 2, high : Nat, print : BOOLEAN, slot : BOOLEAN,
              settled : {NoStamp, 0}, arms : [Ids -> ArmType]]

\* The fields of EngineState and TokenState have their types.
TypeOK ==
    /\ DOMAIN s.tokens \subseteq Mints /\ s.rules \in DOMAIN Tables
    /\ \A m \in DOMAIN s.tokens : s.tokens[m] \in TokenType
    /\ s.epoch = 0 /\ s.memo \in NoMemo .. Cardinality(Mints)
    /\ s.open \in [Ids -> Nat]
    /\ now \in 1 .. MaxTime /\ events \in 0 .. MaxEvents

\* Whether a tick at this instant leaves token m out.
Skipped(m) == s.memo = Cardinality(DOMAIN s.tokens) \/ s.tokens[m].settled = s.epoch
\* What deciding it would leave, its stamp and print reading aside.
Decided(m) ==
    LET st == evaluate_token([s EXCEPT !.guard = prune(@), !.tokens[m].print = FALSE], m)
    IN  [st EXCEPT !.tokens[m].settled = s.tokens[m].settled,
                   !.tokens[m].print = s.tokens[m].print, !.guard = s.guard]

\* The tick skip is decision-neutral (state.rs, Settled; the contract the
\* differential test settled_ticks.rs samples): at every instant, however
\* long the gap to the sweep that stamped it, a token the next tick would
\* leave out is one whose decision changes nothing: no entry, disarm, sale,
\* stage move or cooldown end is lost.  A missing anchor in settle_until, a
\* missing bump of the cross-token epoch or a missing unsettle loses one.
SkipIsNeutral == \A m \in DOMAIN s.tokens : Skipped(m) => Decided(m) = s

\* Rule r buys token m in this step.
Enters(m, r) == /\ m \in DOMAIN s'.tokens /\ s'.tokens[m].arms[r].st = "EntryPending"
                /\ m \in DOMAIN s.tokens => s.tokens[m].arms[r].st # "EntryPending"

\* A rule never enters a token whose (name, symbol) another mint was tried
\* under in the same mode inside the window, the attempt failed or not, made
\* earlier or in this very tick, pruned memory or not (dupe_guard.rs).
CopycatNeverEntered ==
    [][\A m \in Mints, r \in Loaded(s) :
         s.guard.on /\ Enters(m, r) =>
            \A e \in s'.tried : ~ /\ e.mint # m /\ e.mode = Rule(s, r).mode
                                  /\ e.id # NoId /\ e.id = s'.tokens[m].id
                                  /\ e.at > now - GuardWindow]_vars
=============================================================================
