-------------------------- MODULE ReloadScheduler --------------------------
(***************************************************************************)
(* How a rule edit reaches the running engine: an HTTP handler writes the  *)
(* rule to Postgres and schedules a reload (EngineReloadScheduler), whose  *)
(* background task sends ReloadRules down the engine's command channel and *)
(* waits for the ack; the decision loop coalesces queued reloads into one. *)
(* Other operator commands travel through the same channel.                *)
(*                                                                         *)
(* Every atomic load, store and swap, every channel send and every await   *)
(* is a step of its own.                                                   *)
(***************************************************************************)
EXTENDS Integers, Sequences, FiniteSets

CONSTANTS
    Handlers,           \* HTTP handler threads; each may spawn a reload task
    ReloadAttempts,     \* RELOAD_RETRY_ATTEMPTS
    ChannelCap,         \* capacity of the command channel
    MaxMutations,       \* bound: rule edits
    MaxCommands,        \* bound: other operator commands
    MaxFailures         \* bound: reloads that fail or time out

ASSUME ReloadAssumption ==
    /\ IsFiniteSet(Handlers)
    /\ ReloadAttempts \in Nat \ {0} /\ ChannelCap \in Nat \ {0}
    /\ MaxMutations \in Nat /\ MaxCommands \in Nat /\ MaxFailures \in Nat

VARIABLES
    pg, engine,     \* rule-set version in Postgres, and the one last folded
    dirty, running, \* the scheduler's atomics
    http,           \* handler -> where it is in mutate-and-schedule
    task,           \* handler -> where the task it spawned is
    tries,          \* handler -> attempts of reload_with_retry so far
    ticket,         \* handler -> oneshot channel of its latest attempt
    queue,          \* the command channel
    loop,           \* acks the loop owes while it loads; {} when it is free
    snapshot,       \* the version the running load has read, NotRead before
    acks,           \* handler -> outcome of the ack it waits for
    sent, handled,  \* operator commands accepted by the channel; folded
    failures,
    flagged, checked    \* history: newest version flagged dirty; as it was
                        \* when the task last found dirty clear

vars == <<pg, engine, dirty, running, http, task, tries, ticket, queue, loop,
          snapshot, acks, sent, handled, failures, flagged, checked>>

NotRead == -1
Reload(h, n) == [kind |-> "ReloadRules", from |-> <<h, n>>]
Command(n) == [kind |-> "Other", from |-> n]
Send(cmd) == Len(queue) < ChannelCap /\ queue' = Append(queue, cmd)

-----------------------------------------------------------------------------
(* HTTP handler: write Postgres, then EngineReloadScheduler::schedule.     *)

WriteRule(h) ==
    /\ http[h].pc = "idle" /\ pg < MaxMutations
    /\ pg' = pg + 1
    /\ http' = [http EXCEPT ![h] = [pc |-> "written", version |-> pg + 1]]
    /\ UNCHANGED <<engine, dirty, running, task, tries, ticket, queue, loop, acks, sent,
                   handled, failures, flagged, snapshot, checked>>

StoreDirty(h) ==
    /\ http[h].pc = "written"
    /\ dirty' = TRUE
    /\ flagged' = IF http[h].version > flagged THEN http[h].version ELSE flagged
    /\ http' = [http EXCEPT ![h].pc = "flagged"]
    /\ UNCHANGED <<pg, engine, running, task, tries, ticket, queue, loop, acks, sent,
                   handled, failures, snapshot, checked>>

\* running.swap(true): spawn the task unless one already runs.
\* (mutant) the swap's old value is not looked at
Spawns_mutant(h) == task[h] = "none"
Spawns(h) == ~running
SwapRunning(h) ==
    /\ http[h].pc = "flagged" /\ (Spawns(h) => task[h] = "none")
    /\ running' = TRUE
    /\ task' = IF Spawns(h) THEN [task EXCEPT ![h] = "clear"] ELSE task
    /\ http' = [http EXCEPT ![h].pc = "idle"]
    /\ UNCHANGED <<pg, engine, dirty, tries, ticket, queue, loop, acks, sent, handled,
                   failures, flagged, snapshot, checked>>

\* Any other command of EngineHandle (close, stop, manual buy ...).
SendCommand ==
    /\ Cardinality(sent) < MaxCommands
    /\ LET n == Cardinality(sent) + 1
       IN  Send(Command(n)) /\ sent' = sent \cup {n}
    /\ UNCHANGED <<pg, engine, dirty, running, http, task, tries, ticket, loop, acks,
                   handled, failures, flagged, snapshot, checked>>

-----------------------------------------------------------------------------
(* The background task: EngineReloadScheduler::run, reload_with_retry.     *)

ClearDirty(h) ==
    /\ task[h] = "clear"
    /\ dirty' = FALSE
    /\ task' = [task EXCEPT ![h] = "send"] /\ tries' = [tries EXCEPT ![h] = 0]
    /\ UNCHANGED <<pg, engine, running, http, ticket, queue, loop, acks, sent, handled,
                   failures, flagged, snapshot, checked>>

SendReload(h) ==
    /\ task[h] = "send" /\ Send(Reload(h, ticket[h] + 1))
    /\ task' = [task EXCEPT ![h] = "await"]
    /\ tries' = [tries EXCEPT ![h] = @ + 1]
    /\ acks' = [acks EXCEPT ![h] = "none"]
    /\ ticket' = [ticket EXCEPT ![h] = @ + 1]
    /\ UNCHANGED <<pg, engine, dirty, running, http, loop, sent, handled,
                   failures, flagged, snapshot, checked>>

\* (mutant) one attempt too many
AfterFailure_mutant(h) == IF tries[h] <= ReloadAttempts THEN "send" ELSE "check"
AfterFailure(h) == IF tries[h] < ReloadAttempts THEN "send" ELSE "check"
\* (mutant) the flag is cleared after the reload as well
ReceiveAck_mutant(h) ==
    /\ task[h] = "await" /\ acks[h] # "none"
    /\ task' = [task EXCEPT ![h] = IF acks[h] = "ok" THEN "check" ELSE AfterFailure(h)]
    /\ dirty' = IF acks[h] = "ok" THEN FALSE ELSE dirty
    /\ acks' = [acks EXCEPT ![h] = "none"]
    /\ UNCHANGED <<pg, engine, running, http, tries, ticket, queue, loop, sent,
                   handled, failures, flagged, snapshot, checked>>
ReceiveAck(h) ==
    /\ task[h] = "await" /\ acks[h] # "none"
    /\ task' = [task EXCEPT ![h] = IF acks[h] = "ok" THEN "check" ELSE AfterFailure(h)]
    /\ acks' = [acks EXCEPT ![h] = "none"]
    /\ UNCHANGED <<pg, engine, dirty, running, http, tries, ticket, queue, loop, sent,
                   handled, failures, flagged, snapshot, checked>>

\* RELOAD_ACK_TIMEOUT elapses; the command stays in the channel or the loop.
AckTimeout(h) ==
    /\ task[h] = "await" /\ acks[h] = "none" /\ failures < MaxFailures
    /\ failures' = failures + 1
    /\ task' = [task EXCEPT ![h] = AfterFailure(h)]
    /\ UNCHANGED <<pg, engine, dirty, running, http, tries, ticket, queue, loop, acks,
                   sent, handled, flagged, snapshot, checked>>

\* dirty.load: go round again, or leave the loop...
CheckDirty(h) ==
    /\ task[h] = "check"
    /\ task' = [task EXCEPT ![h] = IF dirty THEN "clear" ELSE "leave"]
    /\ checked' = IF dirty THEN checked ELSE flagged
    /\ UNCHANGED <<pg, engine, dirty, running, http, tries, ticket, queue, loop, acks,
                   sent, handled, failures, flagged, snapshot>>
\* ... and only then running.store(false).
StoreNotRunning(h) ==
    /\ task[h] = "leave"
    /\ running' = FALSE
    /\ task' = [task EXCEPT ![h] = "none"]
    /\ UNCHANGED <<pg, engine, dirty, http, tries, ticket, queue, loop, acks, sent,
                   handled, failures, flagged, snapshot, checked>>

-----------------------------------------------------------------------------
(* The decision loop's command lane.                                       *)

\* `while let Ok(ReloadRules) = try_recv()`: the reloads at the head of the
\* channel are taken together, and so is the command that ends the run.
ReloadsAtHead(k) ==
    /\ \A i \in 1 .. k : queue[i].kind = "ReloadRules"
    /\ k < Len(queue) => queue[k + 1].kind # "ReloadRules"
TakeReloads ==
    /\ loop = {}
    /\ \E k \in 1 .. Len(queue) :
          /\ ReloadsAtHead(k)
          /\ loop' = {queue[i].from : i \in 1 .. k}
          /\ queue' = SubSeq(queue, k + 2, Len(queue))
    /\ UNCHANGED <<pg, engine, dirty, running, http, task, tries, ticket, acks, sent,
                   handled, failures, flagged, snapshot, checked>>

\* reload_rules reads Postgres, then folds RulesReloaded and acks every waiter
\* that still listens.  An edit written between the two is not in the fold.
ReadRules ==
    /\ loop # {} /\ snapshot = NotRead
    /\ snapshot' = pg
    /\ UNCHANGED <<pg, engine, dirty, running, http, task, tries, ticket, queue, loop,
                   acks, sent, handled, failures, flagged, checked>>
Ack(result) ==
    /\ acks' = [h \in Handlers |->
                  IF <<h, ticket[h]>> \in loop /\ task[h] = "await" THEN result ELSE acks[h]]
    /\ loop' = {} /\ snapshot' = NotRead
FoldRules ==
    /\ loop # {} /\ snapshot # NotRead
    /\ engine' = snapshot /\ Ack("ok")
    /\ UNCHANGED <<pg, dirty, running, http, task, tries, ticket, queue, sent, handled,
                   failures, flagged, checked>>
LoadFails ==
    /\ loop # {} /\ failures < MaxFailures
    /\ failures' = failures + 1 /\ Ack("failed")
    /\ UNCHANGED <<pg, engine, dirty, running, http, task, tries, ticket, queue, sent,
                   handled, flagged, checked>>

HandleCommand ==
    /\ loop = {} /\ queue # <<>> /\ Head(queue).kind # "ReloadRules"
    /\ handled' = handled \cup {Head(queue).from}
    /\ queue' = Tail(queue)
    /\ UNCHANGED <<pg, engine, dirty, running, http, task, tries, ticket, loop, acks,
                   sent, failures, flagged, snapshot, checked>>

-----------------------------------------------------------------------------
Init ==
    /\ pg = 0 /\ engine = 0
    /\ dirty = FALSE /\ running = FALSE
    /\ http = [h \in Handlers |-> [pc |-> "idle", version |-> 0]]
    /\ task = [h \in Handlers |-> "none"]
    /\ tries = [h \in Handlers |-> 0] /\ ticket = [h \in Handlers |-> 0]
    /\ queue = <<>> /\ loop = {} /\ snapshot = NotRead /\ acks = [h \in Handlers |-> "none"]
    /\ sent = {} /\ handled = {} /\ failures = 0
    /\ flagged = 0 /\ checked = 0

Schedule(h) == StoreDirty(h) \/ SwapRunning(h)
RunTask(h) == \/ ClearDirty(h) \/ SendReload(h) \/ ReceiveAck(h)
              \/ CheckDirty(h) \/ StoreNotRunning(h)
CommandLane == TakeReloads \/ ReadRules \/ FoldRules \/ LoadFails \/ HandleCommand
Next == \/ \E h \in Handlers : WriteRule(h) \/ Schedule(h) \/ RunTask(h) \/ AckTimeout(h)
        \/ SendCommand \/ CommandLane
Spec == Init /\ [][Next]_vars

\* Threads and tasks are scheduled by the runtime and the loop polls its
\* command lane first (`biased` select).  Nothing forces a rule edit, an
\* operator command, a timeout or a failed load.
FairSpec == /\ Spec /\ WF_vars(CommandLane)
            /\ \A h \in Handlers : WF_vars(Schedule(h)) /\ WF_vars(RunTask(h))

-----------------------------------------------------------------------------
(* Properties.                                                             *)

Live(h) == task[h] # "none"

\* The scheduler's atomics, the channel and the tasks have their types.
TypeOK ==
    /\ pg \in 0 .. MaxMutations /\ engine \in 0 .. pg
    /\ dirty \in BOOLEAN /\ running \in BOOLEAN
    /\ http \in [Handlers -> [pc : {"idle", "written", "flagged"}, version : 0 .. pg]]
    /\ task \in [Handlers -> {"none", "clear", "send", "await", "check", "leave"}]
    /\ tries \in [Handlers -> 0 .. ReloadAttempts]
    /\ Len(queue) <= ChannelCap /\ snapshot \in {NotRead} \cup 0 .. pg
    /\ acks \in [Handlers -> {"none", "ok", "failed"}]
    /\ handled \subseteq sent

\* The swap on `running` admits one background task at a time, and `running`
\* says whether there is one: two tasks would double every reload.
OneTask == /\ Cardinality({h \in Handlers : Live(h)}) <= 1
           /\ running <=> \E h \in Handlers : Live(h)

\* A task that leaves after a successful reload has loaded every rule edit
\* that was flagged dirty before its last look at the flag: clearing the flag
\* before the reload, not after, is what makes coalescing safe.
LeavesFresh ==
    \A h \in Handlers : task[h] = "leave" /\ failures = 0 => engine >= checked

\* Stated by api/handlers/strategies/engine.rs ("Every rule/fingerprint
\* mutation schedules a background reload"): with no failed reload, a rule
\* edit eventually reaches the engine.
EditsReachEngine ==
    \A v \in 1 .. MaxMutations : pg >= v ~> engine >= v

\* Stated by api/handlers/strategies/positions.rs ("Never returns 202 on a
\* silent no-op"): a command the channel accepted is still queued, or was
\* handled.
CommandsKept ==
    sent = handled \cup {queue[i].from : i \in {j \in 1 .. Len(queue) : queue[j].kind = "Other"}}
=============================================================================
