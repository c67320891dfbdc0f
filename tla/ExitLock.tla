------------------------------ MODULE ExitLock ------------------------------
(***************************************************************************)
(* InFlightGuards of the live engine (src/hunter/live/src/strategies/      *)
(* engine/mod.rs): the set of positions with an exit task, and one FIFO    *)
(* lock per token account ("wallet:mint") in a concurrent map.             *)
(*                                                                         *)
(* A lock is an Arc<tokio::Mutex>.  It is made on first use, cloned by     *)
(* everyone who wants it, and taken out of the map when only the map still *)
(* references it.  A step is what the code does atomically: one operation  *)
(* on the map (under its shard lock), one operation on the mutex, or the   *)
(* drop of one reference.  The callers are run_exit (kind "exit", queues), *)
(* spawn_orphan_sell ("orphan", looks first and never queues), the manual  *)
(* sell handler ("manual", never queues) and the reapers' look ("look").   *)
(***************************************************************************)
EXTENDS Naturals, Sequences, FiniteSets

CONSTANTS
    Tasks,      \* the tasks that sell or look
    Keys,       \* token accounts, "wallet:mint"
    Positions,  \* position ids
    LockIds,    \* addresses a lock object can have
    Kind,       \* what each task is
    KeyOf,      \* the account each task sells from
    PosOf,      \* the position each task sells (unused by "manual")
    None

Kinds == {"exit", "orphan", "manual", "look"}

ASSUME ExitLockAssumption ==
    /\ Kind \in [Tasks -> Kinds]
    /\ KeyOf \in [Tasks -> Keys]
    /\ PosOf \in [Tasks -> Positions]
    /\ None \notin LockIds
    /\ None \notin Tasks

VARIABLES
    pc,     \* where each task is
    arc,    \* the lock object a task holds a reference to
    exit,   \* InFlightGuards.exit: positions claimed by an exit task
    table,  \* InFlightGuards.exit_mints: account to lock object
    owner,  \* per lock object: who holds its mutex
    queue   \* per lock object: who waits for its mutex, first come first

vars == <<pc, arc, exit, table, owner, queue>>

PCs == {"idle", "seek", "look", "looking", "claim", "clone", "try", "lost",
        "enqueue", "lock", "queued", "working", "unlocked", "prune", "leave"}

TypeOK ==
    /\ pc \in [Tasks -> PCs]
    /\ arc \in [Tasks -> LockIds \cup {None}]
    /\ exit \in SUBSET Positions
    /\ table \in [Keys -> LockIds \cup {None}]
    /\ owner \in [LockIds -> Tasks \cup {None}]
    /\ queue \in [LockIds -> Seq(Tasks)]

Init ==
    /\ pc = [t \in Tasks |-> "idle"]
    /\ arc = [t \in Tasks |-> None]
    /\ exit = {}
    /\ table = [k \in Keys |-> None]
    /\ owner = [l \in LockIds |-> None]
    /\ queue = [l \in LockIds |-> <<>>]

Go(t, to) == pc' = [pc EXCEPT ![t] = to]

\* A lock object nobody references: its memory may be used again.
Fresh(l) ==
    /\ \A t \in Tasks : arc[t] # l
    /\ \A k \in Keys : table[k] # l

\* A look holds the shard's read lock, so nobody changes the map meanwhile.
ShardFree(k) == \A t \in Tasks : ~(pc[t] = "looking" /\ KeyOf[t] = k)

(***************************************************************************)
(* Giving the mutex up: it goes straight to the first waiter.              *)
(***************************************************************************)
HandOn(l) ==
    IF queue[l] = <<>>
    THEN /\ owner' = [owner EXCEPT ![l] = None]
         /\ UNCHANGED queue
    ELSE /\ owner' = [owner EXCEPT ![l] = Head(queue[l])]
         /\ queue' = [queue EXCEPT ![l] = Tail(queue[l])]

Without(q, i) == [j \in 1..(Len(q) - 1) |-> IF j < i THEN q[j] ELSE q[j + 1]]

(***************************************************************************)
(* exit_held and exit_mint_held: the look takes a free mutex for a moment. *)
(***************************************************************************)
Start(t) ==
    /\ pc[t] = "idle"
    /\ Go(t, CASE Kind[t] = "exit" -> "claim"
               [] Kind[t] = "manual" -> "clone"
               [] OTHER -> "seek")
    /\ UNCHANGED <<arc, exit, table, owner, queue>>

ExitHeld(t) ==
    /\ pc[t] = "seek"
    /\ Go(t, IF PosOf[t] \in exit THEN "idle" ELSE "look")
    /\ UNCHANGED <<arc, exit, table, owner, queue>>

AfterLook(t) == IF Kind[t] = "orphan" THEN "claim" ELSE "idle"

LookFree(t) ==
    /\ pc[t] = "look"
    /\ table[KeyOf[t]] = None
    /\ Go(t, AfterLook(t))
    /\ UNCHANGED <<arc, exit, table, owner, queue>>

LookHeld(t) ==
    /\ pc[t] = "look"
    /\ table[KeyOf[t]] # None
    /\ owner[table[KeyOf[t]]] # None
    /\ Go(t, "idle")
    /\ UNCHANGED <<arc, exit, table, owner, queue>>

LookTakes(t) ==
    /\ pc[t] = "look"
    /\ table[KeyOf[t]] # None
    /\ owner[table[KeyOf[t]]] = None
    /\ owner' = [owner EXCEPT ![table[KeyOf[t]]] = t]
    /\ Go(t, "looking")
    /\ UNCHANGED <<arc, exit, table, queue>>

LookEnds(t) ==
    /\ pc[t] = "looking"
    /\ HandOn(table[KeyOf[t]])
    /\ Go(t, AfterLook(t))
    /\ UNCHANGED <<arc, exit, table>>

(***************************************************************************)
(* try_begin_exit, then try_begin_exit_mint.                               *)
(***************************************************************************)
try_begin_exit(t) ==
    /\ pc[t] = "claim"
    /\ IF PosOf[t] \in exit
       THEN /\ Go(t, "idle")
            /\ UNCHANGED exit
       ELSE /\ exit' = exit \cup {PosOf[t]}
            /\ Go(t, "clone")
    /\ UNCHANGED <<arc, table, owner, queue>>

\* exit_mint_lock: find or make the lock and clone it, under the shard lock.
exit_mint_lock(t) ==
    /\ ShardFree(KeyOf[t])
    /\ IF table[KeyOf[t]] # None
       THEN /\ arc' = [arc EXCEPT ![t] = table[KeyOf[t]]]
            /\ UNCHANGED table
       ELSE \E l \in LockIds :
                /\ Fresh(l)
                /\ table' = [table EXCEPT ![KeyOf[t]] = l]
                /\ arc' = [arc EXCEPT ![t] = l]
    /\ UNCHANGED <<exit, owner, queue>>

CloneToTry(t) ==
    /\ pc[t] = "clone"
    /\ exit_mint_lock(t)
    /\ Go(t, "try")

try_lock_owned(t) ==
    /\ pc[t] = "try"
    /\ IF owner[arc[t]] = None
       THEN /\ owner' = [owner EXCEPT ![arc[t]] = t]
            /\ Go(t, "working")
       ELSE /\ Go(t, "lost")
            /\ UNCHANGED owner
    /\ UNCHANGED <<arc, exit, table, queue>>

\* A mutant: an orphan sell that loses the try keeps its position claim.
DropTry_mutant(t) ==
    /\ pc[t] = "lost"
    /\ arc' = [arc EXCEPT ![t] = None]
    /\ Go(t, IF Kind[t] = "exit" THEN "enqueue" ELSE "idle")
    /\ UNCHANGED <<exit, table, owner, queue>>

\* The clone of a failed try is dropped without a prune.  run_exit goes on to
\* queue, spawn_orphan_sell gives its position claim back, a manual sell ends.
DropTry(t) ==
    /\ pc[t] = "lost"
    /\ arc' = [arc EXCEPT ![t] = None]
    /\ Go(t, CASE Kind[t] = "exit" -> "enqueue"
               [] Kind[t] = "orphan" -> "leave"
               [] OTHER -> "idle")
    /\ UNCHANGED <<exit, table, owner, queue>>

(***************************************************************************)
(* begin_exit_mint: queue for at most EXIT_MINT_WAIT.                      *)
(***************************************************************************)
CloneToQueue(t) ==
    /\ pc[t] = "enqueue"
    /\ exit_mint_lock(t)
    /\ Go(t, "lock")

lock_owned(t) ==
    /\ pc[t] = "lock"
    /\ IF owner[arc[t]] = None
       THEN /\ owner' = [owner EXCEPT ![arc[t]] = t]
            /\ Go(t, "working")
            /\ UNCHANGED queue
       ELSE /\ queue' = [queue EXCEPT ![arc[t]] = Append(queue[arc[t]], t)]
            /\ Go(t, "queued")
            /\ UNCHANGED owner
    /\ UNCHANGED <<arc, exit, table>>

Granted(t) ==
    /\ pc[t] = "queued"
    /\ owner[arc[t]] = t
    /\ Go(t, "working")
    /\ UNCHANGED <<arc, exit, table, owner, queue>>

\* A mutant: a waiter that times out just after the hand-over keeps the mutex.
Timeout_mutant(t) ==
    /\ pc[t] = "queued"
    /\ owner[arc[t]] # t => \E i \in 1..Len(queue[arc[t]]) :
                               /\ queue[arc[t]][i] = t
                               /\ queue' = [queue EXCEPT ![arc[t]] = Without(queue[arc[t]], i)]
    /\ owner[arc[t]] = t => UNCHANGED queue
    /\ Go(t, "unlocked")
    /\ UNCHANGED <<arc, exit, table, owner>>

\* The wait ends: the dropped future leaves the queue, or gives back the mutex
\* if it had just been handed over.
Timeout(t) ==
    /\ pc[t] = "queued"
    /\ IF owner[arc[t]] = t
       THEN HandOn(arc[t])
       ELSE /\ \E i \in 1..Len(queue[arc[t]]) :
                  /\ queue[arc[t]][i] = t
                  /\ queue' = [queue EXCEPT ![arc[t]] = Without(queue[arc[t]], i)]
            /\ UNCHANGED owner
    /\ Go(t, "unlocked")
    /\ UNCHANGED <<arc, exit, table>>

(***************************************************************************)
(* ExitMintGuard::drop and ExitGuard::drop.                                *)
(***************************************************************************)
Unlock(t) ==
    /\ pc[t] = "working"
    /\ HandOn(arc[t])
    /\ Go(t, "unlocked")
    /\ UNCHANGED <<arc, exit, table>>

DropArc(t) ==
    /\ pc[t] = "unlocked"
    /\ arc' = [arc EXCEPT ![t] = None]
    /\ Go(t, "prune")
    /\ UNCHANGED <<exit, table, owner, queue>>

\* A mutant: the prune looks at the mutex instead of the reference count.
OnlyMapHolds_mutant(k) == table[k] = None \/ owner[table[k]] = None

OnlyMapHolds(k) == \A t \in Tasks : arc[t] # table[k]

prune_exit_mint(t) ==
    /\ pc[t] = "prune"
    /\ ShardFree(KeyOf[t])
    /\ table' = IF OnlyMapHolds(KeyOf[t])
                THEN [table EXCEPT ![KeyOf[t]] = None]
                ELSE table
    /\ Go(t, IF Kind[t] = "manual" THEN "idle" ELSE "leave")
    /\ UNCHANGED <<arc, exit, owner, queue>>

Leave(t) ==
    /\ pc[t] = "leave"
    /\ exit' = exit \ {PosOf[t]}
    /\ Go(t, "idle")
    /\ UNCHANGED <<arc, table, owner, queue>>

(***************************************************************************)
(* Specification.                                                          *)
(***************************************************************************)
Step(t) ==
    \/ ExitHeld(t) \/ LookFree(t) \/ LookHeld(t) \/ LookTakes(t) \/ LookEnds(t)
    \/ try_begin_exit(t) \/ CloneToTry(t) \/ try_lock_owned(t) \/ DropTry(t)
    \/ CloneToQueue(t) \/ lock_owned(t) \/ Granted(t)
    \/ Unlock(t) \/ DropArc(t) \/ prune_exit_mint(t) \/ Leave(t)

Next == \E t \in Tasks : Start(t) \/ Step(t) \/ Timeout(t)

\* The runtime polls every task that can go on, and a sell ends (its sends and
\* waits are bounded).  Nothing makes a task start or a wait expire.
Fairness == \A t \in Tasks : WF_vars(Step(t))

Spec == Init /\ [][Next]_vars

FairSpec == Spec /\ Fairness

(***************************************************************************)
(* Properties.                                                             *)
(***************************************************************************)
\* At most one task sells from a token account at a time, whatever tries,
\* time-outs, looks and prunes of the account's lock come in between: there are
\* never two locks for one account (mod.rs, begin_exit_mint / prune_exit_mint).
OneSellPerAccount ==
    \A t, u \in Tasks :
        (pc[t] = "working" /\ pc[u] = "working" /\ KeyOf[t] = KeyOf[u]) => t = u

\* Every reference a task holds is to the lock the map has for its account, so
\* all that want an account meet at one mutex: a prune never removes a lock that
\* somebody cloned, and a lock is made only where there is none (mod.rs,
\* exit_mint_lock / prune_exit_mint).
OneLockPerAccount ==
    \A t \in Tasks : arc[t] # None => table[KeyOf[t]] = arc[t]

\* Between a successful claim and the drop of the ExitGuard.
Claimed(t) ==
    /\ Kind[t] \in {"exit", "orphan"}
    /\ pc[t] \in {"clone", "try", "lost", "enqueue", "lock", "queued", "working",
                  "unlocked", "prune", "leave"}

\* The claimed positions are exactly those of the running exit tasks, one task
\* each: no way out leaks a claim (the reapers would skip the position for good)
\* and none drops the claim of another task (mod.rs, try_begin_exit / ExitGuard).
ClaimsExact ==
    /\ exit = {PosOf[t] : t \in {u \in Tasks : Claimed(u)}}
    /\ \A t, u \in Tasks : (Claimed(t) /\ Claimed(u) /\ PosOf[t] = PosOf[u]) => t = u

\* An exit that queues for its account's lock gets its turn or gives up: the
\* holder's release, a look or another waiter's time-out never loses the hand-over.
NoStarvation ==
    \A t \in Tasks : (pc[t] = "queued") ~> (pc[t] # "queued")

\* The map holds a lock only while a task references it or is about to prune it
\* (comment at mod.rs:69: "present only while a guard or a waiter holds it").
NoIdleLock ==
    \A k \in Keys :
        table[k] # None =>
            \E t \in Tasks :
                /\ KeyOf[t] = k
                /\ arc[t] = table[k] \/ pc[t] = "prune"
=============================================================================
