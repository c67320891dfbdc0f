----------------------- MODULE ReloadScheduler_proofs -----------------------
(***************************************************************************)
(* The reload scheduler's atomics admit one task, and coalescing loses no  *)
(* flagged edit: proofs for any number of handlers, attempts, edits,       *)
(* commands and failures, and any channel capacity.                        *)
(***************************************************************************)
EXTENDS ReloadScheduler, FiniteSetTheorems, TLAPS

Message == [kind : {"ReloadRules", "Other"}, from : (Handlers \X Nat) \cup Nat]

\* The types, with what the type invariant leaves open.
Typed ==
    /\ pg \in Nat /\ pg <= MaxMutations
    /\ engine \in Nat /\ engine <= pg
    /\ dirty \in BOOLEAN /\ running \in BOOLEAN
    /\ http \in [Handlers -> [pc : {"idle", "written", "flagged"}, version : Nat]]
    /\ \A h \in Handlers : http[h].version <= pg
    /\ task \in [Handlers -> {"none", "clear", "send", "await", "check", "leave"}]
    /\ tries \in [Handlers -> Nat]
    /\ ticket \in [Handlers -> Nat]
    /\ snapshot \in Nat \cup {NotRead} /\ snapshot <= pg
    /\ acks \in [Handlers -> {"none", "ok", "failed"}]
    /\ failures \in Nat
    /\ flagged \in Nat /\ flagged <= pg
    /\ checked \in Nat

\* An attempt is started only with attempts left, and counted when it is sent.
TriesBounded ==
    \A h \in Handlers : /\ tries[h] <= ReloadAttempts
                        /\ task[h] = "send" => tries[h] < ReloadAttempts

\* `running` stands for the one live task.
Exclusive ==
    /\ \A h, g \in Handlers : Live(h) /\ Live(g) => h = g
    /\ running <=> \E h \in Handlers : Live(h)

\* The channel holds commands that were sent, and reloads of tickets already
\* issued; so does the loop.
Issued(f, last) == \A h \in Handlers, n \in Nat : f = <<h, n>> => n <= last[h]
Genuine(m, last, cmds) == IF m.kind = "ReloadRules" THEN Issued(m.from, last) ELSE m.from \in cmds
Queued ==
    /\ queue \in Seq(Message) /\ Len(queue) <= ChannelCap
    /\ handled \subseteq sent /\ IsFiniteSet(sent)
    /\ \A i \in 1 .. Len(queue) : Genuine(queue[i], ticket, sent)
    /\ \A f \in loop : Issued(f, ticket)

\* No edit has been flagged since the task cleared the flag, and no reload has
\* failed: what the reload in progress has read, answered or folded holds them all.
Fresh(h) ==
    /\ task[h] = "await" /\ ~dirty /\ snapshot # NotRead /\ <<h, ticket[h]>> \in loop
          => snapshot >= flagged
    /\ task[h] = "await" /\ ~dirty /\ acks[h] = "ok" => engine >= flagged
    /\ acks[h] = "failed" => failures > 0
    /\ task[h] = "check" /\ failures = 0 /\ ~dirty => engine >= flagged
    /\ task[h] = "leave" /\ failures = 0 => engine >= checked

Coalesced ==
    /\ loop = {} => snapshot = NotRead
    /\ snapshot # NotRead => snapshot >= engine
    /\ \A h \in Handlers : Fresh(h)

ReloadInv == Typed /\ TriesBounded /\ Exclusive /\ Queued /\ Coalesced
-----------------------------------------------------------------------------
(* Proofs.                                                                 *)

\* The initial state, with nothing sent and nobody running.
LEMMA InitReload == Init => ReloadInv
<1> SUFFICES ASSUME Init PROVE ReloadInv
  OBVIOUS
<1>1. Typed /\ TriesBounded
  <2>1. /\ http \in [Handlers -> [pc : {"idle", "written", "flagged"}, version : Nat]]
        /\ \A h \in Handlers : http[h].version = 0
    BY DEF Init
  <2>2. /\ tries \in [Handlers -> Nat] /\ ticket \in [Handlers -> Nat]
        /\ \A h \in Handlers : tries[h] = 0 /\ task[h] = "none"
    BY DEF Init
  <2>3. /\ task \in [Handlers -> {"none", "clear", "send", "await", "check", "leave"}]
        /\ acks \in [Handlers -> {"none", "ok", "failed"}]
    BY DEF Init
  <2>4. /\ pg = 0 /\ engine = 0 /\ flagged = 0 /\ checked = 0 /\ failures = 0
        /\ dirty \in BOOLEAN /\ running \in BOOLEAN
    BY DEF Init
  <2>5. snapshot \in Nat \cup {NotRead} /\ snapshot <= pg
    BY DEF Init, NotRead
  <2>6. TriesBounded
    BY <2>2, ReloadAssumption DEF TriesBounded
  <2> QED
    BY <2>1, <2>2, <2>3, <2>4, <2>5, <2>6, ReloadAssumption DEF Typed
<1>2. Exclusive
  BY DEF Init, Exclusive, Live
<1>3. Queued
  BY FS_EmptySet, ReloadAssumption DEF Init, Queued
<1>4. Coalesced
  BY DEF Init, Coalesced, Fresh
<1> QED
  BY <1>1, <1>2, <1>3, <1>4 DEF ReloadInv

\* Every step keeps the types.
LEMMA TypedStep ==
    ASSUME ReloadInv, [Next]_vars
    PROVE  Typed'
<1> USE ReloadAssumption DEF ReloadInv, Typed
<1>1. ASSUME NEW h \in Handlers, WriteRule(h) PROVE Typed'
  BY <1>1 DEF WriteRule, NotRead
<1>2. ASSUME NEW h \in Handlers, StoreDirty(h) PROVE Typed'
  BY <1>2 DEF StoreDirty, NotRead
<1>3. ASSUME NEW h \in Handlers, SwapRunning(h) PROVE Typed'
  BY <1>3 DEF SwapRunning, Spawns, NotRead
<1>4. ASSUME NEW h \in Handlers, ClearDirty(h) PROVE Typed'
  BY <1>4 DEF ClearDirty, NotRead
<1>5. ASSUME NEW h \in Handlers, SendReload(h) PROVE Typed'
  BY <1>5 DEF SendReload, Send, Reload, NotRead
<1>6. ASSUME NEW h \in Handlers, ReceiveAck(h) PROVE Typed'
  BY <1>6 DEF ReceiveAck, AfterFailure, NotRead
<1>7. ASSUME NEW h \in Handlers, AckTimeout(h) PROVE Typed'
  BY <1>7 DEF AckTimeout, AfterFailure, NotRead
<1>8. ASSUME NEW h \in Handlers, CheckDirty(h) PROVE Typed'
  BY <1>8 DEF CheckDirty, NotRead
<1>9. ASSUME NEW h \in Handlers, StoreNotRunning(h) PROVE Typed'
  BY <1>9 DEF StoreNotRunning, NotRead
<1>10. CASE SendCommand
  BY <1>10 DEF SendCommand, Send, Command, NotRead
<1>11. CASE TakeReloads
  BY <1>11 DEF TakeReloads, ReloadsAtHead, NotRead
<1>12. CASE ReadRules
  BY <1>12 DEF ReadRules, NotRead
<1>13. CASE FoldRules
  BY <1>13 DEF FoldRules, Ack, NotRead
<1>14. CASE LoadFails
  BY <1>14 DEF LoadFails, Ack, NotRead
<1>15. CASE HandleCommand
  BY <1>15 DEF HandleCommand, NotRead
<1>16. CASE UNCHANGED vars
  BY <1>16 DEF vars, NotRead
<1> QED
  BY <1>1, <1>2, <1>3, <1>4, <1>5, <1>6, <1>7, <1>8, <1>9, <1>10, <1>11, <1>12, <1>13, <1>14, <1>15, <1>16 DEF Next, Schedule, RunTask, CommandLane

\* reload_with_retry never starts more than its attempts.
LEMMA TriesStep ==
    ASSUME ReloadInv, [Next]_vars
    PROVE  TriesBounded'
<1> USE ReloadAssumption DEF ReloadInv, Typed, TriesBounded
<1>1. ASSUME NEW h \in Handlers, WriteRule(h) PROVE TriesBounded'
  BY <1>1 DEF WriteRule
<1>2. ASSUME NEW h \in Handlers, StoreDirty(h) PROVE TriesBounded'
  BY <1>2 DEF StoreDirty
<1>3. ASSUME NEW h \in Handlers, SwapRunning(h) PROVE TriesBounded'
  BY <1>3 DEF SwapRunning, Spawns
<1>4. ASSUME NEW h \in Handlers, ClearDirty(h) PROVE TriesBounded'
  BY <1>4 DEF ClearDirty
<1>5. ASSUME NEW h \in Handlers, SendReload(h) PROVE TriesBounded'
  BY <1>5 DEF SendReload, Send, Reload
<1>6. ASSUME NEW h \in Handlers, ReceiveAck(h) PROVE TriesBounded'
  BY <1>6 DEF ReceiveAck, AfterFailure
<1>7. ASSUME NEW h \in Handlers, AckTimeout(h) PROVE TriesBounded'
  BY <1>7 DEF AckTimeout, AfterFailure
<1>8. ASSUME NEW h \in Handlers, CheckDirty(h) PROVE TriesBounded'
  BY <1>8 DEF CheckDirty
<1>9. ASSUME NEW h \in Handlers, StoreNotRunning(h) PROVE TriesBounded'
  BY <1>9 DEF StoreNotRunning
<1>10. CASE SendCommand
  BY <1>10 DEF SendCommand, Send, Command
<1>11. CASE TakeReloads
  BY <1>11 DEF TakeReloads, ReloadsAtHead
<1>12. CASE ReadRules
  BY <1>12 DEF ReadRules
<1>13. CASE FoldRules
  BY <1>13 DEF FoldRules, Ack
<1>14. CASE LoadFails
  BY <1>14 DEF LoadFails, Ack
<1>15. CASE HandleCommand
  BY <1>15 DEF HandleCommand
<1>16. CASE UNCHANGED vars
  BY <1>16 DEF vars
<1> QED
  BY <1>1, <1>2, <1>3, <1>4, <1>5, <1>6, <1>7, <1>8, <1>9, <1>10, <1>11, <1>12, <1>13, <1>14, <1>15, <1>16 DEF Next, Schedule, RunTask, CommandLane

\* The swap on `running` spawns only when no task lives, and the flag falls with the task.
LEMMA ExclusiveStep ==
    ASSUME ReloadInv, [Next]_vars
    PROVE  Exclusive'
<1> USE ReloadAssumption DEF ReloadInv, Typed, Exclusive, Live
<1>1. ASSUME NEW h \in Handlers, WriteRule(h) PROVE Exclusive'
  BY <1>1 DEF WriteRule
<1>2. ASSUME NEW h \in Handlers, StoreDirty(h) PROVE Exclusive'
  BY <1>2 DEF StoreDirty
<1>3. ASSUME NEW h \in Handlers, SwapRunning(h) PROVE Exclusive'
  BY <1>3 DEF SwapRunning, Spawns
<1>4. ASSUME NEW h \in Handlers, ClearDirty(h) PROVE Exclusive'
  BY <1>4 DEF ClearDirty
<1>5. ASSUME NEW h \in Handlers, SendReload(h) PROVE Exclusive'
  BY <1>5 DEF SendReload, Send, Reload
<1>6. ASSUME NEW h \in Handlers, ReceiveAck(h) PROVE Exclusive'
  BY <1>6 DEF ReceiveAck, AfterFailure
<1>7. ASSUME NEW h \in Handlers, AckTimeout(h) PROVE Exclusive'
  BY <1>7 DEF AckTimeout, AfterFailure
<1>8. ASSUME NEW h \in Handlers, CheckDirty(h) PROVE Exclusive'
  BY <1>8 DEF CheckDirty
<1>9. ASSUME NEW h \in Handlers, StoreNotRunning(h) PROVE Exclusive'
  BY <1>9 DEF StoreNotRunning
<1>10. CASE SendCommand
  BY <1>10 DEF SendCommand, Send, Command
<1>11. CASE TakeReloads
  BY <1>11 DEF TakeReloads, ReloadsAtHead
<1>12. CASE ReadRules
  BY <1>12 DEF ReadRules
<1>13. CASE FoldRules
  BY <1>13 DEF FoldRules, Ack
<1>14. CASE LoadFails
  BY <1>14 DEF LoadFails, Ack
<1>15. CASE HandleCommand
  BY <1>15 DEF HandleCommand
<1>16. CASE UNCHANGED vars
  BY <1>16 DEF vars
<1> QED
  BY <1>1, <1>2, <1>3, <1>4, <1>5, <1>6, <1>7, <1>8, <1>9, <1>10, <1>11, <1>12, <1>13, <1>14, <1>15, <1>16 DEF Next, Schedule, RunTask, CommandLane

\* What is in the channel or taken from it was sent.
LEMMA QueuedStep ==
    ASSUME ReloadInv, [Next]_vars
    PROVE  Queued'
<1> USE ReloadAssumption DEF ReloadInv, Typed, Queued
<1>1. ASSUME NEW h \in Handlers, WriteRule(h) PROVE Queued'
  BY <1>1 DEF WriteRule
<1>2. ASSUME NEW h \in Handlers, StoreDirty(h) PROVE Queued'
  BY <1>2 DEF StoreDirty
<1>3. ASSUME NEW h \in Handlers, SwapRunning(h) PROVE Queued'
  BY <1>3 DEF SwapRunning, Spawns
<1>4. ASSUME NEW h \in Handlers, ClearDirty(h) PROVE Queued'
  BY <1>4 DEF ClearDirty
<1>5. ASSUME NEW h \in Handlers, SendReload(h) PROVE Queued'
  <2>0. PICK m : m = Reload(h, ticket[h] + 1)
    OBVIOUS
  <2>1. m \in Message
    BY <2>0 DEF Reload, Message
  <2>2. /\ queue' \in Seq(Message) /\ Len(queue') <= ChannelCap
        /\ \A i \in 1 .. Len(queue') : queue'[i] = m \/ \E j \in 1 .. Len(queue) : queue'[i] = queue[j]
    BY <1>5, <2>0, <2>1 DEF SendReload, Send
  <2>3. UNCHANGED <<loop, sent, handled>>
    BY <1>5 DEF SendReload
  <2>4. \A f : Issued(f, ticket) => Issued(f, ticket')
    BY <1>5 DEF SendReload, Issued
  <2>5. Genuine(m, ticket', sent')
    BY <1>5, <2>0 DEF SendReload, Reload, Genuine, Issued
  <2>6. \A x : Genuine(x, ticket, sent) => Genuine(x, ticket', sent')
    BY <2>3, <2>4 DEF Genuine
  <2> QED
    BY <2>2, <2>3, <2>4, <2>5, <2>6
<1>6. ASSUME NEW h \in Handlers, ReceiveAck(h) PROVE Queued'
  BY <1>6 DEF ReceiveAck, AfterFailure
<1>7. ASSUME NEW h \in Handlers, AckTimeout(h) PROVE Queued'
  BY <1>7 DEF AckTimeout, AfterFailure
<1>8. ASSUME NEW h \in Handlers, CheckDirty(h) PROVE Queued'
  BY <1>8 DEF CheckDirty
<1>9. ASSUME NEW h \in Handlers, StoreNotRunning(h) PROVE Queued'
  BY <1>9 DEF StoreNotRunning
<1>10. CASE SendCommand
  <2>0. PICK m : m = Command(Cardinality(sent) + 1)
    OBVIOUS
  <2>1. m \in Message
    BY <2>0, FS_CardinalityType DEF Command, Message
  <2>2. /\ queue' \in Seq(Message) /\ Len(queue') <= ChannelCap
        /\ \A i \in 1 .. Len(queue') : queue'[i] = m \/ \E j \in 1 .. Len(queue) : queue'[i] = queue[j]
    BY <1>10, <2>0, <2>1 DEF SendCommand, Send
  <2>3. /\ sent' = sent \cup {Cardinality(sent) + 1}
        /\ UNCHANGED <<loop, ticket, handled>>
    BY <1>10 DEF SendCommand
  <2>4. Genuine(m, ticket', sent')
    BY <2>0, <2>3 DEF Command, Genuine
  <2>5. IsFiniteSet(sent')
    BY <2>3, FS_AddElement
  <2>6. (\A x : Genuine(x, ticket, sent) => Genuine(x, ticket', sent')) /\ (\A f : Issued(f, ticket) => Issued(f, ticket'))
    BY <2>3 DEF Genuine, Issued
  <2> QED
    BY <2>2, <2>3, <2>4, <2>5, <2>6
<1>11. CASE TakeReloads
  <2>1. PICK k \in 1 .. Len(queue) :
          /\ ReloadsAtHead(k)
          /\ loop' = {queue[i].from : i \in 1 .. k}
          /\ queue' = SubSeq(queue, k + 2, Len(queue))
    BY <1>11 DEF TakeReloads
  <2>2. UNCHANGED <<ticket, sent, handled>>
    BY <1>11 DEF TakeReloads
  <2>3. /\ queue' \in Seq(Message) /\ Len(queue') <= Len(queue)
        /\ \A i \in 1 .. Len(queue') : /\ i + k + 1 \in 1 .. Len(queue)
                                      /\ queue'[i] = queue[i + k + 1]
    BY <2>1
  <2>4. \A f \in loop' : Issued(f, ticket)
    BY <2>1 DEF ReloadsAtHead, Genuine
  <2> QED
    BY <2>2, <2>3, <2>4
<1>12. CASE ReadRules
  BY <1>12 DEF ReadRules
<1>13. CASE FoldRules
  BY <1>13 DEF FoldRules, Ack
<1>14. CASE LoadFails
  BY <1>14 DEF LoadFails, Ack
<1>15. CASE HandleCommand
  <2>1. /\ queue # <<>> /\ queue' = Tail(queue) /\ queue[1].kind # "ReloadRules"
        /\ handled' = handled \cup {queue[1].from}
        /\ UNCHANGED <<ticket, sent, loop>>
    BY <1>15 DEF HandleCommand
  <2>3. /\ queue' \in Seq(Message) /\ Len(queue') <= Len(queue)
        /\ \A i \in 1 .. Len(queue') : /\ i + 1 \in 1 .. Len(queue)
                                      /\ queue'[i] = queue[i + 1]
    BY <2>1
  <2>4. queue[1].from \in sent
    BY <2>1 DEF Genuine
  <2> QED
    BY <2>1, <2>3, <2>4
<1>16. CASE UNCHANGED vars
  BY <1>16 DEF vars
<1> QED
  BY <1>1, <1>2, <1>3, <1>4, <1>5, <1>6, <1>7, <1>8, <1>9, <1>10, <1>11, <1>12, <1>13, <1>14, <1>15, <1>16 DEF Next, Schedule, RunTask, CommandLane

\* Clearing the flag before the reload keeps every flagged edit in what the reload reads.
LEMMA CoalescedStep ==
    ASSUME ReloadInv, [Next]_vars
    PROVE  Coalesced'
<1> USE ReloadAssumption DEF ReloadInv, Typed, Coalesced, Fresh, NotRead
<1>1. ASSUME NEW h \in Handlers, WriteRule(h) PROVE Coalesced'
  BY <1>1 DEF WriteRule, Exclusive, Live, Queued, Issued
<1>2. ASSUME NEW h \in Handlers, StoreDirty(h) PROVE Coalesced'
  BY <1>2 DEF StoreDirty, Exclusive, Live, Queued, Issued
<1>3. ASSUME NEW h \in Handlers, SwapRunning(h) PROVE Coalesced'
  BY <1>3 DEF SwapRunning, Spawns, Exclusive, Live, Queued, Issued
<1>4. ASSUME NEW h \in Handlers, ClearDirty(h) PROVE Coalesced'
  BY <1>4 DEF ClearDirty, Exclusive, Live, Queued, Issued
<1>5. ASSUME NEW h \in Handlers, SendReload(h) PROVE Coalesced'
  BY <1>5 DEF SendReload, Send, Reload, Exclusive, Live, Queued, Issued
<1>6. ASSUME NEW h \in Handlers, ReceiveAck(h) PROVE Coalesced'
  BY <1>6 DEF ReceiveAck, AfterFailure, Exclusive, Live, Queued, Issued
<1>7. ASSUME NEW h \in Handlers, AckTimeout(h) PROVE Coalesced'
  BY <1>7 DEF AckTimeout, AfterFailure, Exclusive, Live, Queued, Issued
<1>8. ASSUME NEW h \in Handlers, CheckDirty(h) PROVE Coalesced'
  BY <1>8 DEF CheckDirty, Exclusive, Live, Queued, Issued
<1>9. ASSUME NEW h \in Handlers, StoreNotRunning(h) PROVE Coalesced'
  BY <1>9 DEF StoreNotRunning, Exclusive, Live, Queued, Issued
<1>10. CASE SendCommand
  BY <1>10 DEF SendCommand, Send, Command, Exclusive, Live, Queued, Issued
<1>11. CASE TakeReloads
  BY <1>11 DEF TakeReloads, ReloadsAtHead, Exclusive, Live, Queued, Issued
<1>12. CASE ReadRules
  BY <1>12 DEF ReadRules, Exclusive, Live, Queued, Issued
<1>13. CASE FoldRules
  BY <1>13 DEF FoldRules, Ack, Exclusive, Live, Queued, Issued
<1>14. CASE LoadFails
  BY <1>14 DEF LoadFails, Ack, Exclusive, Live, Queued, Issued
<1>15. CASE HandleCommand
  BY <1>15 DEF HandleCommand, Exclusive, Live, Queued, Issued
<1>16. CASE UNCHANGED vars
  BY <1>16 DEF vars, Exclusive, Live, Queued, Issued
<1> QED
  BY <1>1, <1>2, <1>3, <1>4, <1>5, <1>6, <1>7, <1>8, <1>9, <1>10, <1>11, <1>12, <1>13, <1>14, <1>15, <1>16 DEF Next, Schedule, RunTask, CommandLane

\* The inductive invariant holds of every behaviour of the scheduler.
LEMMA ReloadInvariant == Spec => []ReloadInv
<1>1. ReloadInv /\ [Next]_vars => ReloadInv'
  BY TypedStep, TriesStep, ExclusiveStep, QueuedStep, CoalescedStep DEF ReloadInv
<1> QED
  BY InitReload, <1>1, PTL DEF Spec

\* The scheduler's atomics, tasks, versions and channel keep their types: no more
\* than RELOAD_RETRY_ATTEMPTS attempts, a channel within its capacity, and no
\* command handled that was not sent.
THEOREM ReloadTypes == Spec => []TypeOK
<1>1. ReloadInv => TypeOK
  BY DEF ReloadInv, Typed, TriesBounded, Queued, TypeOK
<1> QED
  BY ReloadInvariant, <1>1, PTL

\* At most one background reload task lives, and `running` says whether one does,
\* whatever the interleaving of swaps, stores and spawns of any number of handlers.
THEOREM OneReloadTask == Spec => []OneTask
<1>1. ReloadInv => OneTask
  <2> SUFFICES ASSUME ReloadInv PROVE OneTask
    OBVIOUS
  <2> DEFINE L == {h \in Handlers : Live(h)}
  <2>1. \A h, g \in L : h = g
    BY DEF ReloadInv, Exclusive
  <2>2. Cardinality(L) <= 1
    <3>1. CASE L = {}
      BY <3>1, FS_EmptySet
    <3>2. CASE L # {}
      <4>1. PICK h \in L : TRUE
        BY <3>2
      <4>2. L = {h}
        BY <2>1, <4>1
      <4>3. Cardinality({h}) = 1
        BY FS_Singleton
      <4> QED
        BY <4>2, <4>3
    <3> QED
      BY <3>1, <3>2
  <2> QED
    BY <2>2 DEF ReloadInv, Exclusive, OneTask
<1> QED
  BY ReloadInvariant, <1>1, PTL

\* A task that leaves with no failed reload has loaded every edit flagged before
\* its last look at the dirty flag: one reload may stand for any number of edits.
THEOREM ReloadLeavesFresh == Spec => []LeavesFresh
<1>1. ReloadInv => LeavesFresh
  BY DEF ReloadInv, Coalesced, Fresh, LeavesFresh
<1> QED
  BY ReloadInvariant, <1>1, PTL
=============================================================================
