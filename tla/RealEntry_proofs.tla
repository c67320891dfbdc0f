-------------------------- MODULE RealEntry_proofs --------------------------
(***************************************************************************)
(* One real entry buys once, books its fill once and, when the faults that *)
(* RealEntry names do not occur, never strands a buy: proofs for any       *)
(* number of attempts, buys and restarts.                                  *)
(***************************************************************************)
EXTENDS RealEntry, SequenceTheorems, TLAPS

Live == {"flying", "landed"}
BuyType == [st : Live \cup {"reverted", "dead"}, feed : BOOLEAN, forgot : BOOLEAN,
            tracked : BOOLEAN]
Points == {"off", "start", "claimed", "early", "window", "ended", "extended", "leaving"}
TaskType == [pc : Points, sig : 0 .. MaxBuys]
AnswerType == [intent : Intents, what : {"Filled", "Reverted", "Fatal"}]
Statuses == {"none", "BuySubmitted", "Holding", "EntryFailed", "deleted"}
RowType == [status : Statuses, sigs : SUBSET Nat, booked : Nat, old : BOOLEAN]
ReaperType == [pc : {"idle", "listed", "resolve", "burned", "drop", "tell", "leaving"},
               sigs : SUBSET Nat, old : BOOLEAN]
WriteKinds == {"insert", "holding", "failed"}

\* The type invariant, with the shape of the records and what it leaves open.
Types ==
    /\ eng \in {"Armed", "EntryPending", "Entered", "Gone"}
    /\ intent \in 0 .. MaxEntryAttempts /\ reg \in 0 .. MaxEntryAttempts
    /\ inbox \in Seq(AnswerType)
    /\ task \in [Intents -> TaskType]
    /\ guard \in 0 .. Reaper
    /\ journal \subseteq BuyIds /\ marks \subseteq BuyIds
    /\ row \in RowType /\ row.sigs \subseteq BuyIds
    /\ pg \in Seq(WriteKinds)
    /\ buys \in Seq(BuyType) /\ Len(buys) <= MaxBuys
    /\ migrated \in BOOLEAN /\ crashes \in 0 .. MaxCrashes
    /\ reaper \in ReaperType /\ reaper.sigs \subseteq BuyIds

-----------------------------------------------------------------------------
(* The buys.                                                               *)

\* What may happen to a buy that was signed.
Turns(x, y) ==
    /\ x.st = y.st \/ x.st = "flying"
    /\ y.forgot = TRUE => x.forgot = TRUE \/ y.st = "reverted" \/ (y.st = "landed" /\ y.feed = TRUE)
                          \/ "feed_gap" \in Faults
    /\ x.feed = TRUE => y.feed = TRUE
Quiet(a, b) ==
    /\ b \in Seq(BuyType) /\ Len(b) = Len(a)
    /\ \A s \in 1 .. Len(a) : Turns(a[s], b[s])

LEMMA MapQuiet ==
    ASSUME NEW a \in Seq(BuyType), NEW b, b = [s \in 1 .. Len(a) |-> b[s]],
           \A s \in 1 .. Len(a) : b[s] \in BuyType /\ Turns(a[s], b[s])
    PROVE  Quiet(a, b)
<1>1. Len(a) \in Nat OBVIOUS
<1>2. b \in [1 .. Len(a) -> BuyType] OBVIOUS
<1>3. b \in Seq(BuyType) BY <1>1, <1>2
<1>4. Len(b) = Len(a) BY <1>1, <1>2, <1>3
<1> QED BY <1>3, <1>4 DEF Quiet

LEMMA BuyFields ==
    ASSUME Types, NEW b \in BuyIds
    PROVE  /\ buys[b] \in BuyType /\ buys[b].st \in Live \cup {"reverted", "dead"}
           /\ buys[b].feed \in BOOLEAN /\ buys[b].forgot \in BOOLEAN /\ buys[b].tracked \in BOOLEAN
<1>1. buys[b] \in BuyType BY DEF Types, BuyIds
<1> QED BY <1>1 DEF BuyType

\* The chain, the burn and the restart change the buys one by one.
LEMMA EachQuiet ==
    ASSUME Types, NEW v, v = [b \in BuyIds |-> v[b]],
           \A b \in BuyIds :
              \/ v[b] = buys[b]
              \/ \E st \in {"landed", "reverted", "dead"} :
                   buys[b].st = "flying" /\ v[b] = [buys[b] EXCEPT !.st = st]
              \/ buys[b].st = "landed" /\ v[b] = [buys[b] EXCEPT !.feed = TRUE]
              \/ v[b] = [buys[b] EXCEPT !.tracked = FALSE]
              \/ /\ v[b] = [buys[b] EXCEPT !.forgot = TRUE]
                 /\ \/ "feed_gap" \in Faults \/ buys[b].st = "reverted"
                    \/ buys[b].st = "landed" /\ buys[b].feed
    PROVE  Quiet(buys, v)
<1>1. ASSUME NEW b \in BuyIds PROVE v[b] \in BuyType /\ Turns(buys[b], v[b])
  <2>1. buys[b] \in BuyType BY BuyFields
  <2>2. CASE v[b] = buys[b] BY <2>1, <2>2 DEF Turns
  <2>3. ASSUME NEW st \in {"landed", "reverted", "dead"}, buys[b].st = "flying",
               v[b] = [buys[b] EXCEPT !.st = st]
        PROVE  v[b] \in BuyType /\ Turns(buys[b], v[b])
    BY <2>1, <2>3 DEF Turns, BuyType, Live
  <2>4. CASE buys[b].st = "landed" /\ v[b] = [buys[b] EXCEPT !.feed = TRUE]
    BY <2>1, <2>4 DEF Turns, BuyType, Live
  <2>5. CASE v[b] = [buys[b] EXCEPT !.tracked = FALSE]
    BY <2>1, <2>5 DEF Turns, BuyType, Live
  <2>6. CASE /\ v[b] = [buys[b] EXCEPT !.forgot = TRUE]
             /\ \/ "feed_gap" \in Faults \/ buys[b].st = "reverted"
                \/ buys[b].st = "landed" /\ buys[b].feed
    BY <2>1, <2>6 DEF Turns, BuyType, Live
  <2> QED BY <2>2, <2>3, <2>4, <2>5, <2>6
<1>2. buys \in Seq(BuyType) BY DEF Types
<1> QED BY <1>1, <1>2, MapQuiet DEF BuyIds

LEMMA SameQuiet == ASSUME Types PROVE Quiet(buys, buys)
<1>1. buys = [b \in BuyIds |-> buys[b]] BY DEF Types, BuyIds
<1> QED BY <1>1, EachQuiet

LEMMA ChainQuiet == ASSUME Types, Chain PROVE Quiet(buys, buys')
<1>1. DOMAIN buys = BuyIds BY DEF Types, BuyIds
<1>2. CASE Migrate BY <1>2, SameQuiet DEF Migrate
<1>3. ASSUME NEW b \in BuyIds, Lands(b) \/ Reverts(b) \/ Expires(b) \/ Feed(b) \/ Forget(b)
      PROVE  Quiet(buys, buys')
  <2>1. PICK x : /\ buys' = [buys EXCEPT ![b] = x]
                 /\ \/ \E st \in {"landed", "reverted", "dead"} :
                         buys[b].st = "flying" /\ x = [buys[b] EXCEPT !.st = st]
                    \/ buys[b].st = "landed" /\ x = [buys[b] EXCEPT !.feed = TRUE]
                    \/ /\ x = [buys[b] EXCEPT !.forgot = TRUE]
                       /\ \/ "feed_gap" \in Faults \/ buys[b].st = "reverted"
                          \/ buys[b].st = "landed" /\ buys[b].feed
    <3>1. CASE Lands(b) \/ Reverts(b) \/ Expires(b)
      <4>1. PICK st \in {"landed", "reverted", "dead"} :
               buys[b].st = "flying" /\ buys' = [buys EXCEPT ![b].st = st]
        BY <3>1 DEF Lands, Reverts, Expires, CanLand, Flying
      <4> QED BY <4>1
    <3>2. CASE Feed(b) BY <3>2 DEF Feed, Landed
    <3>3. CASE Forget(b) BY <3>3 DEF Forget, Landed, Reverted
    <3> QED BY <1>3, <3>1, <3>2, <3>3
  <2>2. buys' = [c \in BuyIds |-> buys'[c]] /\ \A c \in BuyIds : buys'[c] = IF c = b THEN x ELSE buys[c]
    BY <1>1, <2>1
  <2> DEFINE v == buys'
  <2> HIDE DEF v
  <2>3. v = [c \in BuyIds |-> v[c]] /\ \A c \in BuyIds : v[c] = IF c = b THEN x ELSE buys[c]
    BY <2>2 DEF v
  <2>4. ASSUME NEW c \in BuyIds
        PROVE  \/ v[c] = buys[c]
               \/ \E st \in {"landed", "reverted", "dead"} :
                    buys[c].st = "flying" /\ v[c] = [buys[c] EXCEPT !.st = st]
               \/ buys[c].st = "landed" /\ v[c] = [buys[c] EXCEPT !.feed = TRUE]
               \/ /\ v[c] = [buys[c] EXCEPT !.forgot = TRUE]
                  /\ \/ "feed_gap" \in Faults \/ buys[c].st = "reverted"
                     \/ buys[c].st = "landed" /\ buys[c].feed
    BY <2>1, <2>3, Zenon
  <2>5. Quiet(buys, v) BY <2>3, <2>4, EachQuiet
  <2> QED BY <2>5 DEF v
<1> QED BY <1>2, <1>3 DEF Chain

LEMMA BurnQuiet ==
    ASSUME Types, ResolveBurn
    PROVE  Quiet(buys, buys') /\ \A b \in BuyIds :
             buys'[b].st = IF b \in reaper.sigs /\ buys[b].st = "flying" THEN "dead" ELSE buys[b].st
<1> DEFINE v == [b \in BuyIds |-> IF b \in reaper.sigs /\ Flying(b)
                                  THEN [buys[b] EXCEPT !.st = "dead"] ELSE buys[b]]
<1>1. buys' = v BY DEF ResolveBurn
<1>2. v = [b \in BuyIds |-> v[b]] OBVIOUS
<1>3. \A b \in BuyIds : v[b] = IF b \in reaper.sigs /\ buys[b].st = "flying"
                               THEN [buys[b] EXCEPT !.st = "dead"] ELSE buys[b]
  BY DEF Flying
<1> HIDE DEF v
<1>4. Quiet(buys, v) BY <1>2, <1>3, EachQuiet
<1>5. ASSUME NEW b \in BuyIds
      PROVE  v[b].st = IF b \in reaper.sigs /\ buys[b].st = "flying" THEN "dead" ELSE buys[b].st
  <2>1. buys[b] \in BuyType BY BuyFields
  <2> QED BY <1>3, <2>1 DEF BuyType
<1> QED BY <1>1, <1>4, <1>5

LEMMA CrashQuiet ==
    ASSUME Types, Crash
    PROVE  Quiet(buys, buys') /\ \A b \in BuyIds : buys'[b].st = buys[b].st /\ buys'[b].feed = buys[b].feed
                                                   /\ buys'[b].forgot = buys[b].forgot
<1> DEFINE v == [b \in BuyIds |-> [buys[b] EXCEPT !.tracked = FALSE]]
<1>1. buys' = v BY DEF Crash
<1>2. v = [b \in BuyIds |-> v[b]] OBVIOUS
<1>3. \A b \in BuyIds : v[b] = [buys[b] EXCEPT !.tracked = FALSE] OBVIOUS
<1> HIDE DEF v
<1>4. Quiet(buys, v) BY <1>2, <1>3, EachQuiet
<1>5. ASSUME NEW b \in BuyIds
      PROVE  v[b].st = buys[b].st /\ v[b].feed = buys[b].feed /\ v[b].forgot = buys[b].forgot
  <2>1. buys[b] \in BuyType BY BuyFields
  <2> QED BY <1>3, <2>1 DEF BuyType
<1> QED BY <1>1, <1>4, <1>5

\* A buy is signed: it joins the others in flight.
LEMMA SignedBuys ==
    ASSUME Types, NEW i \in Intents, on_signed(i)
    PROVE  /\ buys' \in Seq(BuyType) /\ Len(buys') = Len(buys) + 1 /\ Len(buys') <= MaxBuys
           /\ \A b \in BuyIds : buys'[b] = buys[b]
           /\ buys'[Len(buys) + 1].st = "flying" /\ buys'[Len(buys) + 1].forgot = FALSE
<1>1. PICK k \in BOOLEAN : buys' = Append(buys, [st |-> "flying", feed |-> FALSE, forgot |-> FALSE,
                                                 tracked |-> k])
  BY DEF on_signed
<1>2. PICK x : x = [st |-> "flying", feed |-> FALSE, forgot |-> FALSE, tracked |-> k] OBVIOUS
<1>3. x \in BuyType /\ x.st = "flying" /\ x.forgot = FALSE BY <1>2 DEF BuyType, Live
<1>4. buys' = Append(buys, x) BY <1>1, <1>2
<1>5. buys \in Seq(BuyType) /\ Len(buys) < MaxBuys /\ MaxBuys \in Nat
  BY RealEntryAssumption DEF Types, on_signed
<1> QED BY <1>3, <1>4, <1>5 DEF BuyIds

-----------------------------------------------------------------------------
(* Types.                                                                  *)

LEMMA AnswerTyped ==
    ASSUME NEW i \in Intents, NEW w \in {"Filled", "Reverted", "Fatal"}
    PROVE  Answer(i, w) \in AnswerType /\ Answer(i, w).intent = i /\ Answer(i, w).what = w
BY DEF Answer, AnswerType

LEMMA OffTyped == Off \in TaskType /\ Off.pc = "off" /\ Off.sig = 0
BY RealEntryAssumption DEF Off, TaskType, Points

LEMMA IdleTyped == IdleReaper \in ReaperType /\ IdleReaper.pc = "idle" /\ IdleReaper.sigs = {}
BY DEF IdleReaper, ReaperType

\* The parts of Types that the engine, the tasks and the channel share.
LEMMA SendTyped ==
    ASSUME NEW q \in Seq(AnswerType), NEW i \in Intents, NEW w \in {"Filled", "Reverted", "Fatal"}
    PROVE  Append(q, Answer(i, w)) \in Seq(AnswerType)
BY AnswerTyped

LEMMA DispatchTyped ==
    ASSUME Types, NEW i \in Intents, NEW rest \in Seq(AnswerType), dispatch_buy(i, rest)
    PROVE  /\ reg' \in 0 .. MaxEntryAttempts /\ task' \in [Intents -> TaskType]
           /\ inbox' \in Seq(AnswerType)
<1>1. i \in 0 .. MaxEntryAttempts BY DEF Intents
<1>2. PICK x : x = [pc |-> "start", sig |-> 0] OBVIOUS
<1>3. x \in TaskType BY <1>2, RealEntryAssumption DEF TaskType, Points
<1>4. CASE reg' = i /\ task' = [task EXCEPT ![i] = x] /\ inbox' = rest
  BY <1>1, <1>3, <1>4 DEF Types
<1>5. CASE inbox' = Append(rest, Answer(i, "Fatal")) /\ UNCHANGED <<reg, task>>
  BY <1>5, SendTyped DEF Types
<1> QED BY <1>2, <1>4, <1>5 DEF dispatch_buy

\* What a step does to the types when it signs nothing.
LEMMA TailTyped ==
    ASSUME NEW S, NEW q \in Seq(S), q # <<>> PROVE Tail(q) \in Seq(S)
OBVIOUS

LEMMA EngineTypes == ASSUME Types, Engine PROVE Types'
<1>1. 1 \in Intents BY RealEntryAssumption DEF Intents
<1>2. CASE Enter
  <2>1. /\ eng' = "EntryPending" /\ intent' = 1 /\ pg' = Append(pg, "insert") /\ dispatch_buy(1, inbox)
        /\ UNCHANGED <<guard, journal, row, marks, buys, migrated, reaper, crashes>>
    BY <1>2 DEF Enter, chainVars
  <2>2. /\ reg' \in 0 .. MaxEntryAttempts /\ task' \in [Intents -> TaskType]
        /\ inbox' \in Seq(AnswerType)
    BY <1>1, <2>1, DispatchTyped DEF Types
  <2>3. pg' \in Seq(WriteKinds) BY <2>1 DEF Types, WriteKinds
  <2>4. intent' \in 0 .. MaxEntryAttempts BY <1>1, <2>1 DEF Intents
  <2> QED BY <2>1, <2>2, <2>3, <2>4 DEF Types, BuyIds
<1>3. CASE FoldRetry
  <2>1. /\ inbox # <<>> /\ intent < MaxEntryAttempts /\ intent' = intent + 1
        /\ dispatch_buy(intent + 1, Tail(inbox))
        /\ UNCHANGED <<eng, guard, journal, row, pg, marks, buys, migrated, reaper, crashes>>
    BY <1>3 DEF FoldRetry, IsAnswer, AttemptsLeft, dbVars, chainVars
  <2>2. intent + 1 \in Intents BY <2>1, RealEntryAssumption DEF Types, Intents
  <2>3. Tail(inbox) \in Seq(AnswerType) BY <2>1, TailTyped DEF Types
  <2>4. /\ reg' \in 0 .. MaxEntryAttempts /\ task' \in [Intents -> TaskType]
        /\ inbox' \in Seq(AnswerType)
    BY <2>1, <2>2, <2>3, DispatchTyped
  <2>5. intent' \in 0 .. MaxEntryAttempts BY <2>1, <2>2 DEF Intents
  <2> QED BY <2>1, <2>4, <2>5 DEF Types, BuyIds
<1>4. CASE FoldFilled \/ FoldGiveUp \/ FoldStale \/ Stop
  <2>1. /\ inbox' = inbox \/ (inbox # <<>> /\ inbox' = Tail(inbox))
        /\ eng' \in {eng, "Entered", "Gone"} /\ reg' \in {reg, NoOne}
        /\ pg' = pg \/ pg' = Append(pg, "holding") \/ pg' = Append(pg, "failed")
        /\ UNCHANGED <<intent, task, guard, journal, row, marks, buys, migrated, reaper, crashes>>
    BY <1>4 DEF FoldFilled, FoldGiveUp, FoldStale, Stop, IsAnswer, on_entry_failed, taskVars,
               engVars, dbVars, chainVars
  <2>2. inbox' \in Seq(AnswerType) BY <2>1, TailTyped DEF Types
  <2>3. pg' \in Seq(WriteKinds)
    <3>1. pg \in Seq(WriteKinds) BY DEF Types
    <3>2. "holding" \in WriteKinds /\ "failed" \in WriteKinds BY DEF WriteKinds
    <3>3. CASE pg' = Append(pg, "holding") BY <3>1, <3>2, <3>3
    <3>4. CASE pg' = Append(pg, "failed") BY <3>1, <3>2, <3>4
    <3> QED BY <2>1, <3>1, <3>3, <3>4
  <2>4. reg' \in 0 .. MaxEntryAttempts BY <2>1, RealEntryAssumption DEF Types, NoOne
  <2> QED BY <2>1, <2>2, <2>3, <2>4 DEF Types, BuyIds
<1> QED BY <1>2, <1>3, <1>4 DEF Engine

\* What an entry task does, besides signing.  It claims the guard; answers
\* before it has the guard; answers and prepares to leave; goes on waiting;
\* leaves without an answer; or drops the guard.
Sent == {"early", "window", "ended", "extended"}
TaskStill == UNCHANGED <<eng, intent, reg, journal, row, pg, marks, buys, migrated, reaper, crashes>>
ClaimStep(i) ==
    /\ task[i].pc = "start" /\ guard = NoOne /\ guard' = i
    /\ task' = [task EXCEPT ![i].pc = "claimed"] /\ inbox' = inbox
RefuseStep(i) ==
    /\ task[i].pc = "start" /\ guard' = guard /\ task' = [task EXCEPT ![i] = Off]
    /\ \E w \in {"Reverted", "Fatal"} : inbox' = Append(inbox, Answer(i, w))
ReplyStep(i) ==
    /\ task[i].pc \in {"claimed"} \cup Sent /\ guard' = guard
    /\ task' = [task EXCEPT ![i].pc = "leaving"]
    /\ \/ /\ inbox' = Append(inbox, Answer(i, "Filled"))
          /\ task[i].pc \in Sent /\ OnFeed(task[i].sig)
       \/ /\ inbox' = Append(inbox, Answer(i, "Reverted"))
          /\ task[i].pc = "claimed" \/ Reverted(task[i].sig)
       \/ /\ inbox' = Append(inbox, Answer(i, "Fatal"))
          /\ \/ task[i].pc = "claimed" \/ Reverted(task[i].sig)
             \/ migrated /\ ("migrated_unseen" \in Faults \/ ~Landed(task[i].sig))
WaitStep(i) ==
    /\ task[i].pc \in Sent /\ guard' = guard /\ inbox' = inbox
    /\ \E pc \in {"window", "ended", "extended", "leaving"} : task' = [task EXCEPT ![i].pc = pc]
LeaveStep(i) ==
    /\ task[i].pc = "leaving" /\ guard' = NoOne /\ task' = [task EXCEPT ![i] = Off]
    /\ inbox' = inbox

LEMMA TaskShape ==
    ASSUME NEW i \in Intents, run_entry(i)
    PROVE  \/ on_signed(i)
           \/ TaskStill /\ (ClaimStep(i) \/ RefuseStep(i) \/ ReplyStep(i) \/ WaitStep(i) \/ LeaveStep(i))
<1> USE DEF OnlyTask, engVars, dbVars, chainVars, TaskStill, Goto, At
<1>1. CASE StartClaim(i) BY <1>1 DEF StartClaim, ClaimStep
<1>2. CASE StartHeld(i) BY <1>2 DEF StartHeld, RefuseStep
<1>3. CASE StartNoWallet(i) BY <1>3 DEF StartNoWallet, RefuseStep
<1>4. CASE SkipSend(i) \/ NeverSigned(i)
  BY <1>4 DEF SkipSend, NeverSigned, NothingToAdopt, Reply, ReplyStep
<1>5. CASE poll_feed_buy(i) BY <1>5 DEF poll_feed_buy, Reply, ReplyStep, Sent
<1>6. CASE EarlyStatus(i) \/ WindowEnds(i)
  BY <1>6 DEF EarlyStatus, WindowEnds, Gate, Reply, ReplyStep, WaitStep, Sent
<1>7. CASE ConfirmReverted(i) BY <1>7 DEF ConfirmReverted, IsRevert, Reply, ReplyStep, Sent
<1>8. CASE ConfirmLanded(i) \/ Ambiguous(i) BY <1>8 DEF ConfirmLanded, Ambiguous, WaitStep, Sent
<1>9. CASE Leave(i) BY <1>9 DEF Leave, LeaveStep
<1> QED BY <1>1, <1>2, <1>3, <1>4, <1>5, <1>6, <1>7, <1>8, <1>9 DEF run_entry, Confirm

LEMMA TaskTypes == ASSUME Types, NEW i \in Intents, run_entry(i) PROVE Types'
<1>1. task \in [Intents -> TaskType] /\ inbox \in Seq(AnswerType) BY DEF Types
<1>2. CASE on_signed(i)
  <2>1. /\ journal' = journal \cup {Len(buys) + 1} /\ marks' = marks \cup {Len(buys) + 1}
        /\ task' = [task EXCEPT ![i] = [pc |-> "early", sig |-> Len(buys) + 1]]
        /\ UNCHANGED <<eng, intent, reg, inbox, guard, row, pg, migrated, reaper, crashes>>
    BY <1>2 DEF on_signed, engVars
  <2>2. Len(buys) \in Nat /\ MaxBuys \in Nat BY RealEntryAssumption DEF Types
  <2>3. /\ buys' \in Seq(BuyType) /\ Len(buys') = Len(buys) + 1 /\ Len(buys') <= MaxBuys
    BY <1>2, SignedBuys
  <2>4. PICK x : x = [pc |-> "early", sig |-> Len(buys) + 1] OBVIOUS
  <2>5. x \in TaskType BY <2>2, <2>3, <2>4 DEF TaskType, Points
  <2>6. task' \in [Intents -> TaskType] BY <1>1, <2>1, <2>4, <2>5
  <2>7. BuyIds' = BuyIds \cup {Len(buys) + 1} BY <2>2, <2>3 DEF BuyIds
  <2> QED BY <2>1, <2>3, <2>6, <2>7 DEF Types
<1>3. ASSUME TaskStill, inbox' \in Seq(AnswerType), task' \in [Intents -> TaskType],
             guard' \in {guard, i, NoOne}
      PROVE  Types'
  <2>1. guard' \in 0 .. Reaper BY <1>3, RealEntryAssumption DEF Types, NoOne, Intents, Reaper
  <2> QED BY <1>3, <2>1 DEF TaskStill, Types, BuyIds
<1>4. ASSUME NEW w \in {"Filled", "Reverted", "Fatal"}, inbox' = Append(inbox, Answer(i, w))
      PROVE  inbox' \in Seq(AnswerType)
  BY <1>1, <1>4, SendTyped
<1>5. ASSUME NEW pc \in Points, task' = [task EXCEPT ![i].pc = pc] PROVE task' \in [Intents -> TaskType]
  BY <1>1, <1>5 DEF TaskType
<1>6. ASSUME task' = [task EXCEPT ![i] = Off] PROVE task' \in [Intents -> TaskType]
  BY <1>1, <1>6, OffTyped
<1>7. {"claimed", "leaving", "window", "ended", "extended"} \subseteq Points BY DEF Points
<1>8. CASE ClaimStep(i) /\ TaskStill BY <1>1, <1>3, <1>5, <1>7, <1>8 DEF ClaimStep
<1>9. CASE RefuseStep(i) /\ TaskStill BY <1>3, <1>4, <1>6, <1>9 DEF RefuseStep
<1>10. CASE ReplyStep(i) /\ TaskStill BY <1>3, <1>4, <1>5, <1>7, <1>10 DEF ReplyStep
<1>11. CASE WaitStep(i) /\ TaskStill
  <2>1. PICK pc \in Points : task' = [task EXCEPT ![i].pc = pc] BY <1>7, <1>11 DEF WaitStep
  <2> QED BY <1>1, <1>3, <1>5, <1>11, <2>1 DEF WaitStep
<1>12. CASE LeaveStep(i) /\ TaskStill BY <1>1, <1>3, <1>6, <1>12 DEF LeaveStep
<1> QED BY <1>2, <1>8, <1>9, <1>10, <1>11, <1>12, TaskShape

\* The forms a row may take on, from the one it has.
LEMMA StatusTyped ==
    ASSUME Types, NEW st \in Statuses, NEW r, r = [row EXCEPT !.status = st]
    PROVE  r \in RowType /\ r.sigs = row.sigs /\ r.status = st /\ r.booked = row.booked
<1>1. row \in RowType BY DEF Types
<1> QED BY <1>1 DEF RowType

LEMMA BookTyped ==
    ASSUME Types
    PROVE  /\ BookEntry \in RowType /\ BookEntry.sigs = row.sigs
           /\ BookEntry.booked = row.booked + 1 /\ BookEntry.status = "Holding"
<1>1. row \in RowType /\ row.booked \in Nat BY DEF Types, RowType
<1>2. PICK n \in Nat : n = row.booked + 1 BY <1>1
<1>3. "Holding" \in Statuses BY DEF Statuses
<1>4. BookEntry = [row EXCEPT !.status = "Holding", !.booked = n] BY <1>2 DEF BookEntry
<1> QED BY <1>1, <1>2, <1>3, <1>4 DEF RowType

LEMMA AgeTyped ==
    ASSUME Types, NEW r, r = [row EXCEPT !.old = TRUE]
    PROVE  r \in RowType /\ r.sigs = row.sigs /\ r.status = row.status /\ r.booked = row.booked
<1>1. row \in RowType BY DEF Types
<1> QED BY <1>1 DEF RowType

LEMMA MarkTyped ==
    ASSUME Types, NEW b \in BuyIds, NEW r, r = [row EXCEPT !.sigs = @ \cup {b}, !.old = FALSE]
    PROVE  /\ r \in RowType /\ r.sigs = row.sigs \cup {b}
           /\ r.status = row.status /\ r.booked = row.booked
<1>1. row \in RowType BY DEF Types
<1>2. b \in Nat BY DEF Types, BuyIds
<1>3. PICK u : u = row.sigs \cup {b} OBVIOUS
<1>4. u \in SUBSET Nat BY <1>1, <1>2, <1>3 DEF RowType
<1>5. r = [row EXCEPT !.sigs = u, !.old = FALSE] BY <1>3
<1> QED BY <1>1, <1>3, <1>4, <1>5 DEF RowType

LEMMA WritesTypes == ASSUME Types, Writes PROVE Types'
<1>1. UNCHANGED <<eng, intent, reg, inbox, task, guard, journal, buys, migrated, reaper, crashes>>
  BY DEF Writes, Ages, PgInsert, record_entry_fill, mark_entry_failed, mark_buy_submitted, MarkLost,
         engVars, taskVars, chainVars
<1>2. ASSUME row' \in RowType, row'.sigs \subseteq BuyIds, pg' \in Seq(WriteKinds), marks' \subseteq marks
      PROVE  Types'
  BY <1>1, <1>2 DEF Types, BuyIds
<1>3. CASE Ages BY <1>2, <1>3, AgeTyped DEF Ages, Types
<1>4. CASE PgInsert
  <2>1. pg' \in Seq(WriteKinds) BY <1>4, TailTyped DEF PgInsert, Types
  <2>2. row' = [row EXCEPT !.status = "BuySubmitted"] BY <1>4 DEF PgInsert
  <2>3. row' \in RowType /\ row'.sigs = row.sigs BY <2>2, StatusTyped DEF Statuses
  <2> QED BY <1>2, <1>4, <2>1, <2>3 DEF PgInsert, Types
<1>5. CASE record_entry_fill \/ mark_entry_failed
  <2>1. pg # <<>> /\ pg' = Tail(pg) /\ UNCHANGED marks BY <1>5 DEF record_entry_fill, mark_entry_failed
  <2>2. row' \in {row, BookEntry, [row EXCEPT !.status = "EntryFailed"]}
    BY <1>5 DEF record_entry_fill, mark_entry_failed
  <2>3. row' \in RowType /\ row'.sigs = row.sigs
    <3>1. "EntryFailed" \in Statuses BY DEF Statuses
    <3>2. row \in RowType BY DEF Types
    <3> QED BY <2>2, <3>1, <3>2, StatusTyped, BookTyped
  <2>4. pg' \in Seq(WriteKinds) BY <2>1, TailTyped DEF Types
  <2> QED BY <1>2, <2>1, <2>3, <2>4 DEF Types
<1>6. ASSUME NEW b \in marks, mark_buy_submitted(b) \/ MarkLost(b) PROVE Types'
  <2>1. b \in BuyIds /\ marks' \subseteq marks /\ UNCHANGED pg
    BY <1>6 DEF mark_buy_submitted, MarkLost, Types
  <2>2. row' = row \/ row' = [row EXCEPT !.sigs = @ \cup {b}, !.old = FALSE]
    BY <1>6 DEF mark_buy_submitted, MarkLost
  <2>3. row' \in RowType /\ row'.sigs \subseteq BuyIds 
    <3>1. row \in RowType /\ row.sigs \subseteq BuyIds BY DEF Types
    <3>2. CASE row' = [row EXCEPT !.sigs = @ \cup {b}, !.old = FALSE]
      <4>1. row' \in RowType /\ row'.sigs = row.sigs \cup {b} BY <2>1, <3>2, MarkTyped
      <4> QED BY <2>1, <3>1, <4>1
    <3> QED BY <2>2, <3>1, <3>2
  <2> QED BY <1>2, <2>1, <2>3 DEF Types
<1> QED BY <1>3, <1>4, <1>5, <1>6 DEF Writes

LEMMA ReaperTypes == ASSUME Types, redrive_orphaned_buy_submitted PROVE Types'
<1>1. UNCHANGED <<eng, intent, reg, task, journal, pg, marks, migrated, crashes>>
  BY DEF redrive_orphaned_buy_submitted, find_all_buy_submitted, ReaperSkips, try_begin_entry,
         resolve_buy_submitted, AdoptToEngine, AdoptRow, ResolveDrop, ResolveBurn, ResolveDead,
         ResolveWait, DropRow, DropTell, ReaperLeaves, OnlyReaper, engVars
<1>2. ASSUME Quiet(buys, buys'), inbox' \in Seq(AnswerType), guard' \in {guard, NoOne, Reaper},
             row' \in RowType, row'.sigs \subseteq BuyIds,
             reaper' \in ReaperType, reaper'.sigs \subseteq BuyIds
      PROVE  Types'
  <2>1. BuyIds' = BuyIds /\ buys' \in Seq(BuyType) /\ Len(buys') <= MaxBuys
    BY <1>2 DEF Quiet, Types, BuyIds
  <2>2. guard' \in 0 .. Reaper BY <1>2, RealEntryAssumption DEF Types, NoOne, Reaper
  <2> QED BY <1>1, <1>2, <2>1, <2>2 DEF Types
<1>3. row \in RowType /\ row.sigs \subseteq BuyIds /\ reaper \in ReaperType /\ reaper.sigs \subseteq BuyIds
      /\ inbox \in Seq(AnswerType)
  BY DEF Types
<1>4. Quiet(buys, buys) BY SameQuiet
<1>5. ASSUME NEW pc \in {"listed", "resolve", "burned", "drop", "tell", "leaving"},
             reaper' = [reaper EXCEPT !.pc = pc]
      PROVE  reaper' \in ReaperType /\ reaper'.sigs \subseteq BuyIds
  BY <1>3, <1>5 DEF ReaperType
<1>6. CASE find_all_buy_submitted
  <2>1. reaper' = [pc |-> "listed", sigs |-> row.sigs, old |-> row.old] /\ UNCHANGED <<inbox, guard, row, buys>>
    BY <1>6 DEF find_all_buy_submitted
  <2>2. reaper' \in ReaperType /\ reaper'.sigs \subseteq BuyIds
    BY <1>3, <2>1 DEF ReaperType, RowType
  <2> QED BY <1>2, <1>3, <1>4, <2>1, <2>2
<1>7. CASE ReaperSkips \/ ReaperLeaves
  <2>1. reaper' = IdleReaper /\ guard' \in {guard, NoOne} /\ UNCHANGED <<inbox, row, buys>>
    BY <1>7 DEF ReaperSkips, ReaperLeaves
  <2> QED BY <1>2, <1>3, <1>4, <2>1, IdleTyped
<1>8. CASE try_begin_entry \/ ResolveDrop \/ ResolveDead \/ ResolveWait
  <2>1. /\ guard' \in {guard, Reaper} /\ UNCHANGED <<inbox, row, buys>>
        /\ \E pc \in {"resolve", "drop", "leaving"} : reaper' = [reaper EXCEPT !.pc = pc]
    BY <1>8 DEF try_begin_entry, ResolveDrop, ResolveDead, ResolveWait
  <2>2. reaper' \in ReaperType /\ reaper'.sigs \subseteq BuyIds BY <2>1, <1>5
  <2> QED BY <1>2, <1>3, <1>4, <2>1, <2>2
<1>9. CASE ResolveBurn
  <2>1. reaper' = [reaper EXCEPT !.pc = "burned"] /\ UNCHANGED <<inbox, guard, row>>
    BY <1>9 DEF ResolveBurn
  <2>2. reaper' \in ReaperType /\ reaper'.sigs \subseteq BuyIds BY <2>1, <1>5
  <2> QED BY <1>2, <1>3, <1>9, <2>1, <2>2, BurnQuiet
<1>10. CASE AdoptToEngine \/ DropTell
  <2>1. /\ reaper' = [reaper EXCEPT !.pc = "leaving"] /\ UNCHANGED <<guard, row, buys>>
        /\ \/ inbox' = inbox
           \/ reg # NoOne /\ \E w \in {"Filled", "Fatal"} : inbox' = Append(inbox, Answer(reg, w))
    BY <1>10 DEF AdoptToEngine, DropTell
  <2>2. reaper' \in ReaperType /\ reaper'.sigs \subseteq BuyIds BY <2>1, <1>5
  <2>3. inbox' \in Seq(AnswerType)
    <3>1. reg # NoOne => reg \in Intents BY RealEntryAssumption DEF Types, NoOne, Intents
    <3> QED BY <1>3, <2>1, <3>1, SendTyped
  <2> QED BY <1>2, <1>3, <1>4, <2>1, <2>2, <2>3
<1>11. CASE AdoptRow \/ DropRow
  <2>1. /\ \E pc \in {"tell", "leaving"} : reaper' = [reaper EXCEPT !.pc = pc]
        /\ row' = BookEntry \/ row' = [row EXCEPT !.status = "deleted"]
        /\ UNCHANGED <<inbox, guard, buys>>
    BY <1>11 DEF AdoptRow, DropRow
  <2>2. reaper' \in ReaperType /\ reaper'.sigs \subseteq BuyIds BY <2>1, <1>5
  <2>3. row' \in RowType /\ row'.sigs = row.sigs 
    <3>1. "deleted" \in Statuses BY DEF Statuses
    <3> QED BY <2>1, <3>1, StatusTyped, BookTyped
  <2> QED BY <1>2, <1>3, <1>4, <2>1, <2>2, <2>3
<1> QED BY <1>6, <1>7, <1>8, <1>9, <1>10, <1>11 DEF redrive_orphaned_buy_submitted, resolve_buy_submitted

LEMMA OutsideTypes == ASSUME Types, Chain \/ Crash PROVE Types'
<1>1. ASSUME Quiet(buys, buys')
      PROVE  BuyIds' = BuyIds /\ buys' \in Seq(BuyType) /\ Len(buys') <= MaxBuys
  BY <1>1 DEF Quiet, Types, BuyIds
<1>2. CASE Chain
  <2>1. /\ migrated' \in {migrated, TRUE}
        /\ UNCHANGED <<eng, intent, reg, inbox, task, guard, journal, row, pg, marks, reaper, crashes>>
    BY <1>2 DEF Chain, Migrate, Lands, Reverts, Expires, Feed, Forget, OnlyChain, engVars, taskVars, dbVars
  <2> QED BY <1>1, <1>2, <2>1, ChainQuiet DEF Types
<1>3. CASE Crash
  <2>1. /\ crashes < MaxCrashes /\ crashes' = crashes + 1
        /\ eng' \in {"EntryPending", "Entered", "Gone"} /\ intent' = 1
        /\ reg' \in {1, NoOne} /\ inbox' = <<>> /\ task' = [i \in Intents |-> Off]
        /\ guard' = NoOne /\ journal' = {} /\ pg' = <<>> /\ marks' = {} /\ reaper' = IdleReaper
        /\ UNCHANGED <<row, migrated>>
    BY <1>3 DEF Crash, AdoptedAs
  <2>2. /\ intent' \in 0 .. MaxEntryAttempts /\ reg' \in 0 .. MaxEntryAttempts
        /\ guard' \in 0 .. Reaper /\ crashes' \in 0 .. MaxCrashes
    BY <2>1, RealEntryAssumption DEF NoOne, Reaper, Types
  <2>3. task' \in [Intents -> TaskType] BY <2>1, OffTyped
  <2> QED BY <1>1, <1>3, <2>1, <2>2, <2>3, CrashQuiet, IdleTyped DEF Types
<1> QED BY <1>2, <1>3

LEMMA TypesInit == Init => Types
<1> SUFFICES ASSUME Init PROVE Types OBVIOUS
<1>1. row \in RowType /\ row.sigs = {} BY DEF Init, RowType, Statuses
<1>2. /\ intent \in 0 .. MaxEntryAttempts /\ reg \in 0 .. MaxEntryAttempts
      /\ guard \in 0 .. Reaper /\ crashes \in 0 .. MaxCrashes /\ Len(buys) <= MaxBuys
  BY RealEntryAssumption DEF Init, NoOne, Reaper
<1>3. task \in [Intents -> TaskType] BY OffTyped DEF Init
<1>4. inbox \in Seq(AnswerType) /\ pg \in Seq(WriteKinds) /\ buys \in Seq(BuyType) BY DEF Init
<1> QED BY <1>1, <1>2, <1>3, <1>4, IdleTyped DEF Init, Types

LEMMA TypesStep == ASSUME Types, [Next]_vars PROVE Types'
<1>1. CASE UNCHANGED vars BY <1>1 DEF vars, Types, BuyIds
<1> QED BY <1>1, EngineTypes, TaskTypes, WritesTypes, ReaperTypes, OutsideTypes DEF Next

\* The arm, the channel, the tasks, the row, the buys and the reaper keep their
\* types and bounds, for any number of attempts, buys and restarts, under every
\* fault: an answer names an intent, a row and a listed copy only buys that exist.
THEOREM EntryTypes == Spec => []TypeOK
<1>1. Types => TypeOK
  BY DEF Types, TypeOK, AnswerType, TaskType, Points, RowType, Statuses, ReaperType, WriteKinds,
         BuyType, Live
<1> QED BY <1>1, TypesInit, TypesStep, PTL DEF Spec

-----------------------------------------------------------------------------
(* One buy.                                                                *)

LivesIn(ss) == {b \in 1 .. Len(ss) : ss[b].st \in Live}
NoneIn(ss) == LivesIn(ss) = {}
Resting == {"off", "leaving"}
AllRest == \A i \in Intents : task[i].pc \in Resting

\* Before the rule enters nothing of the entry exists.
Before == eng = "Armed" => /\ buys = <<>> /\ inbox = <<>> /\ reg = NoOne
                           /\ \A i \in Intents : task[i].pc = "off"
\* Only the task of the last intent is at work.
InStep == \A i \in Intents : task[i].pc \notin Resting => intent = i
\* A task that has not sent finds no buy alive; once it has, none but its own.
Clear == \A i \in Intents :
    /\ task[i].pc \in {"start", "claimed"} => NoneIn(buys)
    /\ task[i].pc \in Sent => LivesIn(buys) \subseteq {task[i].sig}
\* A retry of the last intent is asked for only when its task is over and no buy
\* is alive.
Asked(m, top, calm) == /\ m.intent <= top
                       /\ m.what = "Reverted" /\ m.intent = top => calm
Calm == AllRest /\ NoneIn(buys)
Queued == \A n \in 1 .. Len(inbox) : Asked(inbox[n], intent, Calm)
Single == \A b, c \in LivesIn(buys) : b = c

Once == Before /\ InStep /\ Clear /\ Queued /\ Single /\ reg <= intent

LEMMA QuietLives ==
    ASSUME Types, Quiet(buys, buys')
    PROVE  LivesIn(buys') \subseteq LivesIn(buys) /\ (buys = <<>> => buys' = <<>>)
<1>1. Len(buys') = Len(buys) /\ buys' \in Seq(BuyType) BY DEF Quiet
<1>2. \A b \in 1 .. Len(buys) : Turns(buys[b], buys'[b]) BY DEF Quiet
<1> QED BY <1>1, <1>2 DEF LivesIn, Turns, Live

\* The queue keeps some of its answers and gets new ones that ask for no retry.
Joins(q, r, top) ==
    \A n \in 1 .. Len(r) : \/ \E k \in 1 .. Len(q) : r[n] = q[k]
                           \/ r[n].what # "Reverted" /\ r[n].intent <= top

LEMMA JoinsOne ==
    ASSUME NEW q \in Seq(AnswerType), NEW x \in AnswerType, NEW top \in Nat,
           x.what # "Reverted", x.intent <= top
    PROVE  Joins(q, Append(q, x), top) /\ Joins(q, q, top)
BY DEF Joins

LEMMA JoinsTail ==
    ASSUME NEW q \in Seq(AnswerType), q # <<>>, NEW top \in Nat
    PROVE  Joins(q, Tail(q), top) /\ Joins(q, q, top)
<1>1. Len(Tail(q)) = Len(q) - 1 /\ \A n \in 1 .. Len(Tail(q)) : Tail(q)[n] = q[n + 1] OBVIOUS
<1>2. \A n \in 1 .. Len(Tail(q)) : n + 1 \in 1 .. Len(q) BY <1>1
<1> QED BY <1>1, <1>2 DEF Joins

LEMMA JoinsSame == ASSUME NEW q, NEW top PROVE Joins(q, q, top)
BY DEF Joins

\* A step that leaves the tasks alone, makes no buy alive and asks for no retry.
LEMMA StillOnce ==
    ASSUME Types, Once, LivesIn(buys') \subseteq LivesIn(buys), UNCHANGED <<task, intent>>,
           reg' <= intent, Joins(inbox, inbox', intent),
           eng' = "Armed" => Before'
    PROVE  Once'
<1>1. NoneIn(buys) => NoneIn(buys') BY DEF NoneIn
<1>2. Calm => Calm' BY <1>1 DEF Calm, AllRest
<1>3. Queued'
  <2> SUFFICES ASSUME NEW n \in 1 .. Len(inbox') PROVE Asked(inbox'[n], intent, Calm') BY DEF Queued
  <2>1. CASE \E k \in 1 .. Len(inbox) : inbox'[n] = inbox[k]
    <3>1. PICK k \in 1 .. Len(inbox) : inbox'[n] = inbox[k] BY <2>1
    <3>2. Asked(inbox[k], intent, Calm) BY DEF Once, Queued
    <3> QED BY <1>2, <3>1, <3>2 DEF Asked
  <2>2. CASE inbox'[n].what # "Reverted" /\ inbox'[n].intent <= intent BY <2>2 DEF Asked
  <2> QED BY <2>1, <2>2 DEF Joins
<1>4. InStep' /\ Clear' BY <1>1 DEF Once, InStep, Clear
<1>5. Single' BY DEF Once, Single
<1>6. Before' BY DEF Before
<1> QED BY <1>3, <1>4, <1>5, <1>6 DEF Once

LEMMA SameLives == ASSUME UNCHANGED buys PROVE LivesIn(buys') = LivesIn(buys)
OBVIOUS

\* The first dispatch, and a retry's: no task is at work, no buy alive.
LEMMA DispatchOnce ==
    ASSUME Types, NEW i \in Intents, NEW rest \in Seq(AnswerType), dispatch_buy(i, rest),
           AllRest, NoneIn(buys), UNCHANGED buys, intent' = i, reg <= i, eng' # "Armed",
           \A n \in 1 .. Len(rest) : rest[n].intent < i
    PROVE  Once'
<1>1. NoneIn(buys') BY DEF NoneIn
<1>2. i \in Nat /\ reg \in Nat BY DEF Intents, Types
<1>0. ASSUME NEW n \in 1 .. Len(rest) PROVE rest[n].intent <= i /\ rest[n].intent # i
  <2>1. rest[n] \in AnswerType OBVIOUS
  <2>2. rest[n].intent \in Nat BY <2>1 DEF AnswerType, Intents
  <2> QED BY <1>2, <2>2
<1>3. CASE reg' = i /\ task' = [task EXCEPT ![i] = [pc |-> "start", sig |-> 0]] /\ inbox' = rest
  <2>1. \A j \in Intents : task'[j] = IF j = i THEN [pc |-> "start", sig |-> 0] ELSE task[j]
    BY <1>3 DEF Types
  <2>2. InStep' /\ Clear' BY <1>1, <2>1 DEF AllRest, InStep, Clear, NoneIn, Resting, Sent
  <2>3. Queued' BY <1>0, <1>2, <1>3 DEF Queued, Asked
  <2> QED BY <1>1, <1>2, <1>3, <2>2, <2>3 DEF Once, Before, Single, NoneIn
<1>4. CASE inbox' = Append(rest, Answer(i, "Fatal")) /\ UNCHANGED <<reg, task>>
  <2>1. PICK x \in AnswerType : x = Answer(i, "Fatal") /\ x.intent = i /\ x.what = "Fatal"
    BY AnswerTyped
  <2>2. inbox' = Append(rest, x) BY <1>4, <2>1
  <2>3. \A n \in 1 .. Len(inbox') : (n \in 1 .. Len(rest) /\ inbox'[n] = rest[n]) \/ inbox'[n] = x
    BY <2>2
  <2>4. Queued' BY <1>0, <1>2, <2>1, <2>3 DEF Queued, Asked
  <2>5. InStep' /\ Clear' BY <1>1, <1>4 DEF AllRest, InStep, Clear, NoneIn, Resting, Sent
  <2> QED BY <1>1, <1>4, <2>4, <2>5 DEF Once, Before, Single, NoneIn
<1> QED BY <1>3, <1>4 DEF dispatch_buy

LEMMA EngineOnce == ASSUME Types, Once, Engine PROVE Once'
<1>1. inbox \in Seq(AnswerType) /\ intent \in Nat /\ reg \in Nat BY DEF Types
<1>2. CASE Enter
  <2>1. /\ eng = "Armed" /\ eng' = "EntryPending" /\ intent' = 1 /\ dispatch_buy(1, inbox) /\ UNCHANGED buys
    BY <1>2 DEF Enter, chainVars
  <2>2. 1 \in Intents BY RealEntryAssumption DEF Intents
  <2>3. buys = <<>> /\ inbox = <<>> /\ reg = 0 /\ AllRest BY <2>1 DEF Once, Before, AllRest, NoOne, Resting
  <2>4. NoneIn(buys) BY <2>3 DEF NoneIn, LivesIn
  <2>5. \A n \in 1 .. Len(inbox) : inbox[n].intent < 1 BY <2>3
  <2>6. reg <= 1 /\ eng' # "Armed" BY <2>1, <2>3
  <2> QED BY <1>1, <2>1, <2>2, <2>3, <2>4, <2>5, <2>6, DispatchOnce
<1>3. CASE FoldRetry
  <2>1. /\ inbox # <<>> /\ Head(inbox) = Answer(intent, "Reverted") /\ eng = "EntryPending"
        /\ intent < MaxEntryAttempts /\ intent' = intent + 1
        /\ dispatch_buy(intent + 1, Tail(inbox)) /\ UNCHANGED <<eng, buys>>
    BY <1>3 DEF FoldRetry, IsAnswer, AttemptsLeft, chainVars
  <2>2. intent + 1 \in Intents BY <1>1, <2>1, RealEntryAssumption DEF Intents
  <2>3. 1 \in 1 .. Len(inbox) /\ inbox[1] = Answer(intent, "Reverted") BY <1>1, <2>1
  <2>4. Asked(inbox[1], intent, Calm) BY <2>3 DEF Once, Queued
  <2>5. AllRest /\ NoneIn(buys) BY <2>3, <2>4 DEF Asked, Answer, Calm
  <2>6. Len(Tail(inbox)) = Len(inbox) - 1 /\ \A n \in 1 .. Len(Tail(inbox)) : Tail(inbox)[n] = inbox[n + 1]
    BY <1>1, <2>1
  <2>7. ASSUME NEW n \in 1 .. Len(Tail(inbox)) PROVE Tail(inbox)[n].intent < intent + 1
    <3>1. n + 1 \in 1 .. Len(inbox) /\ Tail(inbox)[n] = inbox[n + 1] BY <1>1, <2>6
    <3>2. Asked(inbox[n + 1], intent, Calm) BY <3>1 DEF Once, Queued
    <3>3. inbox[n + 1] \in AnswerType BY <1>1, <3>1
    <3>4. inbox[n + 1].intent \in Nat BY <3>3 DEF AnswerType, Intents
    <3> QED BY <1>1, <3>1, <3>2, <3>4 DEF Asked
  <2>8. Tail(inbox) \in Seq(AnswerType) BY <1>1, <2>1, TailTyped
  <2>9. reg <= intent + 1 BY <1>1 DEF Once
  <2> QED BY <2>1, <2>2, <2>5, <2>7, <2>8, <2>9, DispatchOnce
<1>4. CASE FoldFilled \/ FoldGiveUp \/ FoldStale \/ Stop
  <2>1. /\ inbox' = inbox \/ (inbox # <<>> /\ inbox' = Tail(inbox))
        /\ reg' \in {reg, NoOne} /\ UNCHANGED <<intent, task, buys>>
    BY <1>4 DEF FoldFilled, FoldGiveUp, FoldStale, Stop, IsAnswer, on_entry_failed, taskVars,
               engVars, chainVars
  <2>2. Joins(inbox, inbox', intent) BY <1>1, <2>1, JoinsTail, JoinsSame
  <2>3. reg' <= intent BY <1>1, <2>1 DEF Once, NoOne
  <2>4. eng # "Armed" \/ inbox = <<>> BY DEF Once, Before
  <2>5. eng' # "Armed"
    BY <1>4, <2>4 DEF FoldFilled, FoldGiveUp, FoldStale, Stop, IsAnswer, on_entry_failed, engVars
  <2> QED BY <2>1, <2>2, <2>3, <2>5, SameLives, StillOnce
<1> QED BY <1>2, <1>3, <1>4 DEF Engine

\* A task at work is the only one, and its step leaves the others resting.
LEMMA Alone ==
    ASSUME Types, Once, NEW i \in Intents, task[i].pc \notin Resting
    PROVE  intent = i /\ eng # "Armed" /\ \A j \in Intents : j # i => task[j].pc \in Resting
BY DEF Once, InStep, Before, Resting

LEMMA PointsOf ==
    ASSUME Types, NEW i \in Intents, NEW pc, task' = [task EXCEPT ![i].pc = pc]
    PROVE  /\ task'[i].pc = pc /\ task'[i].sig = task[i].sig
           /\ \A j \in Intents : j # i => task'[j] = task[j]
<1>1. task \in [Intents -> TaskType] /\ task[i] \in TaskType BY DEF Types
<1> QED BY <1>1 DEF TaskType

LEMMA OffOf ==
    ASSUME Types, NEW i \in Intents, task' = [task EXCEPT ![i] = Off]
    PROVE  task'[i] = Off /\ task'[i].pc = "off" /\ \A j \in Intents : j # i => task'[j] = task[j]
<1>1. task \in [Intents -> TaskType] BY DEF Types
<1> QED BY <1>1, OffTyped

\* A task ends with an answer; one that asks for a retry has left no buy alive.
LEMMA EndOnce ==
    ASSUME Types, Once, TaskStill, NEW i \in Intents, task[i].pc \notin Resting,
           NEW w \in {"Filled", "Reverted", "Fatal"}, inbox' = Append(inbox, Answer(i, w)),
           task'[i].pc \in Resting, \A j \in Intents : j # i => task'[j] = task[j],
           w = "Reverted" => NoneIn(buys)
    PROVE  Once'
<1>1. intent = i /\ eng # "Armed" /\ \A j \in Intents : task'[j].pc \in Resting BY Alone
<1>2. UNCHANGED <<eng, intent, reg, buys>> BY DEF TaskStill
<1>3. LivesIn(buys') = LivesIn(buys) /\ (NoneIn(buys) => NoneIn(buys')) BY <1>2 DEF NoneIn
<1>4. PICK x \in AnswerType : x = Answer(i, w) /\ x.intent = i /\ x.what = w BY AnswerTyped
<1>5. inbox \in Seq(AnswerType) /\ inbox' = Append(inbox, x) /\ i \in Nat BY <1>4 DEF Types, Intents
<1>6. \A n \in 1 .. Len(inbox') : (n \in 1 .. Len(inbox) /\ inbox'[n] = inbox[n]) \/ inbox'[n] = x
  BY <1>5
<1>7. (Calm => Calm') /\ (w = "Reverted" => Calm') BY <1>1, <1>3 DEF Calm, AllRest
<1>8. Queued'
  <2> SUFFICES ASSUME NEW n \in 1 .. Len(inbox') PROVE Asked(inbox'[n], intent, Calm')
    BY <1>2 DEF Queued
  <2>1. CASE n \in 1 .. Len(inbox) /\ inbox'[n] = inbox[n]
    <3>1. Asked(inbox[n], intent, Calm) BY <2>1 DEF Once, Queued
    <3> QED BY <1>7, <2>1, <3>1 DEF Asked
  <2>2. CASE inbox'[n] = x BY <1>1, <1>4, <1>5, <1>7, <2>2 DEF Asked
  <2> QED BY <1>6, <2>1, <2>2
<1>9. InStep' BY <1>1 DEF InStep
<1>10. Clear' BY <1>1 DEF Clear, Resting, Sent
<1>11. Single' BY <1>3 DEF Once, Single
<1> QED BY <1>1, <1>2, <1>8, <1>9, <1>10, <1>11 DEF Once, Before

LEMMA TaskOnce == ASSUME Types, Once, NEW i \in Intents, run_entry(i) PROVE Once'
<1>1. inbox \in Seq(AnswerType) /\ intent \in Nat /\ reg \in Nat BY DEF Types
<1>2. CASE on_signed(i)
  <2>1. /\ task[i].pc = "claimed" /\ task' = [task EXCEPT ![i] = [pc |-> "early", sig |-> Len(buys) + 1]]
        /\ UNCHANGED <<eng, intent, reg, inbox>>
    BY <1>2 DEF on_signed, NothingToAdopt, At, engVars
  <2>2. intent = i /\ eng # "Armed" /\ \A j \in Intents : j # i => task[j].pc \in Resting
    BY <2>1, Alone DEF Resting
  <2>3. NoneIn(buys) BY <2>1 DEF Once, Clear
  <2>4. /\ Len(buys') = Len(buys) + 1 /\ \A b \in BuyIds : buys'[b] = buys[b]
    BY <1>2, SignedBuys
  <2>5. LivesIn(buys') \subseteq {Len(buys) + 1}
    <3>1. Len(buys) \in Nat BY DEF Types
    <3> QED BY <2>3, <2>4, <3>1 DEF LivesIn, NoneIn, BuyIds
  <2>6. PICK x : x = [pc |-> "early", sig |-> Len(buys) + 1] OBVIOUS
  <2>7. task'[i] = x /\ x.pc = "early" /\ x.sig = Len(buys) + 1
        /\ \A j \in Intents : j # i => task'[j] = task[j]
    BY <2>1, <2>6 DEF Types
  <2>8. InStep' BY <2>1, <2>2, <2>7 DEF InStep
  <2>9. Clear' BY <2>2, <2>5, <2>7 DEF Clear, Resting, Sent
  <2>10. Queued'
    <3> SUFFICES ASSUME NEW n \in 1 .. Len(inbox) PROVE Asked(inbox[n], intent, Calm')
      BY <2>1 DEF Queued
    <3>1. Asked(inbox[n], intent, Calm) BY DEF Once, Queued
    <3>2. ~Calm BY <2>1 DEF Calm, AllRest, Resting
    <3> QED BY <3>1, <3>2 DEF Asked
  <2>11. Single' BY <2>5 DEF Single
  <2> QED BY <2>1, <2>2, <2>8, <2>9, <2>10, <2>11 DEF Once, Before
<1>3. ASSUME TaskStill, inbox' = inbox, task[i].pc \notin Resting,
             \A j \in Intents : j # i => task'[j] = task[j],
             \/ task[i].pc = "start" /\ task'[i].pc = "claimed"
             \/ task[i].pc \in Sent /\ task'[i].pc \in Sent \cup Resting /\ task'[i].sig = task[i].sig
      PROVE  Once'
  <2>1. intent = i /\ eng # "Armed" /\ \A j \in Intents : j # i => task[j].pc \in Resting
    BY <1>3, Alone
  <2>2. UNCHANGED <<eng, intent, reg, buys, inbox>> BY <1>3 DEF TaskStill
  <2>3. InStep' BY <1>3, <2>1, <2>2 DEF InStep
  <2>4. Clear'
    <3>1. CASE task[i].pc = "start" /\ task'[i].pc = "claimed"
      BY <1>3, <2>1, <2>2, <3>1 DEF Once, Clear, Resting, Sent, NoneIn
    <3>2. CASE task[i].pc \in Sent /\ task'[i].pc \in Sent \cup Resting /\ task'[i].sig = task[i].sig
      BY <1>3, <2>1, <2>2, <3>2 DEF Once, Clear, Resting, Sent, NoneIn
    <3> QED BY <1>3, <3>1, <3>2
  <2>5. ~Calm BY <1>3 DEF Calm, AllRest
  <2>6. Queued' BY <2>2, <2>5 DEF Once, Queued, Asked
  <2> QED BY <2>1, <2>2, <2>3, <2>4, <2>6 DEF Once, Before, Single
<1>4. CASE TaskStill /\ ClaimStep(i)
  <2>1. task'[i].pc = "claimed" /\ \A j \in Intents : j # i => task'[j] = task[j]
    BY <1>4, PointsOf DEF ClaimStep
  <2> QED BY <1>3, <1>4, <2>1 DEF ClaimStep, Resting
<1>5. CASE TaskStill /\ RefuseStep(i)
  <2>1. PICK w \in {"Reverted", "Fatal"} : inbox' = Append(inbox, Answer(i, w)) BY <1>5 DEF RefuseStep
  <2>2. task'[i].pc \in Resting /\ \A j \in Intents : j # i => task'[j] = task[j]
    BY <1>5, OffOf DEF RefuseStep, Resting
  <2>3. NoneIn(buys) /\ task[i].pc \notin Resting BY <1>5 DEF RefuseStep, Once, Clear, Resting
  <2> QED BY <1>5, <2>1, <2>2, <2>3, EndOnce
<1>6. CASE TaskStill /\ ReplyStep(i)
  <2>1. task'[i].pc \in Resting /\ \A j \in Intents : j # i => task'[j] = task[j]
    BY <1>6, PointsOf DEF ReplyStep, Resting
  <2>2. task[i].pc \notin Resting BY <1>6 DEF ReplyStep, Resting, Sent
  <2>3. PICK w \in {"Filled", "Reverted", "Fatal"} :
          /\ inbox' = Append(inbox, Answer(i, w))
          /\ w = "Reverted" => task[i].pc = "claimed" \/ Reverted(task[i].sig)
    BY <1>6 DEF ReplyStep
  <2>4. w = "Reverted" => NoneIn(buys)
    BY <1>6, <2>3 DEF ReplyStep, Once, Clear, NoneIn, LivesIn, Reverted, Live
  <2> QED BY <1>6, <2>1, <2>2, <2>3, <2>4, EndOnce
<1>7. CASE TaskStill /\ WaitStep(i)
  <2>1. PICK pc \in {"window", "ended", "extended", "leaving"} : task' = [task EXCEPT ![i].pc = pc]
    BY <1>7 DEF WaitStep
  <2>2. task'[i].pc = pc /\ task'[i].sig = task[i].sig /\ \A j \in Intents : j # i => task'[j] = task[j]
    BY <2>1, PointsOf
  <2> QED BY <1>3, <1>7, <2>2 DEF WaitStep, Resting, Sent
<1>8. CASE TaskStill /\ LeaveStep(i)
  <2>1. task'[i].pc = "off" /\ \A j \in Intents : j # i => task'[j] = task[j]
    BY <1>8, OffOf DEF LeaveStep
  <2>2. task[i].pc = "leaving" /\ UNCHANGED <<eng, intent, reg, buys, inbox>>
    BY <1>8 DEF LeaveStep, TaskStill
  <2>3. Calm => Calm' BY <2>1, <2>2 DEF Calm, AllRest, Resting, NoneIn
  <2>4. InStep' /\ Clear' BY <2>1, <2>2 DEF Once, InStep, Clear, Resting, Sent, NoneIn
  <2>5. Queued' BY <2>2, <2>3 DEF Once, Queued, Asked
  <2>6. eng # "Armed" BY <2>2 DEF Once, Before
  <2> QED BY <2>2, <2>4, <2>5, <2>6 DEF Once, Before, Single
<1> QED BY <1>2, <1>4, <1>5, <1>6, <1>7, <1>8, TaskShape

\* The answer the reaper sends names the buy in flight and asks for no retry.
LEMMA ReaperOnce == ASSUME Types, Once, redrive_orphaned_buy_submitted PROVE Once'
<1>1. UNCHANGED <<eng, intent, reg, task>>
  BY DEF redrive_orphaned_buy_submitted, find_all_buy_submitted, ReaperSkips, try_begin_entry,
         resolve_buy_submitted, AdoptToEngine, AdoptRow, ResolveDrop, ResolveBurn, ResolveDead,
         ResolveWait, DropRow, DropTell, ReaperLeaves, OnlyReaper, engVars
<1>2. buys' = buys \/ ResolveBurn
  BY DEF redrive_orphaned_buy_submitted, find_all_buy_submitted, ReaperSkips, try_begin_entry,
         resolve_buy_submitted, AdoptToEngine, AdoptRow, ResolveDrop, ResolveDead,
         ResolveWait, DropRow, DropTell, ReaperLeaves
<1>3. LivesIn(buys') \subseteq LivesIn(buys) /\ (buys = <<>> => buys' = <<>>)
  BY <1>2, BurnQuiet, SameQuiet, QuietLives
<1>4. \/ inbox' = inbox
      \/ reg # NoOne /\ \E w \in {"Filled", "Fatal"} : inbox' = Append(inbox, Answer(reg, w))
  BY DEF redrive_orphaned_buy_submitted, find_all_buy_submitted, ReaperSkips, try_begin_entry,
         resolve_buy_submitted, AdoptToEngine, AdoptRow, ResolveDrop, ResolveBurn, ResolveDead,
         ResolveWait, DropRow, DropTell, ReaperLeaves
<1>5. inbox \in Seq(AnswerType) /\ intent \in Nat /\ reg \in Nat /\ reg <= intent BY DEF Types, Once
<1>6. CASE inbox' = inbox
  <2>1. eng' = "Armed" => Before' BY <1>1, <1>3, <1>6 DEF Once, Before
  <2> QED BY <1>1, <1>3, <1>5, <1>6, <2>1, JoinsSame, StillOnce
<1>7. CASE reg # NoOne /\ \E w \in {"Filled", "Fatal"} : inbox' = Append(inbox, Answer(reg, w))
  <2>1. PICK w \in {"Filled", "Fatal"} : inbox' = Append(inbox, Answer(reg, w)) BY <1>7
  <2>2. reg \in Intents BY <1>7, RealEntryAssumption DEF Types, NoOne, Intents
  <2>3. PICK x \in AnswerType : x = Answer(reg, w) /\ x.intent = reg /\ x.what = w BY <2>2, AnswerTyped
  <2>4. Joins(inbox, inbox', intent)
    <3>1. x.what # "Reverted" /\ x.intent <= intent BY <1>5, <2>3
    <3>2. Joins(inbox, Append(inbox, x), intent) BY <1>5, <3>1, JoinsOne
    <3> QED BY <2>1, <2>3, <3>2
  <2>5. eng' # "Armed" BY <1>1, <1>7 DEF Once, Before
  <2> QED BY <1>1, <1>3, <1>5, <2>4, <2>5, StillOnce
<1> QED BY <1>4, <1>6, <1>7

LEMMA OutsideOnce == ASSUME Types, Once, Writes \/ Chain \/ Crash \/ UNCHANGED vars PROVE Once'
<1>1. intent \in Nat /\ reg \in Nat /\ reg <= intent BY DEF Types, Once
<1>2. CASE Writes \/ Chain \/ UNCHANGED vars
  <2>1. UNCHANGED <<eng, intent, reg, inbox, task>>
    BY <1>2 DEF Writes, Ages, PgInsert, record_entry_fill, mark_entry_failed, mark_buy_submitted, MarkLost,
               Chain, Migrate, Lands, Reverts, Expires, Feed, Forget, OnlyChain, engVars, taskVars, vars
  <2>2. Chain \/ buys' = buys
    BY <1>2 DEF Writes, Ages, PgInsert, record_entry_fill, mark_entry_failed, mark_buy_submitted, MarkLost,
               chainVars, vars
  <2>3. LivesIn(buys') \subseteq LivesIn(buys) /\ (buys = <<>> => buys' = <<>>)
    BY <2>2, ChainQuiet, SameQuiet, QuietLives
  <2>4. eng' = "Armed" => Before' BY <2>1, <2>3 DEF Once, Before
  <2> QED BY <1>1, <2>1, <2>3, <2>4, JoinsSame, StillOnce
<1>3. CASE Crash
  <2>1. /\ eng' \in {"EntryPending", "Entered", "Gone"} /\ intent' = 1
        /\ reg' \in {1, NoOne} /\ inbox' = <<>> /\ task' = [i \in Intents |-> Off]
    BY <1>3 DEF Crash, AdoptedAs
  <2>2. LivesIn(buys') \subseteq LivesIn(buys) BY <1>3, CrashQuiet, QuietLives
  <2>3. \A i \in Intents : task'[i].pc = "off" BY <2>1, OffTyped
  <2>4. InStep' /\ Clear' BY <2>3 DEF InStep, Clear, Resting, Sent
  <2>5. Queued' BY <2>1 DEF Queued
  <2>6. Single' BY <2>2 DEF Once, Single
  <2>7. Before' /\ reg' <= intent' BY <2>1 DEF Before, NoOne
  <2> QED BY <2>4, <2>5, <2>6, <2>7 DEF Once
<1> QED BY <1>2, <1>3

LEMMA OnceInit == Init => Once
<1> SUFFICES ASSUME Init PROVE Once OBVIOUS
<1>1. \A i \in Intents : task[i].pc = "off" BY OffTyped DEF Init
<1>2. InStep /\ Clear BY <1>1 DEF InStep, Clear, Resting, Sent
<1>3. Single /\ Queued BY DEF Init, Single, Queued, LivesIn
<1> QED BY <1>1, <1>2, <1>3 DEF Init, Once, Before, NoOne

LEMMA OnceStep == ASSUME Types, Once, [Next]_vars PROVE Once'
BY EngineOnce, TaskOnce, ReaperOnce, OutsideOnce DEF Next

\* Under every fault, and however many retries and restarts there are, no two
\* buys of a position have landed or can land: a retry is signed only when no
\* task is at work and every earlier buy reverted or is dead.
THEOREM BuyOnce == Spec => []OneLiveBuy
<1>1. Once => OneLiveBuy
  BY DEF Once, Single, OneLiveBuy, LivesIn, Live, Landed, CanLand, Flying, BuyIds
<1> QED BY <1>1, TypesInit, TypesStep, OnceInit, OnceStep, PTL DEF Spec

-----------------------------------------------------------------------------
(* One booking.                                                            *)

LandsIn(ss) == \E b \in 1 .. Len(ss) : ss[b].st = "landed"
FillIn(q) == \E n \in 1 .. Len(q) : q[n].what = "Filled"

\* The writes still to run are those of the arm's last steps.  A restart that
\* finds no row, or cannot read it, leaves none.
Line(e, q, s) ==
    \/ e = "Armed" /\ q = <<>> /\ s = "none"
    \/ e = "EntryPending" /\ IF s = "none" THEN q = <<"insert">> ELSE q = <<>>
    \/ e = "Entered" /\ IF s = "none" THEN q = <<"insert", "holding">>
                                      ELSE q \in {<<"holding">>, <<>>}
    \/ e = "Gone" /\ \/ q = <<"insert", "failed">> /\ s = "none"
                     \/ q = <<"failed">> /\ s # "none"
                     \/ q = <<>>
\* Who may still book the fill: the row's owner before a fill, the sink with the
\* engine's, the reaper once the engine let go.
Unbooked(e, q, s, p) ==
    \/ s \in {"none", "BuySubmitted"} \/ e = "EntryPending"
    \/ e = "Entered" /\ q # <<>>
    \/ e = "Gone" /\ p \in {"listed", "resolve"}
Bookings == row.booked <= 1 /\ (Unbooked(eng, pg, row.status, reaper.pc) => row.booked = 0)
\* An arm the registry does not know has sent nothing, or was adopted as held.
Owned ==
    /\ eng = "EntryPending" /\ reg = NoOne => buys = <<>> /\ AllRest
    /\ eng = "Entered" /\ reg = NoOne => row.status = "Holding" /\ pg = <<>> /\ reaper.pc = "idle"
Signed == \A i \in Intents : task[i].pc \in Sent => task[i].sig \in BuyIds
\* Whoever says that the entry filled has seen a buy that landed.
Paid == FillIn(inbox) \/ row.status = "Holding" \/ eng = "Entered" \/ row.booked = 1 => LandsIn(buys)

Books == /\ Line(eng, pg, row.status) /\ (reaper.pc # "idle" => row.status # "none")
         /\ Bookings /\ Owned /\ Signed /\ Paid

LEMMA FillTail ==
    ASSUME NEW q \in Seq(AnswerType), q # <<>>, FillIn(Tail(q)) PROVE FillIn(q)
<1>1. Len(Tail(q)) = Len(q) - 1 /\ \A n \in 1 .. Len(Tail(q)) : Tail(q)[n] = q[n + 1] OBVIOUS
<1>2. \A n \in 1 .. Len(Tail(q)) : n + 1 \in 1 .. Len(q) BY <1>1
<1> QED BY <1>1, <1>2 DEF FillIn

LEMMA FillAppend ==
    ASSUME NEW q \in Seq(AnswerType), NEW x \in AnswerType, FillIn(Append(q, x))
    PROVE  FillIn(q) \/ x.what = "Filled"
BY DEF FillIn

LEMMA TwoWrites ==
    ASSUME NEW x \in WriteKinds, NEW y \in WriteKinds PROVE Append(<<x>>, y) = <<x, y>>
<1> DEFINE a == Append(<<x>>, y)
<1>1. <<x>> \in Seq(WriteKinds) /\ <<x, y>> \in Seq(WriteKinds) OBVIOUS
<1>2. a \in Seq(WriteKinds) /\ Len(a) = 2 /\ a[1] = x /\ a[2] = y BY <1>1
<1>3. Len(<<x, y>>) = 2 /\ <<x, y>>[1] = x /\ <<x, y>>[2] = y OBVIOUS
<1> HIDE DEF a
<1>4. PICK b \in Seq(WriteKinds) : b = <<x, y>> BY <1>1
<1>5. Len(b) = 2 /\ b[1] = x /\ b[2] = y BY <1>3, <1>4
<1>6. \A i \in 1 .. Len(a) : a[i] = b[i] BY <1>2, <1>5
<1>7. a = b BY <1>1, <1>2, <1>5, <1>6, SeqEqual
<1> QED BY <1>4, <1>7 DEF a

LEMMA Pending ==
    /\ Append(<<>>, "insert") = <<"insert">>
    /\ \A x \in {"holding", "failed"} : Append(<<>>, x) = <<x>> /\ Append(<<"insert">>, x) = <<"insert", x>>
    /\ \A x \in WriteKinds : <<x>> # <<>> /\ Head(<<x>>) = x /\ Tail(<<x>>) = <<>>
    /\ \A x, y \in WriteKinds : <<x, y>> # <<>> /\ Head(<<x, y>>) = x /\ Tail(<<x, y>>) = <<y>>
<1>1. Append(<<>>, "insert") = <<"insert">> OBVIOUS
<1>2. ASSUME NEW x \in {"holding", "failed"}
      PROVE  Append(<<>>, x) = <<x>> /\ Append(<<"insert">>, x) = <<"insert", x>>
  <2>1. "insert" \in WriteKinds /\ x \in WriteKinds BY DEF WriteKinds
  <2> QED BY <2>1, TwoWrites
<1>3. ASSUME NEW x \in WriteKinds PROVE <<x>> # <<>> /\ Head(<<x>>) = x /\ Tail(<<x>>) = <<>>
  OBVIOUS
<1>4. ASSUME NEW x \in WriteKinds, NEW y \in WriteKinds
      PROVE  <<x, y>> # <<>> /\ Head(<<x, y>>) = x /\ Tail(<<x, y>>) = <<y>>
  OBVIOUS
<1> QED BY <1>1, <1>2, <1>3, <1>4

LEMMA LandsQuiet == ASSUME Types, Quiet(buys, buys'), LandsIn(buys) PROVE LandsIn(buys')
BY DEF LandsIn, Quiet, Turns

\* A dispatch sends no fill, and registers the task it starts.
LEMMA DispatchBooks ==
    ASSUME Types, Signed, UNCHANGED buys, NEW i \in Intents, NEW rest \in Seq(AnswerType),
           dispatch_buy(i, rest)
    PROVE  Signed' /\ (FillIn(inbox') => FillIn(rest)) /\ (reg' # NoOne \/ UNCHANGED <<reg, task>>)
<1>1. i # NoOne BY DEF Intents, NoOne
<1>2. CASE reg' = i /\ task' = [task EXCEPT ![i] = [pc |-> "start", sig |-> 0]] /\ inbox' = rest
  <2>1. \A j \in Intents : task'[j] = IF j = i THEN [pc |-> "start", sig |-> 0] ELSE task[j]
    BY <1>2 DEF Types
  <2> QED BY <1>1, <1>2, <2>1 DEF Signed, Sent, BuyIds
<1>3. CASE inbox' = Append(rest, Answer(i, "Fatal")) /\ UNCHANGED <<reg, task>>
  <2>1. PICK x \in AnswerType : x = Answer(i, "Fatal") /\ x.what = "Fatal" BY AnswerTyped
  <2>2. FillIn(inbox') => FillIn(rest) BY <1>3, <2>1, FillAppend
  <2> QED BY <1>3, <2>2 DEF Signed, BuyIds
<1> QED BY <1>2, <1>3 DEF dispatch_buy

LEMMA EngineBooks == ASSUME Types, Once, Books, Engine PROVE Books'
<1>1. UNCHANGED <<row, reaper, buys>> /\ inbox \in Seq(AnswerType) /\ intent \in Nat
  BY DEF Engine, Enter, FoldFilled, FoldRetry, FoldGiveUp, FoldStale, Stop, dbVars, chainVars, Types
<1>2. LandsIn(buys') = LandsIn(buys) BY <1>1
<1>3. CASE Enter
  <2>1. eng = "Armed" /\ eng' = "EntryPending" /\ pg' = Append(pg, "insert") /\ dispatch_buy(1, inbox)
    BY <1>3 DEF Enter
  <2>2. buys = <<>> /\ inbox = <<>> /\ AllRest BY <2>1 DEF Once, Before, AllRest, Resting
  <2>3. pg = <<>> /\ row.status = "none" /\ row.booked = 0
    BY <2>1 DEF Books, Line, Bookings, Unbooked
  <2>4. 1 \in Intents BY RealEntryAssumption DEF Intents
  <2>5. Signed' /\ (FillIn(inbox') => FillIn(inbox)) /\ (reg' # NoOne \/ UNCHANGED <<reg, task>>)
    BY <1>1, <2>1, <2>4, DispatchBooks DEF Books
  <2>6. ~FillIn(inbox) BY <2>2 DEF FillIn
  <2>7. Line(eng', pg', row'.status) BY <1>1, <2>1, <2>3, Pending DEF Line
  <2>8. Owned' BY <1>1, <2>1, <2>2, <2>5 DEF Owned, AllRest
  <2>9. Paid' BY <1>1, <2>1, <2>3, <2>5, <2>6 DEF Paid
  <2> QED BY <1>1, <2>3, <2>5, <2>7, <2>8, <2>9 DEF Books, Bookings
<1>4. CASE FoldRetry
  <2>1. /\ inbox # <<>> /\ eng = "EntryPending" /\ intent < MaxEntryAttempts
        /\ dispatch_buy(intent + 1, Tail(inbox)) /\ UNCHANGED <<eng, pg>>
    BY <1>4 DEF FoldRetry, IsAnswer, AttemptsLeft, dbVars
  <2>2. intent + 1 \in Intents BY <1>1, <2>1, RealEntryAssumption DEF Intents
  <2>3. Tail(inbox) \in Seq(AnswerType) BY <1>1, <2>1, TailTyped
  <2>4. Signed' /\ (FillIn(inbox') => FillIn(Tail(inbox))) /\ (reg' # NoOne \/ UNCHANGED <<reg, task>>)
    BY <1>1, <2>1, <2>2, <2>3, DispatchBooks DEF Books
  <2>5. FillIn(inbox') => FillIn(inbox) BY <1>1, <2>1, <2>4, FillTail
  <2>6. Owned' BY <1>1, <2>1, <2>4 DEF Books, Owned, AllRest
  <2>7. Paid' BY <1>1, <1>2, <2>1, <2>5 DEF Books, Paid
  <2> QED BY <1>1, <2>1, <2>4, <2>6, <2>7 DEF Books, Bookings
<1>5. CASE FoldFilled \/ FoldGiveUp \/ FoldStale \/ Stop
  <2>1. /\ UNCHANGED <<intent, task>>
        /\ inbox' = inbox \/ (inbox # <<>> /\ inbox' = Tail(inbox))
        /\ \/ UNCHANGED <<eng, reg, pg>>
           \/ FoldFilled
           \/ eng = "EntryPending" /\ eng' = "Gone" /\ pg' = Append(pg, "failed")
    BY <1>5 DEF FoldFilled, FoldGiveUp, FoldStale, Stop, IsAnswer, on_entry_failed, taskVars, engVars, dbVars
  <2>2. FillIn(inbox') => FillIn(inbox) BY <1>1, <2>1, FillTail
  <2>3. Signed' BY <1>1, <2>1 DEF Books, Signed, BuyIds
  <2>4. CASE UNCHANGED <<eng, reg, pg>>
    <3>1. Owned' BY <1>1, <2>1, <2>4 DEF Books, Owned, AllRest
    <3>2. Paid' BY <1>1, <1>2, <2>2, <2>4 DEF Books, Paid
    <3> QED BY <1>1, <2>3, <2>4, <3>1, <3>2 DEF Books, Bookings
  <2>5. CASE FoldFilled
    <3>1. /\ inbox # <<>> /\ Head(inbox) = Answer(intent, "Filled") /\ eng = "EntryPending"
          /\ eng' = "Entered" /\ pg' = Append(pg, "holding") /\ reg' = reg
      BY <2>5 DEF FoldFilled, IsAnswer
    <3>2. FillIn(inbox)
      <4>1. 1 \in 1 .. Len(inbox) /\ inbox[1] = Answer(intent, "Filled") BY <1>1, <3>1
      <4> QED BY <4>1 DEF FillIn, Answer
    <3>3. LandsIn(buys) BY <3>2 DEF Books, Paid
    <3>4. reg # NoOne BY <3>1, <3>3 DEF Books, Owned, LandsIn
    <3>5. row.booked = 0 BY <3>1 DEF Books, Bookings, Unbooked
    <3>6. Line(eng', pg', row'.status) BY <1>1, <3>1, Pending DEF Books, Line
    <3>7. Owned' BY <3>1, <3>4 DEF Owned
    <3>8. Paid' BY <1>2, <3>3 DEF Paid
    <3> QED BY <1>1, <2>3, <3>5, <3>6, <3>7, <3>8 DEF Books, Bookings
  <2>6. CASE eng = "EntryPending" /\ eng' = "Gone" /\ pg' = Append(pg, "failed")
    <3>1. row.booked = 0 BY <2>6 DEF Books, Bookings, Unbooked
    <3>2. Line(eng', pg', row'.status) BY <1>1, <2>6, Pending DEF Books, Line
    <3>3. Owned' BY <2>6 DEF Owned
    <3>4. Paid' BY <1>1, <1>2, <2>2, <2>6 DEF Books, Paid
    <3> QED BY <1>1, <2>3, <3>1, <3>2, <3>3, <3>4 DEF Books, Bookings
  <2> QED BY <2>1, <2>4, <2>5, <2>6
<1> QED BY <1>3, <1>4, <1>5 DEF Engine

LEMMA TaskBooks == ASSUME Types, Once, Books, NEW i \in Intents, run_entry(i) PROVE Books'
<1>1. UNCHANGED <<eng, reg, row, pg, reaper>> /\ inbox \in Seq(AnswerType)
  BY TaskShape DEF TaskStill, on_signed, engVars, Types
<1>2. CASE on_signed(i)
  <2>1. /\ task[i].pc = "claimed" /\ task' = [task EXCEPT ![i] = [pc |-> "early", sig |-> Len(buys) + 1]]
        /\ inbox' = inbox
    BY <1>2 DEF on_signed, NothingToAdopt, At
  <2>2. /\ Len(buys') = Len(buys) + 1 /\ \A b \in BuyIds : buys'[b] = buys[b]
    BY <1>2, SignedBuys
  <2>3. Len(buys) \in Nat BY DEF Types
  <2>4. LandsIn(buys) => LandsIn(buys') BY <2>2, <2>3 DEF LandsIn, BuyIds
  <2>5. PICK x : x = [pc |-> "early", sig |-> Len(buys) + 1] OBVIOUS
  <2>6. task'[i] = x /\ x.sig = Len(buys) + 1 /\ \A j \in Intents : j # i => task'[j] = task[j]
    BY <2>1, <2>5 DEF Types
  <2>7. Signed' BY <2>2, <2>3, <2>6 DEF Books, Signed, BuyIds
  <2>8. ~AllRest BY <2>1 DEF AllRest, Resting
  <2>9. Owned' BY <1>1, <2>8 DEF Books, Owned
  <2>10. Paid' BY <1>1, <2>1, <2>4 DEF Books, Paid
  <2> QED BY <1>1, <2>7, <2>9, <2>10 DEF Books, Bookings
<1>3. ASSUME TaskStill, task[i].pc # "off",
             \A j \in Intents : j # i => task'[j] = task[j],
             task'[i].pc \in Sent => task[i].pc \in Sent /\ task'[i].sig = task[i].sig,
             task[i].pc = "leaving" => task'[i].pc = "off",
             FillIn(inbox') => FillIn(inbox) \/ LandsIn(buys)
      PROVE  Books'
  <2>1. UNCHANGED buys BY <1>3 DEF TaskStill
  <2>2. Signed' BY <1>3, <2>1 DEF Books, Signed, BuyIds
  <2>3. Owned' BY <1>1, <1>3, <2>1 DEF Books, Owned, AllRest, Resting
  <2>4. Paid' BY <1>1, <1>3, <2>1 DEF Books, Paid
  <2> QED BY <1>1, <2>2, <2>3, <2>4 DEF Books, Bookings
<1>4. ASSUME NEW w \in {"Filled", "Reverted", "Fatal"}, inbox' = Append(inbox, Answer(i, w)),
             w = "Filled" => LandsIn(buys)
      PROVE  FillIn(inbox') => FillIn(inbox) \/ LandsIn(buys)
  <2>1. PICK x \in AnswerType : x = Answer(i, w) /\ x.what = w BY AnswerTyped
  <2> QED BY <1>1, <1>4, <2>1, FillAppend
<1>5. CASE TaskStill /\ ClaimStep(i)
  <2>1. task'[i].pc = "claimed" /\ \A j \in Intents : j # i => task'[j] = task[j]
    BY <1>5, PointsOf DEF ClaimStep
  <2> QED BY <1>3, <1>5, <2>1 DEF ClaimStep, Sent
<1>6. CASE TaskStill /\ RefuseStep(i)
  <2>1. PICK w \in {"Reverted", "Fatal"} : inbox' = Append(inbox, Answer(i, w)) BY <1>6 DEF RefuseStep
  <2>2. task'[i].pc = "off" /\ \A j \in Intents : j # i => task'[j] = task[j]
    BY <1>6, OffOf DEF RefuseStep
  <2>3. FillIn(inbox') => FillIn(inbox) \/ LandsIn(buys) BY <1>4, <2>1
  <2> QED BY <1>3, <1>6, <2>2, <2>3 DEF RefuseStep, Sent
<1>7. CASE TaskStill /\ ReplyStep(i)
  <2>1. task'[i].pc = "leaving" /\ \A j \in Intents : j # i => task'[j] = task[j]
    BY <1>7, PointsOf DEF ReplyStep
  <2>2. PICK w \in {"Filled", "Reverted", "Fatal"} :
          /\ inbox' = Append(inbox, Answer(i, w))
          /\ w = "Filled" => task[i].pc \in Sent /\ OnFeed(task[i].sig)
    BY <1>7 DEF ReplyStep
  <2>3. w = "Filled" => LandsIn(buys)
    BY <2>2 DEF Books, Signed, OnFeed, Landed, LandsIn, BuyIds
  <2>4. FillIn(inbox') => FillIn(inbox) \/ LandsIn(buys) BY <1>4, <2>2, <2>3
  <2>5. task[i].pc # "off" /\ task[i].pc # "leaving" BY <1>7 DEF ReplyStep, Sent
  <2> QED BY <1>3, <1>7, <2>1, <2>4, <2>5 DEF Sent
<1>8. CASE TaskStill /\ WaitStep(i)
  <2>1. PICK pc \in {"window", "ended", "extended", "leaving"} : task' = [task EXCEPT ![i].pc = pc]
    BY <1>8 DEF WaitStep
  <2>2. task'[i].pc = pc /\ task'[i].sig = task[i].sig /\ \A j \in Intents : j # i => task'[j] = task[j]
    BY <2>1, PointsOf
  <2> QED BY <1>3, <1>8, <2>2 DEF WaitStep, Sent
<1>9. CASE TaskStill /\ LeaveStep(i)
  <2>1. task'[i].pc = "off" /\ \A j \in Intents : j # i => task'[j] = task[j]
    BY <1>9, OffOf DEF LeaveStep
  <2> QED BY <1>3, <1>9, <2>1 DEF LeaveStep, Sent
<1> QED BY <1>2, <1>5, <1>6, <1>7, <1>8, <1>9, TaskShape

LEMMA BookedRow ==
    ASSUME Types
    PROVE  /\ BookEntry.status = "Holding" /\ BookEntry.booked = row.booked + 1
           /\ \A st \in Statuses : /\ [row EXCEPT !.status = st].status = st
                                   /\ [row EXCEPT !.status = st].booked = row.booked
           /\ row.booked \in Nat /\ row.status \in Statuses
<1>1. row \in RowType BY DEF Types
<1> QED BY <1>1 DEF BookEntry, RowType

LEMMA WritesBooks == ASSUME Types, Once, Books, Writes PROVE Books'
<1>1. UNCHANGED <<eng, reg, inbox, task, buys, reaper>>
  BY DEF Writes, Ages, PgInsert, record_entry_fill, mark_entry_failed, mark_buy_submitted, MarkLost,
         engVars, taskVars, chainVars
<1>2. Signed' /\ (AllRest' = AllRest) /\ LandsIn(buys') = LandsIn(buys) BY <1>1 DEF Books, Signed, BuyIds, AllRest
<1>3. row.booked \in Nat BY BookedRow
<1>4. CASE pg' = pg
  <2>1. row'.status = row.status /\ row'.booked = row.booked
    <3>1. row \in RowType BY DEF Types
    <3>2. CASE Ages BY <3>1, <3>2 DEF Ages, RowType
    <3>3. ASSUME NEW b \in marks, mark_buy_submitted(b) \/ MarkLost(b)
          PROVE  row'.status = row.status /\ row'.booked = row.booked
      BY <3>1, <3>3 DEF mark_buy_submitted, MarkLost, RowType
    <3>4. CASE PgInsert \/ record_entry_fill \/ mark_entry_failed
      <4>1. pg # <<>> /\ pg' = Tail(pg) /\ pg \in Seq(WriteKinds)
        BY <3>4 DEF PgInsert, record_entry_fill, mark_entry_failed, Types
      <4> QED BY <1>4, <4>1
    <3> QED BY <3>2, <3>3, <3>4 DEF Writes
  <2> QED BY <1>1, <1>2, <1>4, <2>1 DEF Books, Bookings, Owned, Paid
<1>5. CASE PgInsert
  <2>1. pg # <<>> /\ Head(pg) = "insert" /\ pg' = Tail(pg) /\ row' = [row EXCEPT !.status = "BuySubmitted"]
    BY <1>5 DEF PgInsert
  <2>2. row'.status = "BuySubmitted" /\ row'.booked = row.booked BY <2>1, BookedRow DEF Statuses
  <2>3. row.status = "none" BY <2>1, Pending DEF Books, Line, WriteKinds
  <2>4. Line(eng', pg', row'.status) BY <1>1, <2>1, <2>2, <2>3, Pending DEF Books, Line, WriteKinds
  <2>5. row.booked = 0 BY <2>3 DEF Books, Bookings, Unbooked
  <2>6. Owned' BY <1>1, <1>2, <2>3 DEF Books, Owned
  <2>7. Paid' BY <1>1, <1>2, <2>2 DEF Books, Paid
  <2> QED BY <1>1, <1>2, <2>2, <2>4, <2>5, <2>6, <2>7 DEF Books, Bookings
<1>6. CASE record_entry_fill
  <2>1. /\ pg # <<>> /\ Head(pg) = "holding" /\ pg' = Tail(pg)
        /\ row' = IF Exists THEN BookEntry ELSE row
    BY <1>6 DEF record_entry_fill
  <2>2. eng = "Entered" /\ row.status # "none" /\ pg' = <<>>
    BY <2>1, Pending DEF Books, Line, WriteKinds
  <2>3. row.booked = 0 /\ reg # NoOne BY <2>1, <2>2 DEF Books, Bookings, Unbooked, Owned
  <2>4. \/ row'.status = "Holding" /\ row'.booked = row.booked + 1
        \/ row' = row /\ row.status = "deleted"
    BY <2>1, <2>2, BookedRow DEF Exists
  <2>5. Line(eng', pg', row'.status) BY <1>1, <2>2, <2>4 DEF Line
  <2>6. Owned' BY <1>1, <2>2, <2>3 DEF Owned
  <2>7. Paid' BY <1>1, <1>2, <2>2 DEF Books, Paid
  <2>8. Bookings' BY <1>1, <2>2, <2>3, <2>4 DEF Bookings, Unbooked
  <2> QED BY <1>1, <1>2, <2>2, <2>4, <2>5, <2>6, <2>7, <2>8 DEF Books
<1>7. CASE mark_entry_failed
  <2>1. /\ pg # <<>> /\ Head(pg) = "failed" /\ pg' = Tail(pg)
        /\ row' = IF Exists THEN [row EXCEPT !.status = "EntryFailed"] ELSE row
    BY <1>7 DEF mark_entry_failed
  <2>2. eng = "Gone" /\ row.status # "none" /\ pg' = <<>>
    BY <2>1, Pending DEF Books, Line, WriteKinds
  <2>3. row'.booked = row.booked /\ row'.status \in {"EntryFailed", row.status}
    BY <2>1, BookedRow DEF Statuses
  <2>4. Line(eng', pg', row'.status) /\ row'.status # "none" BY <1>1, <2>2, <2>3 DEF Line
  <2>5. Owned' BY <1>1, <2>2 DEF Owned
  <2>6. Paid' BY <1>1, <1>2, <2>2, <2>3 DEF Books, Paid
  <2>7. Bookings' BY <1>1, <2>2, <2>3 DEF Books, Bookings, Unbooked
  <2> QED BY <1>1, <1>2, <2>4, <2>5, <2>6, <2>7 DEF Books
<1>8. pg' = pg \/ PgInsert \/ record_entry_fill \/ mark_entry_failed
  BY DEF Writes, Ages, mark_buy_submitted, MarkLost
<1> QED BY <1>4, <1>5, <1>6, <1>7, <1>8

LEMMA ReaperBooks == ASSUME Types, Once, Books, redrive_orphaned_buy_submitted PROVE Books'
<1>1. UNCHANGED <<eng, reg, task, pg>> /\ inbox \in Seq(AnswerType)
  BY DEF redrive_orphaned_buy_submitted, find_all_buy_submitted, ReaperSkips, try_begin_entry,
         resolve_buy_submitted, AdoptToEngine, AdoptRow, ResolveDrop, ResolveBurn, ResolveDead,
         ResolveWait, DropRow, DropTell, ReaperLeaves, OnlyReaper, engVars, Types
<1>2. Quiet(buys, buys')
  <2>1. buys' = buys \/ ResolveBurn
    BY DEF redrive_orphaned_buy_submitted, find_all_buy_submitted, ReaperSkips, try_begin_entry,
           resolve_buy_submitted, AdoptToEngine, AdoptRow, ResolveDrop, ResolveDead,
           ResolveWait, DropRow, DropTell, ReaperLeaves
  <2> QED BY <2>1, BurnQuiet, SameQuiet
<1>3. (LandsIn(buys) => LandsIn(buys')) /\ BuyIds' = BuyIds /\ (buys = <<>> => buys' = <<>>)
  BY <1>2, LandsQuiet, QuietLives DEF Quiet, BuyIds
<1>4. Signed' BY <1>1, <1>3 DEF Books, Signed
<1>5. reaper \in ReaperType BY DEF Types
<1>6. Indexed => LandsIn(buys) /\ buys # <<>>
  <2>1. Len(buys) \in Nat /\ reaper.sigs \subseteq 1 .. Len(buys) BY DEF Types, BuyIds
  <2> QED BY <2>1 DEF Indexed, OnFeed, Landed, LandsIn
<1>7. ASSUME row'.status = row.status, row'.booked = row.booked,
             FillIn(inbox') => FillIn(inbox) \/ LandsIn(buys),
             \/ reaper'.pc \in {"idle", "burned", "drop", "tell", "leaving"} /\ (reaper.pc # "idle")
             \/ reaper'.pc = "resolve" /\ reaper.pc = "listed"
             \/ reaper'.pc = "listed" /\ row.status = "BuySubmitted"
      PROVE  Books'
  <2>1. reaper'.pc # "idle" => row'.status # "none" BY <1>7 DEF Books
  <2>2. Bookings' BY <1>1, <1>7 DEF Books, Bookings, Unbooked
  <2>3. Owned' BY <1>1, <1>3, <1>7 DEF Books, Owned, AllRest
  <2>4. Paid' BY <1>1, <1>3, <1>7 DEF Books, Paid
  <2> QED BY <1>1, <1>4, <1>7, <2>1, <2>2, <2>3, <2>4 DEF Books
<1>8. CASE find_all_buy_submitted
  <2>1. /\ row.status = "BuySubmitted" /\ reaper' = [pc |-> "listed", sigs |-> row.sigs, old |-> row.old]
        /\ UNCHANGED <<inbox, row>>
    BY <1>8 DEF find_all_buy_submitted
  <2> QED BY <1>7, <2>1
<1>9. CASE ReaperSkips \/ ReaperLeaves
  <2>1. reaper' = IdleReaper /\ UNCHANGED <<inbox, row>> /\ reaper.pc # "idle"
    BY <1>9 DEF ReaperSkips, ReaperLeaves
  <2> QED BY <1>7, <2>1, IdleTyped
<1>10. CASE try_begin_entry \/ ResolveDrop \/ ResolveDead \/ ResolveWait \/ ResolveBurn
  <2>1. /\ UNCHANGED <<inbox, row>> /\ reaper.pc # "idle"
        /\ \E pc \in {"resolve", "burned", "drop", "leaving"} :
              reaper' = [reaper EXCEPT !.pc = pc] /\ (pc = "resolve" => reaper.pc = "listed")
    BY <1>10 DEF try_begin_entry, ResolveDrop, ResolveDead, ResolveWait, ResolveBurn
  <2>2. PICK pc \in {"resolve", "burned", "drop", "leaving"} :
              reaper' = [reaper EXCEPT !.pc = pc] /\ (pc = "resolve" => reaper.pc = "listed")
    BY <2>1
  <2>3. reaper'.pc = pc BY <1>5, <2>2 DEF ReaperType
  <2> QED BY <1>7, <2>1, <2>2, <2>3
<1>11. CASE AdoptToEngine \/ DropTell
  <2>1. /\ UNCHANGED row /\ reaper.pc # "idle" /\ reaper' = [reaper EXCEPT !.pc = "leaving"]
        /\ \/ inbox' = inbox
           \/ /\ reg # NoOne
              /\ \E w \in {"Filled", "Fatal"} : inbox' = Append(inbox, Answer(reg, w)) /\ (w = "Filled" => Indexed)
    BY <1>11 DEF AdoptToEngine, DropTell
  <2>2. reaper'.pc = "leaving" BY <1>5, <2>1 DEF ReaperType
  <2>3. FillIn(inbox') => FillIn(inbox) \/ LandsIn(buys)
    <3>1. CASE reg # NoOne /\ \E w \in {"Filled", "Fatal"} :
                 inbox' = Append(inbox, Answer(reg, w)) /\ (w = "Filled" => Indexed)
      <4>1. PICK w \in {"Filled", "Fatal"} :
                   inbox' = Append(inbox, Answer(reg, w)) /\ (w = "Filled" => Indexed)
        BY <3>1
      <4>2. reg \in Intents BY <3>1, RealEntryAssumption DEF Types, NoOne, Intents
      <4>3. PICK x \in AnswerType : x = Answer(reg, w) /\ x.what = w BY <4>2, AnswerTyped
      <4> QED BY <1>1, <1>6, <4>1, <4>3, FillAppend
    <3> QED BY <2>1, <3>1
  <2> QED BY <1>7, <2>1, <2>2, <2>3
<1>12. CASE AdoptRow
  <2>1. /\ reaper.pc = "resolve" /\ Indexed /\ row.status # "none" /\ (eng = "Gone" \/ reg = NoOne)
        /\ row' = BookEntry /\ reaper' = [reaper EXCEPT !.pc = "leaving"] /\ inbox' = inbox
    BY <1>12 DEF AdoptRow, Exists
  <2>2. reaper'.pc = "leaving" BY <1>5, <2>1 DEF ReaperType
  <2>3. row'.status = "Holding" /\ row'.booked = row.booked + 1 BY <2>1, BookedRow
  <2>4. eng = "Gone"
    <3>1. eng # "Armed" BY <2>1 DEF Books, Line
    <3>2. eng # "EntryPending" \/ reg # NoOne BY <1>6, <2>1 DEF Books, Owned
    <3>3. eng # "Entered" \/ reg # NoOne BY <2>1 DEF Books, Owned
    <3> QED BY <2>1, <3>1, <3>2, <3>3 DEF Types
  <2>5. row.booked = 0 BY <2>1, <2>4 DEF Books, Bookings, Unbooked
  <2>6. Bookings' BY <1>1, <2>2, <2>3, <2>4, <2>5 DEF Bookings, Unbooked
  <2>7. Line(eng', pg', row'.status) BY <1>1, <2>1, <2>3, <2>4 DEF Books, Line
  <2>8. Owned' BY <1>1, <2>4 DEF Owned
  <2>9. Paid' BY <1>3, <1>6, <2>1 DEF Paid
  <2> QED BY <1>4, <2>3, <2>6, <2>7, <2>8, <2>9 DEF Books
<1>13. CASE DropRow
  <2>1. /\ reaper.pc = "drop" /\ row' = [row EXCEPT !.status = "deleted"]
        /\ reaper' = [reaper EXCEPT !.pc = "tell"] /\ inbox' = inbox
    BY <1>13 DEF DropRow
  <2>2. reaper'.pc = "tell" BY <1>5, <2>1 DEF ReaperType
  <2>3. row'.status = "deleted" /\ row'.booked = row.booked BY <2>1, BookedRow DEF Statuses
  <2>4. Bookings' BY <1>1, <2>2, <2>3 DEF Books, Bookings, Unbooked
  <2>5. row.status # "none" BY <2>1 DEF Books
  <2>6. Line(eng', pg', row'.status) BY <1>1, <2>3, <2>5 DEF Books, Line
  <2>7. Owned' BY <1>1, <1>3, <2>1 DEF Books, Owned, AllRest
  <2>8. Paid' BY <1>1, <1>3, <2>1, <2>3 DEF Books, Paid
  <2> QED BY <1>4, <2>3, <2>4, <2>6, <2>7, <2>8 DEF Books
<1> QED BY <1>8, <1>9, <1>10, <1>11, <1>12, <1>13 DEF redrive_orphaned_buy_submitted, resolve_buy_submitted

LEMMA OutsideBooks == ASSUME Types, Once, Books, Chain \/ Crash \/ UNCHANGED vars PROVE Books'
<1>1. Quiet(buys, buys') BY ChainQuiet, CrashQuiet, SameQuiet DEF vars
<1>2. (LandsIn(buys) => LandsIn(buys')) /\ BuyIds' = BuyIds /\ (buys = <<>> => buys' = <<>>)
  BY <1>1, LandsQuiet, QuietLives DEF Quiet, BuyIds
<1>3. CASE Chain \/ UNCHANGED vars
  <2>1. UNCHANGED <<eng, reg, inbox, task, row, pg, reaper>>
    BY <1>3 DEF Chain, Migrate, Lands, Reverts, Expires, Feed, Forget, OnlyChain, engVars, taskVars,
               dbVars, vars
  <2>2. Signed' BY <1>2, <2>1 DEF Books, Signed
  <2>3. Owned' BY <1>2, <2>1 DEF Books, Owned, AllRest
  <2>4. Paid' BY <1>2, <2>1 DEF Books, Paid
  <2> QED BY <2>1, <2>2, <2>3, <2>4 DEF Books, Bookings
<1>4. CASE Crash
  <2>1. /\ \/ eng' = "EntryPending" /\ row.status = "BuySubmitted"
           \/ eng' = "Entered" /\ row.status = "Holding"
           \/ eng' = "Gone"
        /\ reg' = IF eng' = "EntryPending" THEN 1 ELSE NoOne
        /\ inbox' = <<>> /\ task' = [i \in Intents |-> Off] /\ pg' = <<>> /\ reaper' = IdleReaper
        /\ UNCHANGED row
    BY <1>4 DEF Crash, AdoptedAs
  <2>2. reaper'.pc = "idle" /\ \A i \in Intents : task'[i].pc = "off" BY <2>1, IdleTyped, OffTyped
  <2>3. Signed' BY <2>2 DEF Signed, Sent
  <2>4. Owned' BY <2>1, <2>2 DEF Owned, NoOne
  <2>5. Line(eng', pg', row'.status) BY <2>1 DEF Line
  <2>6. Bookings' BY <2>1, <2>2 DEF Books, Bookings, Unbooked
  <2>7. Paid' BY <1>2, <2>1 DEF Books, Paid, FillIn
  <2> QED BY <2>2, <2>3, <2>4, <2>5, <2>6, <2>7 DEF Books
<1> QED BY <1>3, <1>4

LEMMA BooksInit == Init => Books
<1> SUFFICES ASSUME Init PROVE Books OBVIOUS
<1>1. /\ eng = "Armed" /\ row.status = "none" /\ row.booked = 0 /\ pg = <<>> /\ inbox = <<>> /\ reaper.pc = "idle"
      /\ \A i \in Intents : task[i].pc = "off"
  BY OffTyped, IdleTyped DEF Init
<1> QED BY <1>1 DEF Books, Line, Bookings, Owned, Signed, Sent, Paid, FillIn

LEMMA BooksStep == ASSUME Types, Once, Books, [Next]_vars PROVE Books'
BY EngineBooks, TaskBooks, WritesBooks, ReaperBooks, OutsideBooks DEF Next

\* Under every fault the entry's fill is booked at most once, whoever learns of it
\* first, and only if a buy landed: the sink books while the engine owns the
\* position, the reaper books the row itself only when the engine let go of it.
THEOREM FillBookedOnce == Spec => []BookedOnce
<1>1. Types /\ Books => BookedOnce
  BY DEF Books, Bookings, Paid, BookedOnce, LandsIn, Landed, BuyIds
<1> QED BY <1>1, TypesInit, TypesStep, OnceInit, OnceStep, BooksInit, BooksStep, PTL DEF Spec

-----------------------------------------------------------------------------
(* No stranded buy, when only the fault "untracked" occurs.                *)

Sound == Faults \subseteq {"untracked"}

OverIn(ss, m) == \A b \in 1 .. Len(ss) : ss[b].st # "landed" /\ (ss[b].st = "flying" => m = TRUE)
Over == OverIn(buys, migrated)
NoFlight(ss) == \A b \in 1 .. Len(ss) : ss[b].st # "flying"
ForgotIn(ss) == \A b \in 1 .. Len(ss) :
    ss[b].forgot = TRUE => ss[b].st = "reverted" \/ (ss[b].st = "landed" /\ ss[b].feed = TRUE)
Young == {"none", "BuySubmitted"}
Idle == {"off", "start"}
Resolving == reaper.pc \in {"resolve", "burned", "drop", "tell"}

\* Tasks and reaper exclude each other.
Guarded == /\ \A i \in Intents : task[i].pc \notin Idle => guard = i
           /\ reaper.pc \notin {"idle", "listed"} => guard = Reaper
\* A task at work has its arm waiting, and its row not yet decided.
Working == ~AllRest => eng = "EntryPending" /\ row.status \in Young
\* An answer to the intent in flight is the last word: no task is at work, the
\* reaper is not deciding, and it gives up only when no buy lives or can.
Sure(m, calm, over, status) ==
    /\ calm
    /\ m.what = "Fatal" => over
    /\ m.what = "Reverted" => status \in Young
Current(q, t) == {n \in 1 .. Len(q) : q[n].intent = t}
Answers == eng = "EntryPending" =>
    \A n \in Current(inbox, intent) : Sure(inbox[n], AllRest /\ ~Resolving, Over, row.status)
\* An arm that is not registered was answered by its dispatch.
Refused == eng = "EntryPending" /\ reg = NoOne => Current(inbox, intent) # {}
\* A row not yet decided names every buy, or will.
Named == row.status \in Young => BuyIds \subseteq row.sigs \cup marks
\* What the reaper decides on is all there is, and it is decided on evidence.
Resolved == Resolving =>
    /\ marks = {} /\ pg = <<>> /\ \A i \in Intents : task[i].pc = "off"
    /\ eng = "EntryPending" => Current(inbox, intent) = {}
    /\ reaper.pc # "tell" => row.status = "BuySubmitted" /\ row.sigs = reaper.sigs
    /\ reaper.pc = "burned" => NoFlight(buys)
    /\ reaper.pc \in {"drop", "tell"} => NoneIn(buys)
\* What was given up, or will be by a write on its way, is over.
GivenUp == row.status \in {"EntryFailed", "deleted"} \/ (eng = "Gone" /\ pg # <<>>) => Over
Written == eng = "Gone" /\ pg = <<>> => row.status # "none"

Kept == /\ Guarded /\ Working /\ Answers /\ Refused /\ Named /\ ForgotIn(buys)
        /\ Resolved /\ GivenUp /\ Written

LEMMA NoneIsOver == ASSUME Types, NoneIn(buys) PROVE Over /\ NoFlight(buys)
BY DEF NoneIn, LivesIn, Live, Over, OverIn, NoFlight

LEMMA ForgotQuiet == ASSUME Types, Sound, Quiet(buys, buys'), ForgotIn(buys) PROVE ForgotIn(buys')
<1> SUFFICES ASSUME NEW b \in 1 .. Len(buys'), buys'[b].forgot = TRUE
             PROVE  buys'[b].st = "reverted" \/ (buys'[b].st = "landed" /\ buys'[b].feed = TRUE)
  BY DEF ForgotIn
<1>1. b \in 1 .. Len(buys) /\ Turns(buys[b], buys'[b]) BY DEF Quiet
<1>2. "feed_gap" \notin Faults BY DEF Sound
<1>3. CASE buys[b].forgot = TRUE BY <1>1, <1>3 DEF ForgotIn, Turns
<1> QED BY <1>1, <1>2, <1>3 DEF Turns

\* Nothing lands on a curve that has migrated.
LEMMA ChainLands ==
    ASSUME Types, Chain, NEW b \in BuyIds, buys'[b].st = "landed"
    PROVE  buys[b].st = "landed" \/ ~migrated
<1>1. DOMAIN buys = BuyIds /\ buys[b] \in BuyType BY BuyFields DEF Types, BuyIds
<1>2. CASE Migrate BY <1>2 DEF Migrate
<1>3. ASSUME NEW c \in BuyIds, Lands(c) \/ Reverts(c) \/ Expires(c) \/ Feed(c) \/ Forget(c)
      PROVE  buys[b].st = "landed" \/ ~migrated
  <2>1. CASE b # c
    <3>1. buys'[b] = buys[b] BY <1>1, <1>3, <2>1 DEF Lands, Reverts, Expires, Feed, Forget
    <3> QED BY <3>1
  <2>2. CASE b = c /\ Lands(c) BY <2>2 DEF Lands, CanLand
  <2>3. CASE b = c /\ (Reverts(c) \/ Expires(c))
    <3>1. PICK st \in {"reverted", "dead"} : buys' = [buys EXCEPT ![b].st = st]
      BY <2>3 DEF Reverts, Expires
    <3>2. buys'[b].st = st BY <1>1, <3>1 DEF BuyType
    <3> QED BY <3>1, <3>2
  <2>4. CASE b = c /\ (Feed(c) \/ Forget(c))
    <3>1. buys'[b].st = buys[b].st BY <1>1, <2>4 DEF Feed, Forget, BuyType
    <3> QED BY <3>1
  <2> QED BY <1>3, <2>1, <2>2, <2>3, <2>4
<1> QED BY <1>2, <1>3 DEF Chain

LEMMA OverQuiet ==
    ASSUME Types, Quiet(buys, buys'), migrated => migrated', migrated' \in BOOLEAN,
           \A b \in BuyIds : buys'[b].st = "landed" => buys[b].st = "landed" \/ ~migrated
    PROVE  (Over => Over') /\ (NoFlight(buys) => NoFlight(buys')) /\ (NoneIn(buys) => NoneIn(buys'))
<1>1. Len(buys') = Len(buys) /\ \A b \in 1 .. Len(buys) : Turns(buys[b], buys'[b]) BY DEF Quiet
<1>2. ASSUME Over PROVE Over'
  <2> SUFFICES ASSUME NEW b \in 1 .. Len(buys)
               PROVE  buys'[b].st # "landed" /\ (buys'[b].st = "flying" => migrated' = TRUE)
    BY <1>1 DEF Over, OverIn
  <2>1. buys[b].st # "landed" /\ (buys[b].st = "flying" => migrated = TRUE) BY <1>2 DEF Over, OverIn
  <2>2. buys[b].st = buys'[b].st \/ buys[b].st = "flying" BY <1>1 DEF Turns
  <2> QED BY <2>1, <2>2 DEF BuyIds
<1>3. NoFlight(buys) => NoFlight(buys') BY <1>1 DEF NoFlight, Turns
<1>4. NoneIn(buys) => NoneIn(buys') BY QuietLives DEF NoneIn
<1> QED BY <1>2, <1>3, <1>4

\* The next buy is dispatched: no task at work, no buy alive, no earlier answer
\* that could be taken for one to it.
LEMMA DispatchKept ==
    ASSUME Types, Kept, NEW i \in Intents, NEW rest \in Seq(AnswerType), dispatch_buy(i, rest),
           AllRest, ~Resolving, NoneIn(buys), row.status \in Young,
           eng' = "EntryPending", intent' = i, UNCHANGED <<row, reaper, buys, marks, guard, migrated>>,
           \A n \in 1 .. Len(rest) : rest[n].intent # i
    PROVE  Kept'
<1>1. Over' /\ ~Resolving' /\ row'.status \in Young BY NoneIsOver DEF Over, Resolving
<1>2. Named' /\ ForgotIn(buys') BY DEF Kept, Named, BuyIds
<1>3. Resolved' BY <1>1 DEF Resolved
<1>4. GivenUp' /\ Written' BY <1>1 DEF GivenUp, Written
<1>5. i # NoOne BY DEF Intents, NoOne
<1>6. CASE reg' = i /\ task' = [task EXCEPT ![i] = [pc |-> "start", sig |-> 0]] /\ inbox' = rest
  <2>1. \A j \in Intents : task'[j] = IF j = i THEN [pc |-> "start", sig |-> 0] ELSE task[j]
    BY <1>6 DEF Types
  <2>2. Guarded' BY <2>1 DEF Kept, Guarded, Idle
  <2>3. Current(inbox', i) = {} BY <1>6 DEF Current
  <2>4. Answers' /\ Refused' BY <1>5, <1>6, <2>3 DEF Answers, Refused
  <2>5. Working' BY <1>1 DEF Working
  <2> QED BY <1>2, <1>3, <1>4, <2>2, <2>4, <2>5 DEF Kept
<1>7. CASE inbox' = Append(rest, Answer(i, "Fatal")) /\ UNCHANGED <<reg, task>>
  <2>1. PICK x \in AnswerType : x = Answer(i, "Fatal") /\ x.intent = i /\ x.what = "Fatal"
    BY AnswerTyped
  <2>2. inbox' = Append(rest, x) BY <1>7, <2>1
  <2>3. /\ \A n \in 1 .. Len(inbox') : (n \in 1 .. Len(rest) /\ inbox'[n] = rest[n]) \/ inbox'[n] = x
        /\ Len(rest) + 1 \in 1 .. Len(inbox') /\ inbox'[Len(rest) + 1] = x
    BY <2>2
  <2>4. \A n \in Current(inbox', i) : inbox'[n] = x BY <2>3 DEF Current
  <2>5. Len(rest) + 1 \in Current(inbox', i) BY <2>1, <2>3 DEF Current
  <2>6. AllRest' BY <1>7 DEF AllRest
  <2>7. Answers' BY <1>1, <2>1, <2>4, <2>6 DEF Answers, Sure
  <2>8. Refused' BY <2>5 DEF Refused
  <2>9. Guarded' /\ Working' BY <1>7, <2>6 DEF Kept, Guarded, Working
  <2> QED BY <1>2, <1>3, <1>4, <2>7, <2>8, <2>9 DEF Kept
<1> QED BY <1>6, <1>7 DEF dispatch_buy

LEMMA EngineKept == ASSUME Types, Once, Books, Kept, Engine PROVE Kept'
<1>1. /\ UNCHANGED <<row, reaper, buys, marks, guard, migrated>>
      /\ inbox \in Seq(AnswerType) /\ intent \in Nat /\ pg \in Seq(WriteKinds)
  BY DEF Engine, Enter, FoldFilled, FoldRetry, FoldGiveUp, FoldStale, Stop, taskVars, dbVars, chainVars, Types
<1>2. Named' /\ ForgotIn(buys') /\ Over' = Over /\ Resolving' = Resolving
  BY <1>1 DEF Kept, Named, BuyIds, Over, Resolving
<1>3. CASE Enter
  <2>1. eng = "Armed" /\ eng' = "EntryPending" /\ intent' = 1 /\ dispatch_buy(1, inbox)
    BY <1>3 DEF Enter
  <2>2. buys = <<>> /\ inbox = <<>> /\ AllRest BY <2>1 DEF Once, Before, AllRest, Resting
  <2>3. row.status = "none" /\ ~Resolving BY <2>1 DEF Books, Line, Resolving
  <2>4. NoneIn(buys) BY <2>2 DEF NoneIn, LivesIn
  <2>5. 1 \in Intents BY RealEntryAssumption DEF Intents
  <2>6. \A n \in 1 .. Len(inbox) : inbox[n].intent # 1 BY <2>2
  <2> QED BY <1>1, <2>1, <2>2, <2>3, <2>4, <2>5, <2>6, DispatchKept DEF Young
<1>4. ASSUME NEW w, IsAnswer(w)
      PROVE  /\ inbox # <<>> /\ eng = "EntryPending" /\ AllRest /\ ~Resolving
             /\ w = "Fatal" => Over
             /\ w = "Reverted" => NoneIn(buys) /\ row.status \in Young
  <2>1. inbox # <<>> /\ eng = "EntryPending" /\ Head(inbox) = Answer(intent, w) BY <1>4 DEF IsAnswer
  <2>2. 1 \in 1 .. Len(inbox) /\ inbox[1] = Answer(intent, w) BY <1>1, <2>1
  <2>3. inbox[1].intent = intent /\ inbox[1].what = w BY <2>2 DEF Answer
  <2>4. 1 \in Current(inbox, intent) BY <2>2, <2>3 DEF Current
  <2>5. Sure(inbox[1], AllRest /\ ~Resolving, Over, row.status) BY <2>1, <2>4 DEF Kept, Answers
  <2>6. Asked(inbox[1], intent, Calm) BY <2>2 DEF Once, Queued
  <2>7. w = "Reverted" => Calm BY <2>3, <2>6 DEF Asked
  <2> QED BY <2>1, <2>3, <2>5, <2>7 DEF Sure, Calm
<1>5. CASE FoldRetry
  <2>1. /\ IsAnswer("Reverted") /\ intent < MaxEntryAttempts /\ intent' = intent + 1
        /\ dispatch_buy(intent + 1, Tail(inbox)) /\ UNCHANGED eng
    BY <1>5 DEF FoldRetry, AttemptsLeft
  <2>2. intent + 1 \in Intents BY <1>1, <2>1, RealEntryAssumption DEF Intents
  <2>3. inbox # <<>> /\ eng' = "EntryPending" /\ AllRest /\ ~Resolving /\ NoneIn(buys) /\ row.status \in Young
    BY <1>4, <2>1
  <2>4. Len(Tail(inbox)) = Len(inbox) - 1 /\ \A n \in 1 .. Len(Tail(inbox)) : Tail(inbox)[n] = inbox[n + 1]
    BY <1>1, <2>3
  <2>5. ASSUME NEW n \in 1 .. Len(Tail(inbox)) PROVE Tail(inbox)[n].intent # intent + 1
    <3>1. n + 1 \in 1 .. Len(inbox) /\ Tail(inbox)[n] = inbox[n + 1] BY <1>1, <2>4
    <3>2. Asked(inbox[n + 1], intent, Calm) BY <3>1 DEF Once, Queued
    <3>3. inbox[n + 1] \in AnswerType BY <1>1, <3>1
    <3>4. inbox[n + 1].intent \in Nat BY <3>3 DEF AnswerType, Intents
    <3> QED BY <1>1, <3>1, <3>2, <3>4 DEF Asked
  <2>6. Tail(inbox) \in Seq(AnswerType) BY <1>1, <2>3, TailTyped
  <2> QED BY <1>1, <2>1, <2>2, <2>3, <2>5, <2>6, DispatchKept
<1>6. ASSUME UNCHANGED <<task>>, AllRest, ~Resolving, eng' \in {"Entered", "Gone"},
             eng' = "Gone" => Over /\ pg' # <<>>
      PROVE  Kept'
  <2>1. Guarded' BY <1>1, <1>6 DEF Kept, Guarded
  <2>2. Working' BY <1>6 DEF Working, AllRest
  <2>3. Answers' /\ Refused' BY <1>6 DEF Answers, Refused
  <2>4. Resolved' BY <1>2, <1>6 DEF Resolved
  <2>5. GivenUp' /\ Written' BY <1>1, <1>2, <1>6 DEF Kept, GivenUp, Written
  <2> QED BY <1>2, <2>1, <2>2, <2>3, <2>4, <2>5 DEF Kept
<1>7. CASE FoldFilled
  <2>1. IsAnswer("Filled") /\ eng' = "Entered" /\ UNCHANGED task BY <1>7 DEF FoldFilled, taskVars
  <2> QED BY <1>4, <1>6, <2>1
<1>8. CASE FoldGiveUp \/ Stop
  <2>1. eng' = "Gone" /\ pg' = Append(pg, "failed") /\ UNCHANGED task
    BY <1>8 DEF FoldGiveUp, Stop, on_entry_failed, taskVars
  <2>2. pg' # <<>> BY <1>1, <2>1
  <2>3. AllRest /\ ~Resolving /\ Over
    <3>1. CASE FoldGiveUp
      <4>1. IsAnswer("Reverted") \/ IsAnswer("Fatal") BY <3>1 DEF FoldGiveUp
      <4> QED BY <1>4, <4>1, NoneIsOver
    <3>2. CASE Stop
      <4>1. eng = "EntryPending" /\ reg = NoOne BY <3>2 DEF Stop, real_buy_in_flight
      <4>2. buys = <<>> BY <4>1 DEF Books, Owned
      <4>3. NoneIn(buys) BY <4>2 DEF NoneIn, LivesIn
      <4>4. PICK n : n \in Current(inbox, intent) BY <4>1 DEF Kept, Refused
      <4>5. Sure(inbox[n], AllRest /\ ~Resolving, Over, row.status) BY <4>1, <4>4 DEF Kept, Answers
      <4> QED BY <4>3, <4>5, NoneIsOver DEF Sure
    <3> QED BY <1>8, <3>1, <3>2
  <2> QED BY <1>6, <2>1, <2>2, <2>3
<1>9. CASE FoldStale
  <2>1. /\ inbox # <<>> /\ ~(eng = "EntryPending" /\ Head(inbox).intent = intent) /\ inbox' = Tail(inbox)
        /\ UNCHANGED <<eng, intent, reg, task, pg>>
    BY <1>9 DEF FoldStale, engVars, taskVars, dbVars
  <2>2. Len(inbox') = Len(inbox) - 1 /\ \A n \in 1 .. Len(inbox') : inbox'[n] = inbox[n + 1] /\ n + 1 \in 1 .. Len(inbox)
    BY <1>1, <2>1
  <2>3. AllRest' = AllRest BY <2>1 DEF AllRest
  <2>4. Answers'
    <3> SUFFICES ASSUME eng = "EntryPending", NEW n \in Current(inbox', intent)
                 PROVE  Sure(inbox'[n], AllRest /\ ~Resolving, Over, row.status)
      BY <1>1, <1>2, <2>1, <2>3 DEF Answers
    <3>1. n \in 1 .. Len(inbox') BY DEF Current
    <3>2. inbox'[n] = inbox[n + 1] /\ n + 1 \in Current(inbox, intent) BY <2>2, <3>1 DEF Current
    <3> QED BY <3>2 DEF Kept, Answers
  <2>5. Refused'
    <3> SUFFICES ASSUME eng = "EntryPending", reg = NoOne PROVE Current(inbox', intent) # {}
      BY <2>1 DEF Refused
    <3>1. PICK n \in 1 .. Len(inbox) : inbox[n].intent = intent BY DEF Kept, Refused, Current
    <3>2. n # 1 BY <1>1, <2>1, <3>1
    <3>3. n - 1 \in 1 .. Len(inbox') /\ (n - 1) + 1 = n BY <1>1, <2>2, <3>1, <3>2
    <3>4. inbox'[n - 1] = inbox[n] BY <2>2, <3>3
    <3>5. n - 1 \in Current(inbox', intent) BY <3>1, <3>3, <3>4 DEF Current
    <3> QED BY <3>5
  <2>6. eng = "EntryPending" /\ Current(inbox, intent) = {} => Current(inbox', intent) = {}
    BY <2>2 DEF Current
  <2>7. Resolved' BY <1>1, <1>2, <2>1, <2>6 DEF Kept, Resolved
  <2>8. Guarded' /\ Working' BY <1>1, <2>1, <2>3 DEF Kept, Guarded, Working
  <2>9. GivenUp' /\ Written' BY <1>1, <1>2, <2>1 DEF Kept, GivenUp, Written
  <2> QED BY <1>2, <2>4, <2>5, <2>7, <2>8, <2>9 DEF Kept
<1> QED BY <1>3, <1>5, <1>7, <1>8, <1>9 DEF Engine

\* A task at work keeps the reaper out and no answer to its intent is unread.
LEMMA AtWork ==
    ASSUME Types, Once, Kept, NEW i \in Intents, task[i].pc \notin Resting
    PROVE  /\ eng = "EntryPending" /\ intent = i /\ row.status \in Young /\ ~Resolving
           /\ Current(inbox, intent) = {} /\ ~AllRest
           /\ \A j \in Intents : j # i => task[j].pc \in Resting
<1>1. ~AllRest BY DEF AllRest
<1>2. eng = "EntryPending" /\ row.status \in Young BY <1>1 DEF Kept, Working
<1>3. Current(inbox, intent) = {} BY <1>1, <1>2 DEF Kept, Answers, Sure
<1>4. ~Resolving BY DEF Kept, Resolved, Resting
<1> QED BY <1>1, <1>2, <1>3, <1>4, Alone

LEMMA TaskKept == ASSUME Types, Once, Books, Kept, Sound, NEW i \in Intents, run_entry(i) PROVE Kept'
<1>1. UNCHANGED <<eng, intent, reg, row, pg, reaper, migrated>> /\ inbox \in Seq(AnswerType)
  BY TaskShape DEF TaskStill, on_signed, engVars, Types
<1>2. Resolving' = Resolving BY <1>1 DEF Resolving
<1>3. CASE on_signed(i)
  <2>1. /\ task[i].pc = "claimed" /\ task' = [task EXCEPT ![i] = [pc |-> "early", sig |-> Len(buys) + 1]]
        /\ marks' = marks \cup {Len(buys) + 1} /\ UNCHANGED <<inbox, guard>>
    BY <1>3 DEF on_signed, NothingToAdopt, At
  <2>2. /\ Len(buys') = Len(buys) + 1 /\ \A b \in BuyIds : buys'[b] = buys[b]
        /\ buys'[Len(buys) + 1].forgot = FALSE
    BY <1>3, SignedBuys
  <2>3. Len(buys) \in Nat BY DEF Types
  <2>4. /\ eng = "EntryPending" /\ row.status \in Young /\ ~Resolving /\ Current(inbox, intent) = {}
    BY <2>1, AtWork DEF Resting
  <2>5. \A j \in Intents : j # i => task'[j] = task[j] BY <2>1 DEF Types
  <2>6. task[i].pc \notin Idle BY <2>1 DEF Idle
  <2>7. Guarded' BY <1>1, <2>1, <2>5, <2>6 DEF Kept, Guarded
  <2>8. Working' BY <1>1, <2>4 DEF Working
  <2>9. Answers' BY <1>1, <2>1, <2>4 DEF Answers
  <2>10. Refused' BY <1>1, <2>1 DEF Kept, Refused
  <2>11. Named'
    <3>1. BuyIds' = BuyIds \cup {Len(buys) + 1} BY <2>2, <2>3 DEF BuyIds
    <3> QED BY <1>1, <2>1, <3>1 DEF Kept, Named
  <2>12. ForgotIn(buys')
    <3>1. \A b \in 1 .. Len(buys') : (b \in BuyIds /\ buys'[b] = buys[b]) \/ b = Len(buys) + 1
      BY <2>2, <2>3 DEF BuyIds
    <3> QED BY <2>2, <3>1 DEF Kept, ForgotIn, BuyIds
  <2>13. Resolved' BY <1>2, <2>4 DEF Resolved
  <2>14. GivenUp' /\ Written' BY <1>1, <2>4 DEF GivenUp, Written, Young
  <2> QED BY <2>7, <2>8, <2>9, <2>10, <2>11, <2>12, <2>13, <2>14 DEF Kept
<1>4. ASSUME TaskStill, Guarded', AllRest => AllRest', Answers', Refused',
             Resolving => \A j \in Intents : task'[j].pc = "off",
             eng = "EntryPending" /\ Current(inbox, intent) = {} /\ Resolving => Current(inbox', intent) = {}
      PROVE  Kept'
  <2>1. UNCHANGED <<eng, intent, reg, row, pg, marks, buys, migrated, reaper>> BY <1>4 DEF TaskStill
  <2>2. Named' /\ ForgotIn(buys') /\ GivenUp' /\ Written'
    BY <2>1 DEF Kept, Named, BuyIds, GivenUp, Written, Over
  <2>3. Working' BY <1>4, <2>1 DEF Kept, Working
  <2>4. Resolved' BY <1>2, <1>4, <2>1 DEF Kept, Resolved
  <2> QED BY <1>4, <2>2, <2>3, <2>4 DEF Kept
<1>5. ASSUME TaskStill, task[i].pc \notin Resting, inbox' = inbox, Guarded'
      PROVE  Kept'
  <2>1. ~Resolving /\ Current(inbox, intent) = {} /\ ~AllRest BY <1>5, AtWork
  <2>2. Answers' /\ Refused' BY <1>1, <1>5, <2>1 DEF Kept, Answers, Refused
  <2> QED BY <1>4, <1>5, <2>1, <2>2
<1>6. ASSUME TaskStill, task[i].pc \notin Resting, Guarded',
             task'[i].pc \in Resting, \A j \in Intents : j # i => task'[j] = task[j],
             NEW w \in {"Filled", "Reverted", "Fatal"}, inbox' = Append(inbox, Answer(i, w)),
             w = "Fatal" => Over
      PROVE  Kept'
  <2>1. /\ intent = i /\ row.status \in Young /\ ~Resolving /\ Current(inbox, intent) = {} /\ ~AllRest
        /\ \A j \in Intents : j # i => task[j].pc \in Resting
    BY <1>6, AtWork
  <2>2. AllRest' BY <1>6, <2>1 DEF AllRest
  <2>3. PICK x \in AnswerType : x = Answer(i, w) /\ x.intent = i /\ x.what = w BY AnswerTyped
  <2>4. inbox' = Append(inbox, x) BY <1>6, <2>3
  <2>5. /\ \A n \in 1 .. Len(inbox') : (n \in 1 .. Len(inbox) /\ inbox'[n] = inbox[n]) \/ inbox'[n] = x
        /\ Len(inbox) + 1 \in 1 .. Len(inbox') /\ inbox'[Len(inbox) + 1] = x
    BY <1>1, <2>4
  <2>6. \A n \in Current(inbox', intent) : inbox'[n] = x BY <2>1, <2>5 DEF Current
  <2>7. Over' = Over BY <1>6 DEF TaskStill, Over
  <2>8. Answers' BY <1>1, <1>2, <1>6, <2>1, <2>2, <2>3, <2>6, <2>7 DEF Answers, Sure
  <2>9. Len(inbox) + 1 \in Current(inbox', intent) BY <2>1, <2>3, <2>5 DEF Current
  <2>10. Refused' BY <1>1, <2>9 DEF Refused
  <2> QED BY <1>4, <1>6, <2>1, <2>2, <2>8, <2>10
<1>7. CASE TaskStill /\ ClaimStep(i)
  <2>1. task'[i].pc = "claimed" /\ \A j \in Intents : j # i => task'[j] = task[j]
    BY <1>7, PointsOf DEF ClaimStep
  <2>2. guard = NoOne /\ guard' = i /\ inbox' = inbox /\ task[i].pc = "start" BY <1>7 DEF ClaimStep
  <2>3. NoOne \notin Intents /\ NoOne # Reaper BY RealEntryAssumption DEF NoOne, Intents, Reaper
  <2>4. Guarded' BY <1>1, <2>1, <2>2, <2>3 DEF Kept, Guarded
  <2> QED BY <1>5, <1>7, <2>2, <2>4 DEF Resting
<1>8. CASE TaskStill /\ RefuseStep(i)
  <2>1. PICK w \in {"Reverted", "Fatal"} : inbox' = Append(inbox, Answer(i, w)) BY <1>8 DEF RefuseStep
  <2>2. task'[i].pc = "off" /\ \A j \in Intents : j # i => task'[j] = task[j]
    BY <1>8, OffOf DEF RefuseStep
  <2>3. task[i].pc = "start" /\ guard' = guard BY <1>8 DEF RefuseStep
  <2>4. Guarded' BY <1>1, <2>2, <2>3 DEF Kept, Guarded, Idle
  <2>5. NoneIn(buys) BY <2>3 DEF Once, Clear
  <2>6. Over BY <2>5, NoneIsOver
  <2> QED BY <1>6, <1>8, <2>1, <2>2, <2>3, <2>4, <2>6 DEF Resting
<1>9. CASE TaskStill /\ ReplyStep(i)
  <2>1. task'[i].pc = "leaving" /\ \A j \in Intents : j # i => task'[j] = task[j]
    BY <1>9, PointsOf DEF ReplyStep
  <2>2. "migrated_unseen" \notin Faults BY DEF Sound
  <2>3. PICK w \in {"Filled", "Reverted", "Fatal"} :
          /\ inbox' = Append(inbox, Answer(i, w))
          /\ w = "Fatal" => \/ task[i].pc = "claimed"
                            \/ task[i].pc \in Sent /\ Reverted(task[i].sig)
                            \/ task[i].pc \in Sent /\ migrated /\ ~Landed(task[i].sig)
    BY <1>9, <2>2 DEF ReplyStep
  <2>4. w = "Fatal" => Over
    <3>1. ASSUME task[i].pc = "claimed" PROVE Over
      <4>1. NoneIn(buys) BY <3>1 DEF Once, Clear
      <4> QED BY <4>1, NoneIsOver
    <3>2. ASSUME task[i].pc \in Sent, Reverted(task[i].sig) \/ (migrated /\ ~Landed(task[i].sig)) PROVE Over
      <4>1. LivesIn(buys) \subseteq {task[i].sig} BY <3>2 DEF Once, Clear
      <4> SUFFICES ASSUME NEW b \in 1 .. Len(buys)
                   PROVE  buys[b].st # "landed" /\ (buys[b].st = "flying" => migrated = TRUE)
        BY DEF Over, OverIn
      <4>2. buys[b].st \in Live => b = task[i].sig BY <4>1 DEF LivesIn
      <4> QED BY <3>2, <4>2 DEF Live, Reverted, Landed, Types
    <3> QED BY <2>3, <3>1, <3>2
  <2>5. task[i].pc \notin Idle \cup Resting /\ guard' = guard BY <1>9 DEF ReplyStep, Sent, Idle, Resting
  <2>6. Guarded' BY <1>1, <2>1, <2>5 DEF Kept, Guarded
  <2> QED BY <1>6, <1>9, <2>1, <2>3, <2>4, <2>5, <2>6 DEF Resting
<1>10. CASE TaskStill /\ WaitStep(i)
  <2>1. PICK pc \in {"window", "ended", "extended", "leaving"} : task' = [task EXCEPT ![i].pc = pc]
    BY <1>10 DEF WaitStep
  <2>2. \A j \in Intents : j # i => task'[j] = task[j] BY <2>1, PointsOf
  <2>3. task[i].pc \notin Idle \cup Resting /\ guard' = guard /\ inbox' = inbox
    BY <1>10 DEF WaitStep, Sent, Idle, Resting
  <2>4. Guarded' BY <1>1, <2>2, <2>3 DEF Kept, Guarded
  <2> QED BY <1>5, <1>10, <2>3, <2>4
<1>11. CASE TaskStill /\ LeaveStep(i)
  <2>1. task'[i].pc = "off" /\ \A j \in Intents : j # i => task'[j] = task[j]
    BY <1>11, OffOf DEF LeaveStep
  <2>2. task[i].pc = "leaving" /\ inbox' = inbox BY <1>11 DEF LeaveStep
  <2>3. guard = i BY <2>2 DEF Kept, Guarded, Idle
  <2>4. i # Reaper BY RealEntryAssumption DEF Intents, Reaper
  <2>5. Guarded' BY <1>1, <2>1, <2>3, <2>4 DEF Kept, Guarded, Idle
  <2>6. AllRest => AllRest' BY <2>1 DEF AllRest, Resting
  <2>7. UNCHANGED <<buys, migrated>> BY <1>11 DEF TaskStill
  <2>8. Answers' BY <1>1, <1>2, <2>2, <2>6, <2>7 DEF Kept, Answers, Sure, Over
  <2>9. Refused' BY <1>1, <2>2 DEF Kept, Refused
  <2>10. ~Resolving BY <2>2 DEF Kept, Resolved
  <2> QED BY <1>4, <1>11, <2>5, <2>6, <2>8, <2>9, <2>10
<1> QED BY <1>3, <1>7, <1>8, <1>9, <1>10, <1>11, TaskShape

LEMMA WritesKept == ASSUME Types, Once, Books, Kept, Sound, Writes PROVE Kept'
<1>1. UNCHANGED <<eng, intent, reg, inbox, task, guard, buys, migrated, reaper>>
  BY DEF Writes, Ages, PgInsert, record_entry_fill, mark_entry_failed, mark_buy_submitted, MarkLost,
         engVars, taskVars, chainVars
<1>2. Guarded' /\ Refused' /\ ForgotIn(buys') BY <1>1 DEF Kept, Guarded, Refused
<1>3. AllRest' = AllRest /\ Resolving' = Resolving /\ Over' = Over /\ BuyIds' = BuyIds
  BY <1>1 DEF AllRest, Resolving, Over, BuyIds
<1>4. row \in RowType BY DEF Types
<1>5. ASSUME row'.status = row.status, pg' = pg, row'.sigs \cup marks' = row.sigs \cup marks,
             Resolving => row'.sigs = row.sigs /\ marks' = marks
      PROVE  Kept'
  <2>1. Working' /\ Answers' BY <1>1, <1>3, <1>5 DEF Kept, Working, Answers
  <2>2. Named' BY <1>3, <1>5 DEF Kept, Named
  <2>3. Resolved' BY <1>1, <1>3, <1>5 DEF Kept, Resolved
  <2>4. GivenUp' /\ Written' BY <1>1, <1>3, <1>5 DEF Kept, GivenUp, Written
  <2> QED BY <1>2, <2>1, <2>2, <2>3, <2>4 DEF Kept
<1>6. CASE Ages
  <2>1. row'.status = row.status /\ row'.sigs = row.sigs /\ pg' = pg /\ marks' = marks
    BY <1>4, <1>6 DEF Ages, RowType
  <2> QED BY <1>5, <2>1
<1>7. ASSUME NEW b \in marks, mark_buy_submitted(b) \/ MarkLost(b) PROVE Kept'
  <2>1. "lost_mark" \notin Faults BY DEF Sound
  <2>2. /\ row.status # "none" /\ marks' = marks \ {b} /\ pg' = pg
        /\ row' = IF row.status = "BuySubmitted" THEN [row EXCEPT !.sigs = @ \cup {b}, !.old = FALSE]
                                                  ELSE row
    BY <1>7, <2>1 DEF mark_buy_submitted, MarkLost
  <2>3. ~Resolving BY DEF Kept, Resolved
  <2>4. CASE row.status = "BuySubmitted"
    <3>1. row'.status = row.status /\ row'.sigs = row.sigs \cup {b} BY <1>4, <2>2, <2>4 DEF RowType
    <3>2. row'.sigs \cup marks' = row.sigs \cup marks BY <2>2, <3>1
    <3> QED BY <1>5, <2>2, <2>3, <3>1, <3>2
  <2>5. CASE row.status # "BuySubmitted"
    <3>1. row' = row /\ row.status \notin Young BY <2>2, <2>5 DEF Young
    <3>2. Working' /\ Answers' /\ Named' BY <1>1, <1>3, <3>1 DEF Kept, Working, Answers, Named
    <3>3. Resolved' BY <1>3, <2>3 DEF Resolved
    <3>4. GivenUp' /\ Written' BY <1>1, <1>3, <2>2, <3>1 DEF Kept, GivenUp, Written
    <3> QED BY <1>2, <3>2, <3>3, <3>4 DEF Kept
  <2> QED BY <2>4, <2>5
<1>8. ASSUME pg # <<>>, UNCHANGED marks, row'.sigs = row.sigs,
             row.status \in Young /\ eng = "EntryPending" => row'.status \in Young,
             row'.status \in Young => row.status \in Young,
             row'.status # "none",
             row'.status \in {"EntryFailed", "deleted"} => row.status = row'.status \/ eng = "Gone",
             pg' # <<>> => pg # <<>>
      PROVE  Kept'
  <2>1. ~Resolving BY <1>8 DEF Kept, Resolved
  <2>2. Working' BY <1>1, <1>3, <1>8 DEF Kept, Working
  <2>3. Answers' BY <1>1, <1>3, <1>8 DEF Kept, Answers, Sure
  <2>4. Named' BY <1>3, <1>8 DEF Kept, Named
  <2>5. Resolved' BY <1>3, <2>1 DEF Resolved
  <2>6. GivenUp' BY <1>1, <1>3, <1>8 DEF Kept, GivenUp
  <2>7. Written' BY <1>8 DEF Written
  <2> QED BY <1>2, <2>2, <2>3, <2>4, <2>5, <2>6, <2>7 DEF Kept
<1>9. CASE PgInsert
  <2>1. /\ pg # <<>> /\ Head(pg) = "insert" /\ UNCHANGED marks
        /\ row' = [row EXCEPT !.status = "BuySubmitted"]
    BY <1>9 DEF PgInsert
  <2>2. row'.status = "BuySubmitted" /\ row'.sigs = row.sigs BY <1>4, <2>1 DEF RowType
  <2>3. row.status = "none" BY <2>1, Pending DEF Books, Line, WriteKinds
  <2> QED BY <1>8, <2>1, <2>2, <2>3 DEF Young
<1>10. CASE record_entry_fill
  <2>1. /\ pg # <<>> /\ Head(pg) = "holding" /\ UNCHANGED marks
        /\ row' = IF Exists THEN BookEntry ELSE row
    BY <1>10 DEF record_entry_fill
  <2>2. eng = "Entered" /\ row.status # "none" BY <2>1, Pending DEF Books, Line, WriteKinds
  <2>3. row'.sigs = row.sigs /\ (row'.status = "Holding" \/ (row' = row /\ row.status = "deleted"))
    BY <1>4, <2>1, <2>2 DEF RowType, BookEntry, Exists
  <2> QED BY <1>8, <2>1, <2>2, <2>3 DEF Young
<1>11. CASE mark_entry_failed
  <2>1. /\ pg # <<>> /\ Head(pg) = "failed" /\ UNCHANGED marks
        /\ row' = IF Exists THEN [row EXCEPT !.status = "EntryFailed"] ELSE row
    BY <1>11 DEF mark_entry_failed
  <2>2. eng = "Gone" /\ row.status # "none" BY <2>1, Pending DEF Books, Line, WriteKinds
  <2>3. row'.sigs = row.sigs /\ (row'.status = "EntryFailed" \/ row' = row)
    BY <1>4, <2>1 DEF RowType
  <2> QED BY <1>8, <2>1, <2>2, <2>3 DEF Young
<1> QED BY <1>6, <1>7, <1>9, <1>10, <1>11 DEF Writes

\* The evidence for a drop: with every mark in the row, its signatures are all
\* the buys there are, and each of them reverted or is dead.
LEMMA DropIsSafe ==
    ASSUME Types, Kept, Resolving, reaper.pc # "tell",
           \/ reaper.pc = "resolve" /\ (NeverMarked \/ AllReverted)
           \/ reaper.pc = "burned" /\ NeverLanded
    PROVE  NoneIn(buys)
<1>1. BuyIds \subseteq reaper.sigs
  BY DEF Kept, Resolved, Named, Young
<1> SUFFICES ASSUME NEW b \in 1 .. Len(buys), buys[b].st \in Live PROVE FALSE BY DEF NoneIn, LivesIn
<1>2. b \in reaper.sigs BY <1>1 DEF BuyIds
<1>3. buys[b].forgot \in BOOLEAN /\ buys[b].feed \in BOOLEAN BY BuyFields DEF BuyIds
<1>4. CASE reaper.pc = "resolve" /\ (NeverMarked \/ AllReverted)
  BY <1>2, <1>4 DEF NeverMarked, AllReverted, Reverted, Live
<1>5. CASE reaper.pc = "burned" /\ NeverLanded
  <2>1. buys[b].st # "flying" BY <1>5 DEF Kept, Resolved, NoFlight
  <2>2. buys[b].st = "landed" BY <2>1 DEF Live
  <2>3. buys[b].forgot = TRUE /\ buys[b].feed = FALSE
    BY <1>2, <1>3, <1>5, <2>2 DEF NeverLanded, OnFeed, Landed
  <2> QED BY <2>2, <2>3 DEF Kept, ForgotIn
<1> QED BY <1>4, <1>5

LEMMA ReaperKept ==
    ASSUME Types, Once, Books, Kept, Sound, redrive_orphaned_buy_submitted PROVE Kept'
<1>1. UNCHANGED <<eng, intent, reg, task, pg, marks, migrated>> /\ inbox \in Seq(AnswerType)
  BY DEF redrive_orphaned_buy_submitted, find_all_buy_submitted, ReaperSkips, try_begin_entry,
         resolve_buy_submitted, AdoptToEngine, AdoptRow, ResolveDrop, ResolveBurn, ResolveDead,
         ResolveWait, DropRow, DropTell, ReaperLeaves, OnlyReaper, engVars, Types
<1>2. buys' = buys \/ ResolveBurn
  BY DEF redrive_orphaned_buy_submitted, find_all_buy_submitted, ReaperSkips, try_begin_entry,
         resolve_buy_submitted, AdoptToEngine, AdoptRow, ResolveDrop, ResolveDead,
         ResolveWait, DropRow, DropTell, ReaperLeaves
<1>3. /\ BuyIds' = BuyIds /\ ForgotIn(buys') /\ (Over => Over')
      /\ (NoFlight(buys) => NoFlight(buys')) /\ (NoneIn(buys) => NoneIn(buys'))
  <2>1. Quiet(buys, buys') BY <1>2, BurnQuiet, SameQuiet
  <2>2. \A b \in BuyIds : buys'[b].st = "landed" => buys[b].st = "landed" BY <1>2, BurnQuiet
  <2>3. migrated' \in BOOLEAN /\ (migrated => migrated') BY <1>1 DEF Types
  <2> QED BY <2>1, <2>2, <2>3, ForgotQuiet, OverQuiet DEF Quiet, BuyIds, Kept
<1>4. AllRest' = AllRest BY <1>1 DEF AllRest
<1>5. reaper \in ReaperType /\ row \in RowType BY DEF Types
<1>6. ASSUME UNCHANGED <<row, inbox>>, Guarded', Resolved',
             ~Resolving' \/ eng # "EntryPending" \/ Current(inbox, intent) = {}
      PROVE  Kept'
  <2>1. Working' /\ Refused' /\ Named' BY <1>1, <1>3, <1>4, <1>6 DEF Kept, Working, Refused, Named
  <2>2. Answers' BY <1>1, <1>3, <1>4, <1>6 DEF Kept, Answers, Sure
  <2>3. GivenUp' /\ Written' BY <1>1, <1>3, <1>6 DEF Kept, GivenUp, Written
  <2> QED BY <1>3, <1>6, <2>1, <2>2, <2>3 DEF Kept
<1>7. NoOne \notin Intents /\ NoOne # Reaper /\ Reaper \notin Intents
  BY RealEntryAssumption DEF NoOne, Intents, Reaper
<1>8. CASE find_all_buy_submitted
  <2>1. /\ reaper.pc = "idle" /\ reaper' = [pc |-> "listed", sigs |-> row.sigs, old |-> row.old]
        /\ UNCHANGED <<inbox, row, guard>>
    BY <1>8 DEF find_all_buy_submitted
  <2>2. Guarded' BY <1>1, <2>1 DEF Kept, Guarded
  <2>3. ~Resolving' BY <2>1 DEF Resolving
  <2> QED BY <1>6, <2>1, <2>2, <2>3 DEF Resolved
<1>9. CASE ReaperSkips
  <2>1. reaper' = IdleReaper /\ UNCHANGED <<inbox, row, guard>> BY <1>9 DEF ReaperSkips
  <2>2. Guarded' BY <1>1, <2>1, IdleTyped DEF Kept, Guarded
  <2>3. ~Resolving' BY <2>1, IdleTyped DEF Resolving
  <2> QED BY <1>6, <2>1, <2>2, <2>3 DEF Resolved
<1>10. CASE ReaperLeaves
  <2>1. /\ reaper.pc = "leaving" /\ guard' = NoOne /\ reaper' = IdleReaper /\ UNCHANGED <<inbox, row>>
    BY <1>10 DEF ReaperLeaves
  <2>2. guard = Reaper BY <2>1 DEF Kept, Guarded
  <2>3. Guarded' BY <1>1, <1>7, <2>1, <2>2, IdleTyped DEF Kept, Guarded
  <2>4. ~Resolving' BY <2>1, IdleTyped DEF Resolving
  <2> QED BY <1>6, <2>1, <2>3, <2>4 DEF Resolved
<1>11. CASE try_begin_entry
  <2>1. "stale_copy" \notin Faults /\ "overlap" \notin Faults BY DEF Sound
  <2>2. /\ guard = NoOne /\ CopyIsFresh /\ Settled /\ guard' = Reaper
        /\ reaper' = [reaper EXCEPT !.pc = "resolve"] /\ UNCHANGED <<inbox, row>>
    BY <1>11, <2>1 DEF try_begin_entry
  <2>3. reaper'.pc = "resolve" /\ reaper'.sigs = reaper.sigs BY <1>5, <2>2 DEF ReaperType
  <2>4. \A i \in Intents : task[i].pc = "off"
    BY <1>7, <2>2 DEF Kept, Guarded, Settled, NoneStarting, Idle
  <2>5. Guarded' BY <1>1, <2>2, <2>4 DEF Guarded, Idle
  <2>6. Current(inbox, intent) = {} BY <2>2 DEF Settled, Current
  <2>7. Resolved' BY <1>1, <2>2, <2>3, <2>4, <2>6 DEF Resolved, CopyIsFresh, Settled
  <2> QED BY <1>6, <2>2, <2>5, <2>6, <2>7
<1>12. ASSUME Resolving, reaper.pc # "tell", UNCHANGED <<inbox, row, guard>>,
              NEW pc \in {"burned", "drop", "leaving"}, reaper' = [reaper EXCEPT !.pc = pc],
              pc = "burned" => NoFlight(buys'), pc = "drop" => NoneIn(buys')
       PROVE  Kept'
  <2>1. reaper'.pc = pc /\ reaper'.sigs = reaper.sigs BY <1>5, <1>12 DEF ReaperType
  <2>2. Guarded' BY <1>1, <1>12, <2>1 DEF Kept, Guarded, Resolving
  <2>3. eng # "EntryPending" \/ Current(inbox, intent) = {} BY <1>12 DEF Kept, Resolved
  <2>4. Resolved' BY <1>1, <1>12, <2>1 DEF Kept, Resolved, Resolving
  <2> QED BY <1>6, <1>12, <2>2, <2>3, <2>4
<1>13. CASE ResolveWait
  <2>1. /\ reaper.pc \in {"resolve", "burned"} /\ reaper' = [reaper EXCEPT !.pc = "leaving"]
        /\ UNCHANGED <<inbox, row, guard>>
    BY <1>13 DEF ResolveWait
  <2> QED BY <1>12, <2>1 DEF Resolving
<1>14. CASE ResolveDrop \/ ResolveDead
  <2>1. /\ \/ reaper.pc = "resolve" /\ (NeverMarked \/ AllReverted)
           \/ reaper.pc = "burned" /\ NeverLanded
        /\ reaper' = [reaper EXCEPT !.pc = "drop"] /\ UNCHANGED <<inbox, row, guard>>
    BY <1>14 DEF ResolveDrop, ResolveDead
  <2>2. Resolving /\ reaper.pc # "tell" BY <2>1 DEF Resolving
  <2>3. NoneIn(buys') BY <1>3, <2>1, <2>2, DropIsSafe
  <2> QED BY <1>12, <2>1, <2>2, <2>3
<1>15. CASE ResolveBurn
  <2>1. /\ reaper.pc = "resolve" /\ reaper' = [reaper EXCEPT !.pc = "burned"]
        /\ UNCHANGED <<inbox, row, guard>>
    BY <1>15 DEF ResolveBurn
  <2>2. Resolving BY <2>1 DEF Resolving
  <2>3. BuyIds \subseteq reaper.sigs BY <2>1, <2>2 DEF Kept, Resolved, Named, Young
  <2>4. NoFlight(buys') BY <1>3, <1>15, <2>3, BurnQuiet DEF NoFlight, BuyIds
  <2> QED BY <1>12, <2>1, <2>2, <2>4
<1>16. CASE AdoptToEngine \/ DropTell
  <2>1. /\ reaper.pc \in {"resolve", "tell"} /\ reaper' = [reaper EXCEPT !.pc = "leaving"]
        /\ UNCHANGED <<row, guard, buys>>
        /\ \/ inbox' = inbox
           \/ /\ reg # NoOne
              /\ \E w \in {"Filled", "Fatal"} : /\ inbox' = Append(inbox, Answer(reg, w))
                                                /\ w = "Fatal" => reaper.pc = "tell"
    BY <1>16 DEF AdoptToEngine, DropTell
  <2>2. Resolving BY <2>1 DEF Resolving
  <2>3. reaper'.pc = "leaving" BY <1>5, <2>1 DEF ReaperType
  <2>4. ~Resolving' BY <2>3 DEF Resolving
  <2>5. Guarded' BY <1>1, <2>1, <2>3 DEF Kept, Guarded
  <2>6. CASE inbox' = inbox BY <1>6, <2>1, <2>4, <2>5, <2>6 DEF Resolved
  <2>7. ASSUME reg # NoOne, NEW w \in {"Filled", "Fatal"}, inbox' = Append(inbox, Answer(reg, w)),
               w = "Fatal" => reaper.pc = "tell"
        PROVE  Kept'
    <3>1. reg \in Intents BY <2>7, RealEntryAssumption DEF Types, NoOne, Intents
    <3>2. PICK x \in AnswerType : x = Answer(reg, w) /\ x.what = w BY <3>1, AnswerTyped
    <3>3. inbox' = Append(inbox, x) BY <2>7, <3>2
    <3>4. \A n \in 1 .. Len(inbox') : (n \in 1 .. Len(inbox) /\ inbox'[n] = inbox[n]) \/ inbox'[n] = x
      BY <1>1, <3>3
    <3>5. eng = "EntryPending" => \A n \in Current(inbox', intent) : inbox'[n] = x
      BY <2>2, <3>4 DEF Kept, Resolved, Current
    <3>6. AllRest BY <2>2 DEF Kept, Resolved, AllRest, Resting
    <3>7. w = "Fatal" => Over'
      <4>1. w = "Fatal" => NoneIn(buys) BY <2>2, <2>7 DEF Kept, Resolved
      <4> QED BY <1>3, <4>1, NoneIsOver
    <3>8. Answers' BY <1>1, <1>4, <2>4, <3>2, <3>5, <3>6, <3>7 DEF Answers, Sure
    <3>9. Refused' BY <1>1, <2>7 DEF Refused
    <3>10. Working' /\ Named' BY <1>1, <1>3, <1>4, <2>1 DEF Kept, Working, Named
    <3>11. GivenUp' /\ Written' BY <1>1, <1>3, <2>1 DEF Kept, GivenUp, Written
    <3> QED BY <1>3, <2>4, <2>5, <3>8, <3>9, <3>10, <3>11 DEF Kept, Resolved
  <2> QED BY <2>1, <2>6, <2>7
<1>17. CASE AdoptRow \/ DropRow
  <2>1. /\ UNCHANGED <<inbox, guard>>
        /\ \/ /\ reaper.pc = "resolve" /\ row' = BookEntry /\ reaper' = [reaper EXCEPT !.pc = "leaving"]
           \/ /\ reaper.pc = "drop" /\ row' = [row EXCEPT !.status = "deleted"]
              /\ reaper' = [reaper EXCEPT !.pc = "tell"]
    BY <1>17 DEF AdoptRow, DropRow
  <2>2. \/ reaper.pc = "resolve" /\ row'.status = "Holding" /\ reaper'.pc = "leaving"
        \/ reaper.pc = "drop" /\ row'.status = "deleted" /\ reaper'.pc = "tell"
    <3>1. row' = BookEntry => row'.status = "Holding" BY BookedRow
    <3>2. row' = [row EXCEPT !.status = "deleted"] => row'.status = "deleted"
      BY BookedRow DEF Statuses
    <3>3. \A pc \in {"leaving", "tell"} : reaper' = [reaper EXCEPT !.pc = pc] => reaper'.pc = pc
      BY <1>5 DEF ReaperType
    <3> QED BY <2>1, <3>1, <3>2, <3>3
  <2>3. Resolving /\ AllRest BY <2>2 DEF Resolving, Kept, Resolved, AllRest, Resting
  <2>4. eng = "EntryPending" => Current(inbox, intent) = {} BY <2>3 DEF Kept, Resolved
  <2>5. Guarded' BY <1>1, <2>1, <2>2 DEF Kept, Guarded
  <2>6. Working' /\ Answers' /\ Refused'
    BY <1>1, <1>4, <2>1, <2>3, <2>4 DEF Kept, Working, Answers, Refused
  <2>7. Named' BY <2>2 DEF Named, Young
  <2>8. Resolved' BY <1>1, <1>3, <2>1, <2>2, <2>3, <2>4 DEF Kept, Resolved, Resolving
  <2>9. GivenUp'
    <3>1. CASE reaper.pc = "drop"
      <4>1. NoneIn(buys) BY <2>3, <3>1 DEF Kept, Resolved
      <4> QED BY <1>3, <4>1, NoneIsOver DEF GivenUp
    <3>2. CASE reaper.pc = "resolve"
      <4>1. row'.status = "Holding" /\ pg' = <<>> BY <1>1, <2>2, <2>3, <3>2 DEF Kept, Resolved
      <4> QED BY <4>1 DEF GivenUp
    <3> QED BY <2>2, <3>1, <3>2
  <2>10. Written' BY <2>2 DEF Written
  <2> QED BY <1>3, <2>5, <2>6, <2>7, <2>8, <2>9, <2>10 DEF Kept
<1> QED BY <1>8, <1>9, <1>10, <1>11, <1>13, <1>14, <1>15, <1>16, <1>17
        DEF redrive_orphaned_buy_submitted, resolve_buy_submitted

LEMMA OutsideKept ==
    ASSUME Types, Once, Books, Kept, Sound, Chain \/ Crash \/ UNCHANGED vars PROVE Kept'
<1>1. Quiet(buys, buys') BY ChainQuiet, CrashQuiet, SameQuiet DEF vars
<1>2. migrated' \in BOOLEAN /\ (migrated => migrated')
  BY DEF Types, Chain, Migrate, Lands, Reverts, Expires, Feed, Forget, Crash, vars
<1>3. \A b \in BuyIds : buys'[b].st = "landed" => buys[b].st = "landed" \/ ~migrated
  BY ChainLands, CrashQuiet DEF vars
<1>4. /\ BuyIds' = BuyIds /\ ForgotIn(buys') /\ (Over => Over')
      /\ (NoFlight(buys) => NoFlight(buys')) /\ (NoneIn(buys) => NoneIn(buys'))
  BY <1>1, <1>2, <1>3, ForgotQuiet, OverQuiet DEF Quiet, BuyIds, Kept
<1>5. CASE Chain \/ UNCHANGED vars
  <2>1. UNCHANGED <<eng, intent, reg, inbox, task, guard, row, pg, marks, reaper>>
    BY <1>5 DEF Chain, Migrate, Lands, Reverts, Expires, Feed, Forget, OnlyChain, engVars, taskVars,
               dbVars, vars
  <2>2. AllRest' = AllRest /\ Resolving' = Resolving BY <2>1 DEF AllRest, Resolving
  <2>3. Guarded' /\ Working' /\ Refused' /\ Named'
    BY <1>4, <2>1, <2>2 DEF Kept, Guarded, Working, Refused, Named
  <2>4. Answers' BY <1>4, <2>1, <2>2 DEF Kept, Answers, Sure
  <2>5. Resolved' BY <1>4, <2>1, <2>2 DEF Kept, Resolved
  <2>6. GivenUp' /\ Written' BY <1>4, <2>1 DEF Kept, GivenUp, Written
  <2> QED BY <1>4, <2>3, <2>4, <2>5, <2>6 DEF Kept
<1>6. CASE Crash
  <2>1. "lost_mark" \notin Faults BY DEF Sound
  <2>2. /\ marks = {} /\ row.status # "none"
        /\ reg' = IF eng' = "EntryPending" THEN 1 ELSE NoOne
        /\ inbox' = <<>> /\ task' = [i \in Intents |-> Off] /\ pg' = <<>> /\ marks' = {}
        /\ reaper' = IdleReaper /\ UNCHANGED row
    BY <1>6, <2>1 DEF Crash
  <2>3. reaper'.pc = "idle" /\ \A i \in Intents : task'[i].pc = "off" BY <2>2, IdleTyped, OffTyped
  <2>4. AllRest' /\ ~Resolving' BY <2>3 DEF AllRest, Resting, Resolving
  <2>5. Guarded' /\ Working' BY <2>3, <2>4 DEF Guarded, Working, Idle
  <2>6. Answers' /\ Refused' BY <2>2 DEF Answers, Refused, Current, NoOne
  <2>7. Named' BY <1>4, <2>2 DEF Kept, Named
  <2>8. Resolved' BY <2>4 DEF Resolved
  <2>9. GivenUp' /\ Written' BY <1>4, <2>2 DEF Kept, GivenUp, Written
  <2> QED BY <1>4, <2>5, <2>6, <2>7, <2>8, <2>9 DEF Kept
<1> QED BY <1>5, <1>6

LEMMA KeptInit == Init => Kept
<1> SUFFICES ASSUME Init PROVE Kept OBVIOUS
<1>1. /\ eng = "Armed" /\ row.status = "none" /\ reaper.pc = "idle" /\ buys = <<>>
      /\ \A i \in Intents : task[i].pc = "off"
  BY OffTyped, IdleTyped DEF Init
<1>2. Guarded /\ Working /\ Answers /\ Refused
  BY <1>1 DEF Guarded, Working, Answers, Refused, AllRest, Resting, Idle
<1>3. Named /\ ForgotIn(buys) /\ Resolved BY <1>1 DEF Named, BuyIds, ForgotIn, Resolved, Resolving
<1>4. GivenUp /\ Written BY <1>1 DEF GivenUp, Written
<1> QED BY <1>2, <1>3, <1>4 DEF Kept

LEMMA KeptStep == ASSUME Types, Once, Books, Kept, Sound, [Next]_vars PROVE Kept'
BY EngineKept, TaskKept, WritesKept, ReaperKept, OutsideKept DEF Next

\* Unless one of the other faults occurs, no position is given up (its row failed
\* or dropped, or none ever written) while a buy of it has landed or can: not by a
\* retry, a Stop, the reaper, Verify or a restart, even when buys ride a recent
\* blockhash or outlive the process that signed them.
THEOREM NothingStranded == Faults \subseteq {"untracked"} => (Spec => []NoStrandedBuy)
<1> SUFFICES ASSUME Sound PROVE Spec => []NoStrandedBuy BY DEF Sound
<1>1. Kept => NoStrandedBuy
  BY DEF Kept, GivenUp, Written, NoStrandedBuy, Abandoned, Over, OverIn, Landed, CanLand, Flying, BuyIds
<1>2. Types /\ Once /\ Books /\ Kept /\ [Next]_vars => Kept' BY KeptStep
<1> QED BY <1>1, <1>2, TypesInit, TypesStep, OnceInit, OnceStep, BooksInit, BooksStep, KeptInit, PTL
        DEF Spec
=============================================================================
