--------------------------- MODULE RealExit_proofs ---------------------------
(***************************************************************************)
(* RealExit for every set of positions and every bound: types, that a row  *)
(* is closed only by a landed sell of its own, whatever faults occur, and  *)
(* that no position has two sells alive when none of them does.            *)
(***************************************************************************)
EXTENDS RealExit, FiniteSetTheorems, TLAPS

-----------------------------------------------------------------------------
(* Types, and whose sells are whose.                                       *)

Live == {"flying", "landed"}
Kinds == {"Confirmed", "Unconfirmed", "Fatal", "Reverted", "Cleared"}
Sent == {"confirm", "judge", "wait", "waitLanded"}
Points == Claims \cup {"off", "spawned"}
Statuses == Open \cup {"End"}

SellType == [pos : Positions, by : Tasks, st : Live \cup {"reverted", "dead"},
             feed : BOOLEAN, named : BOOLEAN, tracked : BOOLEAN]
TaskType == [pc : Points, tries : Nat, sig : Nat, ok : BOOLEAN, known : SUBSET Nat]
MessageType == [pos : Positions, intent : 0 .. MaxExitAttempts, kind : Kinds]
CopyType == [status : Statuses \cup {"none"}, known : SUBSET Nat]

Types ==
    /\ eng \in [Positions -> {"Holding", "ExitPending", "Gone"}]
    /\ intent \in [Positions -> 0 .. MaxExitAttempts]
    /\ row \in [Positions -> Statuses]
    /\ parked \in [Positions -> BOOLEAN]
    /\ redrives \in [Positions -> 0 .. RedriveCap]
    /\ task \in [Tasks -> TaskType]
    /\ sells \in Seq(SellType) /\ Len(sells) <= MaxSells
    /\ inbox \in Seq(MessageType)
    /\ seen \in [Positions -> CopyType]

\* A sell belongs to its task's position, and the feed shows only landed ones.
SellsFine == \A s \in SellIds : /\ sells[s].by[1] = sells[s].pos
                                /\ sells[s].feed = TRUE => sells[s].st = "landed"

LEMMA TaskPairs ==
    /\ \A t \in Tasks : t[1] \in Positions /\ t[2] \in 0 .. MaxExitAttempts /\ t = <<t[1], t[2]>>
    /\ \A p \in Positions, n \in 0 .. MaxExitAttempts : <<p, n>> \in Tasks
    /\ \A p \in Positions : <<p, Orphan>> \in Tasks /\ <<p, 1>> \in Tasks
BY RealExitAssumption DEF Tasks, Orphan

\* How a step may change a sell.
Turns(x, y) ==
    /\ y.pos = x.pos /\ y.by = x.by
    /\ x.st = "landed" => y.st = "landed"
    /\ y.st \in Live => x.st \in Live
    /\ y.st = "flying" => x.st = "flying"
    /\ x.named = TRUE => y.named = TRUE
    /\ y.feed = TRUE => y.st = "landed"

Quiet(a, b) ==
    /\ b \in Seq(SellType) /\ Len(b) = Len(a)
    /\ \A s \in 1 .. Len(a) : Turns(a[s], b[s])

LEMMA MapQuiet ==
    ASSUME NEW a \in Seq(SellType), NEW b, b = [s \in 1 .. Len(a) |-> b[s]],
           \A s \in 1 .. Len(a) : b[s] \in SellType /\ Turns(a[s], b[s])
    PROVE  Quiet(a, b)
<1>1. Len(a) \in Nat OBVIOUS
<1>2. b \in [1 .. Len(a) -> SellType] OBVIOUS
<1>3. b \in Seq(SellType) BY <1>1, <1>2
<1>4. Len(b) = Len(a) BY <1>1, <1>2, <1>3
<1> QED BY <1>3, <1>4 DEF Quiet

LEMMA SellFields ==
    ASSUME Types, NEW s \in SellIds
    PROVE  /\ sells[s] \in SellType /\ sells[s].pos \in Positions /\ sells[s].by \in Tasks
           /\ sells[s].st \in Live \cup {"reverted", "dead"}
           /\ sells[s].feed \in BOOLEAN /\ sells[s].named \in BOOLEAN
           /\ sells[s].tracked \in BOOLEAN
<1>1. sells[s] \in SellType BY DEF Types, SellIds
<1> QED BY <1>1 DEF SellType

LEMMA OneQuiet ==
    ASSUME Types, SellsFine, NEW s \in SellIds, NEW x \in SellType, Turns(sells[s], x),
           sells' = [sells EXCEPT ![s] = x]
    PROVE  Quiet(sells, sells')
<1>1. DOMAIN sells = 1 .. Len(sells) BY DEF Types
<1>2. sells' = [u \in DOMAIN sells |-> IF u = s THEN x ELSE sells[u]] OBVIOUS
<1>3. sells' = [u \in 1 .. Len(sells) |-> sells'[u]] BY <1>1, <1>2
<1>4. ASSUME NEW u \in 1 .. Len(sells) PROVE sells'[u] \in SellType /\ Turns(sells[u], sells'[u])
  <2>1. sells'[u] = IF u = s THEN x ELSE sells[u] BY <1>1, <1>2
  <2>2. sells[u] \in SellType BY SellFields DEF SellIds
  <2> QED BY <2>1, <2>2 DEF Turns, SellsFine, SellIds
<1>5. sells \in Seq(SellType) BY DEF Types
<1> QED BY <1>3, <1>4, <1>5, MapQuiet

LEMMA ChainQuiet ==
    ASSUME Types, SellsFine, NEW s \in SellIds, Land(s) \/ Revert(s) \/ FeedShows(s)
    PROVE  Quiet(sells, sells')
<1>1. sells[s] \in SellType BY SellFields
<1>2. ASSUME NEW st \in {"landed", "reverted"}, sells[s].st = "flying",
             sells' = [sells EXCEPT ![s].st = st]
      PROVE  Quiet(sells, sells')
  <2> DEFINE x == [sells[s] EXCEPT !.st = st]
  <2>1. x \in SellType /\ Turns(sells[s], x) BY <1>1, <1>2 DEF SellType, Turns, Live, SellsFine
  <2> HIDE DEF x
  <2>2. sells' = [sells EXCEPT ![s] = x] BY <1>2 DEF x
  <2> QED BY <2>1, <2>2, OneQuiet
<1>3. CASE FeedShows(s)
  <2> DEFINE x == [sells[s] EXCEPT !.feed = TRUE]
  <2>1. x \in SellType /\ Turns(sells[s], x)
    BY <1>1, <1>3 DEF FeedShows, Landed, SellType, Turns, Live, SellsFine
  <2> HIDE DEF x
  <2>2. sells' = [sells EXCEPT ![s] = x] BY <1>3 DEF FeedShows, x
  <2> QED BY <2>1, <2>2, OneQuiet
<1> QED BY <1>2, <1>3 DEF Land, Revert

\* Burning, healing, naming and forgetting, each sell by itself.
LEMMA EachQuiet ==
    ASSUME Types, SellsFine, NEW b, b = [s \in SellIds |-> b[s]],
           \A s \in SellIds :
              \/ b[s] = sells[s]
              \/ sells[s].st = "flying" /\ b[s] = [sells[s] EXCEPT !.st = "dead"]
              \/ sells[s].st = "landed" /\ b[s] = [sells[s] EXCEPT !.feed = TRUE]
              \/ b[s] = [sells[s] EXCEPT !.named = TRUE]
              \/ b[s] = [sells[s] EXCEPT !.tracked = FALSE]
    PROVE  Quiet(sells, b)
<1>1. ASSUME NEW s \in SellIds PROVE b[s] \in SellType /\ Turns(sells[s], b[s])
  <2>1. sells[s] \in SellType /\ (sells[s].feed = TRUE => sells[s].st = "landed")
    BY SellFields DEF SellsFine
  <2>2. CASE b[s] = sells[s] BY <2>1, <2>2 DEF Turns
  <2>3. CASE sells[s].st = "flying" /\ b[s] = [sells[s] EXCEPT !.st = "dead"]
    BY <2>1, <2>3 DEF Turns, SellType, Live
  <2>4. CASE sells[s].st = "landed" /\ b[s] = [sells[s] EXCEPT !.feed = TRUE]
    BY <2>1, <2>4 DEF Turns, SellType, Live
  <2>5. CASE b[s] = [sells[s] EXCEPT !.named = TRUE] BY <2>1, <2>5 DEF Turns, SellType, Live
  <2>6. CASE b[s] = [sells[s] EXCEPT !.tracked = FALSE] BY <2>1, <2>6 DEF Turns, SellType, Live
  <2> QED BY <2>2, <2>3, <2>4, <2>5, <2>6
<1>2. sells \in Seq(SellType) BY DEF Types
<1> QED BY <1>1, <1>2, MapQuiet DEF SellIds

LEMMA BurnedQuiet == ASSUME Types, SellsFine, NEW ss PROVE Quiet(sells, Burned(ss))
<1> DEFINE b == Burned(ss)
<1>1. b = [s \in SellIds |-> b[s]] BY DEF Burned
<1>2. \A s \in SellIds : \/ b[s] = sells[s]
                         \/ sells[s].st = "flying" /\ b[s] = [sells[s] EXCEPT !.st = "dead"]
  BY DEF Burned
<1> HIDE DEF b
<1>3. Quiet(sells, b) BY <1>1, <1>2, EachQuiet
<1> QED BY <1>3 DEF b

LEMMA HealedQuiet == ASSUME Types, SellsFine, NEW ss PROVE Quiet(sells, Healed(ss))
<1> DEFINE b == Healed(ss)
<1>1. b = [s \in SellIds |-> b[s]] BY DEF Healed
<1>2. \A s \in SellIds : \/ b[s] = sells[s]
                         \/ sells[s].st = "landed" /\ b[s] = [sells[s] EXCEPT !.feed = TRUE]
  BY DEF Healed, Landed
<1> HIDE DEF b
<1>3. Quiet(sells, b) BY <1>1, <1>2, EachQuiet
<1> QED BY <1>3 DEF b

LEMMA NamedQuiet == ASSUME Types, SellsFine, NEW m PROVE Quiet(sells, NameSent(m))
<1> DEFINE b == NameSent(m)
<1>1. b = [s \in SellIds |-> b[s]] BY DEF NameSent
<1>2. \A s \in SellIds : b[s] = sells[s] \/ b[s] = [sells[s] EXCEPT !.named = TRUE]
  BY DEF NameSent
<1> HIDE DEF b
<1>3. Quiet(sells, b) BY <1>1, <1>2, EachQuiet
<1> QED BY <1>3 DEF b

LEMMA ForgottenQuiet ==
    ASSUME Types, SellsFine
    PROVE  Quiet(sells, [s \in SellIds |-> [sells[s] EXCEPT !.tracked = FALSE]])
<1> DEFINE b == [s \in SellIds |-> [sells[s] EXCEPT !.tracked = FALSE]]
<1>1. b = [s \in SellIds |-> b[s]] OBVIOUS
<1>2. \A s \in SellIds : b[s] = [sells[s] EXCEPT !.tracked = FALSE] OBVIOUS
<1> HIDE DEF b
<1>3. Quiet(sells, b) BY <1>1, <1>2, EachQuiet
<1> QED BY <1>3 DEF b

LEMMA SameQuiet == ASSUME Types, SellsFine PROVE Quiet(sells, sells)
<1>1. sells = [s \in SellIds |-> sells[s]] BY DEF Types, SellIds
<1> QED BY <1>1, EachQuiet

-----------------------------------------------------------------------------
(* Closed means sold, whatever faults occur.                               *)

\* What a task remembers of its last sell, and of the sells of its position.
SigFine(t, r, ss) ==
    r.pc \in Sent => /\ r.sig # 0 => r.sig \in 1 .. Len(ss) /\ ss[r.sig].by = t
                     /\ r.pc # "confirm" => r.sig # 0
                     /\ r.pc = "waitLanded" => ss[r.sig].st = "landed"
KnownFine(p, known, ss) == \A s \in known : s \in 1 .. Len(ss) /\ ss[s].pos = p

SoldIn(p, ss) == \E s \in 1 .. Len(ss) : ss[s].pos = p /\ ss[s].st = "landed"
Tells(m) == m.kind \in {"Confirmed", "Cleared"}

TasksFine == \A t \in Tasks : /\ SigFine(t, task[t], sells)
                              /\ KnownFine(t[1], task[t].known, sells)
CopiesFine == \A p \in Positions : KnownFine(p, seen[p].known, sells)
AnswersPaid == \A i \in 1 .. Len(inbox) : Tells(inbox[i]) => SoldIn(inbox[i].pos, sells)
RowsPaid == \A p \in Positions : row[p] = "End" => SoldIn(p, sells)

Fine == SellsFine /\ TasksFine /\ CopiesFine /\ AnswersPaid /\ RowsPaid

\* What every step leaves of the sells.
Onward(a, b) ==
    /\ b \in Seq(SellType) /\ Len(a) <= Len(b)
    /\ \A s \in 1 .. Len(a) : Turns(a[s], b[s])
    /\ \A s \in 1 .. Len(b) : s \notin 1 .. Len(a) => b[s].by[1] = b[s].pos /\ b[s].feed = FALSE

LEMMA QuietOnward == ASSUME NEW a \in Seq(SellType), NEW b, Quiet(a, b) PROVE Onward(a, b)
BY DEF Quiet, Onward

LEMMA SendOnward ==
    ASSUME Types, NEW t \in Tasks, NEW named \in BOOLEAN, sells' = Append(sells, NewSell(t, named)),
           SellsFine
    PROVE  /\ Onward(sells, sells') /\ Len(sells') = Len(sells) + 1
           /\ sells'[Len(sells) + 1] = NewSell(t, named)
           /\ \A s \in SellIds : sells'[s] = sells[s]
<1>1. NewSell(t, named) \in SellType BY TaskPairs DEF NewSell, SellType, Live
<1>2. sells \in Seq(SellType) BY DEF Types
<1>3. /\ sells' \in Seq(SellType) /\ Len(sells') = Len(sells) + 1
      /\ sells'[Len(sells) + 1] = NewSell(t, named)
      /\ \A s \in 1 .. Len(sells) : sells'[s] = sells[s]
  BY <1>1, <1>2
<1>4. \A s \in SellIds : Turns(sells[s], sells[s]) BY DEF Turns, SellsFine
<1>5. NewSell(t, named).by[1] = NewSell(t, named).pos /\ NewSell(t, named).feed = FALSE
  BY DEF NewSell
<1>6. Len(sells) \in Nat BY <1>2
<1>7. \A s \in 1 .. Len(sells') : s \notin 1 .. Len(sells) => s = Len(sells) + 1 BY <1>3, <1>6
<1>8. Onward(sells, sells') BY <1>3, <1>4, <1>5, <1>6, <1>7 DEF Onward, SellIds
<1> QED BY <1>3, <1>8 DEF SellIds

\* Facts about sells survive every step.
LEMMA OnwardKeeps ==
    ASSUME Types, SellsFine, Onward(sells, sells')
    PROVE  /\ SellsFine'
           /\ \A p : SoldIn(p, sells) => SoldIn(p, sells')
           /\ \A t, r : SigFine(t, r, sells) => SigFine(t, r, sells')
           /\ \A p, known : KnownFine(p, known, sells) => KnownFine(p, known, sells')
<1>1. /\ Len(sells) \in Nat /\ Len(sells') \in Nat /\ Len(sells) <= Len(sells')
      /\ sells' \in Seq(SellType)
  BY DEF Types, Onward
<1>2. \A s \in 1 .. Len(sells) : s \in 1 .. Len(sells') /\ Turns(sells[s], sells'[s])
  BY <1>1 DEF Onward
<1>3. SellsFine'
  <2> SUFFICES ASSUME NEW s \in 1 .. Len(sells')
               PROVE  /\ sells'[s].by[1] = sells'[s].pos
                      /\ sells'[s].feed = TRUE => sells'[s].st = "landed"
    BY DEF SellsFine, SellIds
  <2>1. CASE s \in 1 .. Len(sells) BY <1>2, <2>1 DEF Turns, SellsFine, SellIds
  <2>2. CASE s \notin 1 .. Len(sells) BY <2>2 DEF Onward
  <2> QED BY <2>1, <2>2
<1>4. ASSUME NEW p, SoldIn(p, sells) PROVE SoldIn(p, sells')
  BY <1>2, <1>4 DEF SoldIn, SellIds, Turns
<1>5. ASSUME NEW t, NEW r, SigFine(t, r, sells) PROVE SigFine(t, r, sells')
  BY <1>2, <1>5 DEF SigFine, Turns
<1>6. ASSUME NEW p, NEW known, KnownFine(p, known, sells) PROVE KnownFine(p, known, sells')
  BY <1>2, <1>6 DEF KnownFine, Turns
<1> QED BY <1>3, <1>4, <1>5, <1>6

\* The parts of a step, and that together they are enough.
OneTaskFine(t) ==
    /\ task' \in [Tasks -> TaskType]
    /\ \A u \in Tasks : u # t => task'[u] = task[u]
    /\ SigFine(t, task'[t], sells') /\ KnownFine(t[1], task'[t].known, sells')
TaskPart == \/ UNCHANGED task
            \/ \E t \in Tasks : OneTaskFine(t)
            \/ task' = [t \in Tasks |-> Off]
SeenPart == /\ seen' \in [Positions -> CopyType]
            /\ \A p \in Positions : seen'[p].known \in {seen[p].known, {}, Named(p)}
InboxPart == \/ UNCHANGED inbox
             \/ inbox # <<>> /\ inbox' = Tail(inbox)
             \/ \E m \in MessageType : /\ inbox' = Append(inbox, m)
                                       /\ Tells(m) => SoldIn(m.pos, sells')
             \/ inbox' = <<>>
RowPart == /\ row' \in [Positions -> Statuses]
           /\ \A p \in Positions : row'[p] = "End" => row[p] = "End" \/ SoldIn(p, sells')
SellsPart == Onward(sells, sells') /\ Len(sells') <= MaxSells
PlainPart == /\ eng' \in [Positions -> {"Holding", "ExitPending", "Gone"}]
             /\ intent' \in [Positions -> 0 .. MaxExitAttempts]
             /\ parked' \in [Positions -> BOOLEAN]
             /\ redrives' \in [Positions -> 0 .. RedriveCap]
Parts == TaskPart /\ SeenPart /\ InboxPart /\ RowPart /\ SellsPart /\ PlainPart

LEMMA OffType == Off \in TaskType /\ Off.pc = "off" /\ Off.known = {} /\ Off.sig = 0
BY DEF Off, TaskType, Points

LEMMA PartsEnough == ASSUME Types, Fine, Parts PROVE Types' /\ Fine'
<1>0. Types /\ SellsFine /\ Onward(sells, sells') BY DEF Fine, Parts, SellsPart
<1>1. /\ SellsFine'
      /\ \A p : SoldIn(p, sells) => SoldIn(p, sells')
      /\ \A t, r : SigFine(t, r, sells) => SigFine(t, r, sells')
      /\ \A p, known : KnownFine(p, known, sells) => KnownFine(p, known, sells')
  BY <1>0, OnwardKeeps
<1>2. task' \in [Tasks -> TaskType] BY OffType DEF Parts, TaskPart, OneTaskFine, Types
<1>3. TasksFine'
  <2> SUFFICES ASSUME NEW u \in Tasks
               PROVE  SigFine(u, task'[u], sells') /\ KnownFine(u[1], task'[u].known, sells')
    BY DEF TasksFine
  <2>1. SigFine(u, task[u], sells') /\ KnownFine(u[1], task[u].known, sells')
    BY <1>1 DEF Fine, TasksFine
  <2>2. CASE UNCHANGED task BY <2>1, <2>2
  <2>3. ASSUME NEW t \in Tasks, OneTaskFine(t)
        PROVE  SigFine(u, task'[u], sells') /\ KnownFine(u[1], task'[u].known, sells')
    BY <2>1, <2>3 DEF OneTaskFine
  <2>4. CASE task' = [t \in Tasks |-> Off]
    BY <2>4, OffType DEF SigFine, KnownFine, Sent
  <2> QED BY <2>2, <2>3, <2>4 DEF Parts, TaskPart
<1>4. CopiesFine'
  <2> SUFFICES ASSUME NEW p \in Positions PROVE KnownFine(p, seen'[p].known, sells')
    BY DEF CopiesFine
  <2>1. KnownFine(p, Named(p), sells) BY DEF KnownFine, Named, SellsOf, SellIds
  <2>2. KnownFine(p, {}, sells') BY DEF KnownFine
  <2>3. KnownFine(p, seen[p].known, sells') BY <1>1 DEF Fine, CopiesFine
  <2> QED BY <1>1, <2>1, <2>2, <2>3 DEF Parts, SeenPart
<1>5. inbox' \in Seq(MessageType) /\ AnswersPaid'
  <2>1. inbox \in Seq(MessageType) BY DEF Types
  <2>2. \A i \in 1 .. Len(inbox) : Tells(inbox[i]) => SoldIn(inbox[i].pos, sells')
    BY <1>1 DEF Fine, AnswersPaid
  <2>3. CASE UNCHANGED inbox BY <2>1, <2>2, <2>3 DEF AnswersPaid
  <2>4. CASE inbox # <<>> /\ inbox' = Tail(inbox)
    <3>1. /\ Tail(inbox) \in Seq(MessageType) /\ Len(Tail(inbox)) = Len(inbox) - 1
          /\ \A i \in 1 .. Len(Tail(inbox)) : Tail(inbox)[i] = inbox[i + 1]
      BY <2>1, <2>4
    <3>2. Len(inbox) \in Nat BY <2>1
    <3>3. \A i \in 1 .. Len(Tail(inbox)) : i + 1 \in 1 .. Len(inbox) BY <3>1, <3>2
    <3>4. \A i \in 1 .. Len(inbox') : Tells(inbox'[i]) => SoldIn(inbox'[i].pos, sells')
      BY <2>2, <2>4, <3>1, <3>3
    <3> QED BY <2>4, <3>1, <3>4 DEF AnswersPaid
  <2>5. ASSUME NEW m \in MessageType, inbox' = Append(inbox, m), Tells(m) => SoldIn(m.pos, sells')
        PROVE  inbox' \in Seq(MessageType) /\ AnswersPaid'
    <3>1. /\ inbox' \in Seq(MessageType) /\ Len(inbox') = Len(inbox) + 1
          /\ inbox'[Len(inbox) + 1] = m
          /\ \A i \in 1 .. Len(inbox) : inbox'[i] = inbox[i]
      BY <2>1, <2>5
    <3>2. Len(inbox) \in Nat BY <2>1
    <3>3. \A i \in 1 .. Len(inbox') : i \in 1 .. Len(inbox) \/ i = Len(inbox) + 1 BY <3>1, <3>2
    <3>4. \A i \in 1 .. Len(inbox') : Tells(inbox'[i]) => SoldIn(inbox'[i].pos, sells')
      BY <2>2, <2>5, <3>1, <3>3
    <3> QED BY <3>1, <3>4 DEF AnswersPaid
  <2>6. CASE inbox' = <<>> BY <2>6 DEF AnswersPaid
  <2> QED BY <2>3, <2>4, <2>5, <2>6 DEF Parts, InboxPart
<1>6. RowsPaid' BY <1>1 DEF Fine, RowsPaid, Parts, RowPart
<1>7. sells' \in Seq(SellType) /\ Len(sells') <= MaxSells BY <1>0 DEF Parts, SellsPart, Onward
<1>8. Types' BY <1>2, <1>5, <1>7 DEF Types, Parts, PlainPart, SeenPart, RowPart
<1> QED BY <1>1, <1>3, <1>4, <1>5, <1>6, <1>8 DEF Fine

-----------------------------------------------------------------------------
(* The steps of an exit task.                                              *)

LEMMA GoFacts ==
    ASSUME Types, NEW t \in Tasks, NEW pc \in Points, Go(t, pc)
    PROVE  /\ task' \in [Tasks -> TaskType] /\ \A u \in Tasks : u # t => task'[u] = task[u]
           /\ task'[t].pc = pc /\ task'[t].sig = task[t].sig /\ task'[t].known = task[t].known
<1>1. task[t] \in TaskType /\ task \in [Tasks -> TaskType] BY DEF Types
<1> DEFINE r == [task[t] EXCEPT !.pc = pc]
<1>2. r \in TaskType /\ r.pc = pc /\ r.sig = task[t].sig /\ r.known = task[t].known
  BY <1>1 DEF TaskType
<1>3. task' = [task EXCEPT ![t] = r] BY DEF Go
<1> HIDE DEF r
<1> QED BY <1>1, <1>2, <1>3

LEMMA OffFine ==
    ASSUME Types, NEW t \in Tasks, task' = [task EXCEPT ![t] = Off] PROVE OneTaskFine(t)
<1>1. task' \in [Tasks -> TaskType] /\ task'[t] = Off /\ \A u \in Tasks : u # t => task'[u] = task[u]
  BY OffType DEF Types
<1> QED BY <1>1, OffType DEF OneTaskFine, SigFine, KnownFine, Sent

\* A task that keeps its last sell, or forgets that it has one.
LEMMA GoFine ==
    ASSUME Types, Fine, Onward(sells, sells'), NEW t \in Tasks, NEW pc \in Points, Go(t, pc),
           pc \in Sent => SigFine(t, task'[t], sells')
    PROVE  OneTaskFine(t)
<1>1. /\ task' \in [Tasks -> TaskType] /\ \A u \in Tasks : u # t => task'[u] = task[u]
      /\ task'[t].pc = pc /\ task'[t].sig = task[t].sig /\ task'[t].known = task[t].known
  BY GoFacts
<1>2. KnownFine(t[1], task[t].known, sells) BY DEF Fine, TasksFine
<1>3. KnownFine(t[1], task'[t].known, sells') BY <1>1, <1>2, OnwardKeeps DEF Fine
<1>4. SigFine(t, task'[t], sells') BY <1>1 DEF SigFine
<1> QED BY <1>1, <1>3, <1>4 DEF OneTaskFine

LEMMA SameSells == ASSUME Types, Fine, UNCHANGED sells PROVE SellsPart /\ Onward(sells, sells')
<1>1. Quiet(sells, sells) BY SameQuiet DEF Fine
<1> QED BY <1>1, QuietOnward DEF SellsPart, Types

LEMMA QuietSells == ASSUME Types, Fine, Quiet(sells, sells') PROVE SellsPart /\ Onward(sells, sells')
BY QuietOnward DEF SellsPart, Types, Quiet

LEMMA SameRest ==
    ASSUME Types
    PROVE  /\ UNCHANGED seen => SeenPart
           /\ UNCHANGED row => RowPart
           /\ UNCHANGED inbox => InboxPart
           /\ UNCHANGED <<eng, intent, parked, redrives>> => PlainPart
BY DEF SeenPart, RowPart, InboxPart, PlainPart, Types

LEMMA MessageTyped ==
    ASSUME NEW t \in Tasks, NEW kind \in Kinds
    PROVE  /\ Message(t, kind) \in MessageType /\ Message(t, kind).kind = kind
           /\ Message(t, kind).pos = t[1] /\ Message(t, kind).intent = t[2]
BY TaskPairs DEF Message, MessageType

LEMMA AnswerPart ==
    ASSUME NEW t \in Tasks, NEW kind \in Kinds, Answer(t, kind),
           kind \in {"Confirmed", "Cleared"} => SoldIn(t[1], sells')
    PROVE  InboxPart
<1>1. Message(t, kind) \in MessageType /\ (Tells(Message(t, kind)) => SoldIn(Message(t, kind).pos, sells'))
  BY MessageTyped DEF Tells
<1> QED BY <1>1 DEF Answer, InboxPart

LEMMA FinishFine ==
    ASSUME Types, Fine, SellsPart, NEW t \in Tasks, NEW kind \in Kinds, Finish(t, kind),
           kind \in {"Confirmed", "Cleared"} => SoldIn(t[1], sells')
    PROVE  Parts
<1>1. Onward(sells, sells') BY DEF SellsPart
<1>2. OneTaskFine(t) BY <1>1, GoFine DEF Finish, Sent, Points, Claims
<1>3. UNCHANGED <<eng, intent, parked, redrives, seen>> BY DEF Finish, bounds
<1>4. CASE t[2] = Orphan
  <2>1. UNCHANGED inbox /\ row' = [row EXCEPT ![t[1]] = OrphanRow(t[1], kind)]
    BY <1>4 DEF Finish
  <2>2. t[1] \in Positions /\ row[t[1]] \in Statuses BY TaskPairs DEF Types
  <2>3. OrphanRow(t[1], kind) \in Statuses
    BY <2>2 DEF OrphanRow, Statuses, Open
  <2>4. OrphanRow(t[1], kind) = "End" => row[t[1]] = "End" \/ SoldIn(t[1], sells')
    BY <2>2 DEF OrphanRow, Open
  <2>5. RowPart BY <2>1, <2>2, <2>3, <2>4 DEF RowPart, Types
  <2> QED BY <1>2, <1>3, <2>1, <2>5, SameRest DEF Parts, TaskPart
<1>5. CASE t[2] # Orphan
  <2>1. Answer(t, kind) /\ UNCHANGED row BY <1>5 DEF Finish
  <2> QED BY <1>2, <1>3, <2>1, AnswerPart, SameRest DEF Parts, TaskPart
<1> QED BY <1>4, <1>5

LEMMA ShownIsSold == ASSUME Types, Fine, NEW t \in Tasks, ShownSold(t) PROVE SoldIn(t[1], sells)
BY DEF ShownSold, SentBy, SellIds, Fine, SellsFine, SoldIn

\* run_exit up to its first send, and its end.
LEMMA StartParts ==
    ASSUME Types, Fine, NEW t \in Tasks,
           \/ WalletNotLoaded(t) \/ TryBeginExit(t) \/ MintWaitOver(t)
           \/ BeginExitMint(t) \/ Leave(t) \/ NotProvable(t)
    PROVE  Parts
<1> USE DEF rowVars, engVars
<1>1. UNCHANGED <<eng, intent, row, parked, redrives, seen, sells>>
  BY DEF WalletNotLoaded, TryBeginExit, MintWaitOver, BeginExitMint, Leave, NotProvable
<1>2. SellsPart /\ Onward(sells, sells') BY <1>1, SameSells
<1>3. OneTaskFine(t)
  <2>1. task' = [task EXCEPT ![t] = Off] \/ Go(t, "queued") \/ Go(t, "send") \/ Go(t, "late")
    BY DEF WalletNotLoaded, TryBeginExit, MintWaitOver, BeginExitMint, Leave, NotProvable
  <2> QED BY <1>2, <2>1, OffFine, GoFine DEF Sent, Points, Claims
<1>4. InboxPart
  <2>1. UNCHANGED inbox \/ Answer(t, "Reverted")
    BY DEF WalletNotLoaded, TryBeginExit, MintWaitOver, BeginExitMint, Leave, NotProvable
  <2> QED BY <2>1, AnswerPart, SameRest DEF Kinds
<1> QED BY <1>1, <1>2, <1>3, <1>4, SameRest DEF Parts, TaskPart

LEMMA SendParts ==
    ASSUME Types, Fine, NEW t \in Tasks, NEW ok \in BOOLEAN, Send(t, ok) PROVE Parts
<1> USE DEF rowVars, engVars
<1>1. PICK named \in BOOLEAN : sells' = Append(sells, NewSell(t, named))
  BY DEF Send
<1>2. /\ Onward(sells, sells') /\ Len(sells') = Len(sells) + 1
      /\ sells'[Len(sells) + 1] = NewSell(t, named)
  BY <1>1, SendOnward DEF Fine
<1>3. /\ Len(sells) < MaxSells /\ UNCHANGED <<eng, intent, inbox, row, parked, redrives, seen>>
      /\ task' = [task EXCEPT ![t].pc = "confirm", ![t].tries = @ + 1,
                              ![t].sig = Len(sells) + 1, ![t].ok = ok]
  BY DEF Send
<1>4. Len(sells) \in Nat BY DEF Types
<1>5. SellsPart BY <1>2, <1>3, <1>4, RealExitAssumption DEF SellsPart
<1>6. task[t] \in TaskType /\ task \in [Tasks -> TaskType] BY DEF Types
<1>a. PICK n \in Nat, new \in Nat : n = task[t].tries + 1 /\ new = Len(sells) + 1
  BY <1>4, <1>6 DEF TaskType
<1> DEFINE r == [task[t] EXCEPT !.pc = "confirm", !.tries = n, !.sig = new, !.ok = ok]
<1>b. r \in TaskType /\ r.pc = "confirm" /\ r.sig = new /\ r.known = task[t].known
  BY <1>6 DEF TaskType, Points, Claims
<1>8. task' = [task EXCEPT ![t] = r] BY <1>3, <1>a
<1>7. r \in TaskType /\ r.pc = "confirm" /\ r.sig = Len(sells) + 1 /\ r.known = task[t].known
  BY <1>a, <1>b
<1> HIDE DEF r
<1>9. /\ task' \in [Tasks -> TaskType] /\ \A u \in Tasks : u # t => task'[u] = task[u]
      /\ task'[t] = r
  BY <1>6, <1>7, <1>8
<1>10. SigFine(t, r, sells')
  <2>1. r.sig \in 1 .. Len(sells') BY <1>2, <1>4, <1>7
  <2>2. sells'[r.sig].by = t BY <1>2, <1>7 DEF NewSell
  <2> QED BY <1>7, <2>1, <2>2 DEF SigFine
<1>11. KnownFine(t[1], r.known, sells')
  <2>1. KnownFine(t[1], task[t].known, sells) BY DEF Fine, TasksFine
  <2> QED BY <1>2, <1>7, <2>1, OnwardKeeps DEF Fine
<1>12. OneTaskFine(t) BY <1>9, <1>10, <1>11 DEF OneTaskFine
<1> QED BY <1>3, <1>5, <1>12, SameRest DEF Parts, TaskPart

\* The send and confirm loop, apart from the send itself.
LEMMA LoopParts ==
    ASSUME Types, Fine, NEW t \in Tasks,
           \/ SendNothing(t) \/ SendsExhausted(t) \/ ConfirmSell(t) \/ ConfirmWindowOver(t)
           \/ ResendDead(t) \/ WaitOver(t) \/ HealAndConfirm(t)
           \/ \E b \in BOOLEAN : JudgeReverted(t, b) \/ JudgeUnclear(t, b)
    PROVE  Parts
<1> USE DEF rowVars, engVars
<1>0. task[t] \in TaskType /\ task \in [Tasks -> TaskType] /\ SigFine(t, task[t], sells)
  BY DEF Types, Fine, TasksFine
<1>1. CASE SendNothing(t)
  <2>1. /\ UNCHANGED <<eng, intent, inbox, row, parked, redrives, seen, sells>>
        /\ task' = [task EXCEPT ![t].pc = "confirm", ![t].tries = @ + 1, ![t].sig = 0]
    BY <1>1 DEF SendNothing
  <2>a. PICK n \in Nat : n = task[t].tries + 1 BY <1>0 DEF TaskType
  <2> DEFINE r == [task[t] EXCEPT !.pc = "confirm", !.tries = n, !.sig = 0]
  <2>2. r \in TaskType /\ r.pc = "confirm" /\ r.sig = 0 /\ r.known = task[t].known
    BY <1>0 DEF TaskType, Points, Claims
  <2>3. task' = [task EXCEPT ![t] = r] BY <2>1, <2>a
  <2> HIDE DEF r
  <2>4. /\ task' \in [Tasks -> TaskType] /\ \A u \in Tasks : u # t => task'[u] = task[u]
        /\ task'[t] = r
    BY <1>0, <2>2, <2>3
  <2>5. SigFine(t, r, sells') BY <2>2 DEF SigFine
  <2>6. KnownFine(t[1], r.known, sells') BY <2>1, <2>2 DEF Fine, TasksFine
  <2>7. OneTaskFine(t) BY <2>4, <2>5, <2>6 DEF OneTaskFine
  <2> QED BY <2>1, <2>7, SameRest, SameSells DEF Parts, TaskPart
<1>2. CASE SendsExhausted(t)
  <2>1. UNCHANGED sells /\ (Finish(t, "Reverted") \/ Finish(t, "Unconfirmed"))
    BY <1>2 DEF SendsExhausted
  <2> QED BY <2>1, SameSells, FinishFine DEF Kinds
<1>3. CASE ConfirmSell(t)
  <2>1. UNCHANGED sells /\ Finish(t, "Confirmed") /\ SoldIn(t[1], sells)
    BY <1>3, ShownIsSold DEF ConfirmSell
  <2> QED BY <2>1, SameSells, FinishFine DEF Kinds
<1>4. CASE WaitOver(t)
  <2>1. UNCHANGED sells /\ Finish(t, "Unconfirmed") BY <1>4 DEF WaitOver
  <2> QED BY <2>1, SameSells, FinishFine DEF Kinds
<1>5. CASE HealAndConfirm(t)
  <2>1. Quiet(sells, sells') BY <1>5, HealedQuiet DEF HealAndConfirm, Fine
  <2>2. SellsPart /\ Onward(sells, sells') BY <2>1, QuietSells
  <2>3. task[t].sig \in 1 .. Len(sells) /\ sells[task[t].sig].by = t
        /\ sells[task[t].sig].st = "landed"
    BY <1>0, <1>5 DEF HealAndConfirm, SigFine, Sent
  <2>4. SoldIn(t[1], sells) BY <2>3 DEF SoldIn, Fine, SellsFine, SellIds
  <2>5. SoldIn(t[1], sells') BY <2>2, <2>4, OnwardKeeps DEF Fine
  <2> QED BY <1>5, <2>2, <2>5, FinishFine DEF HealAndConfirm, Kinds
<1>6. CASE ConfirmWindowOver(t)
  <2>1. /\ UNCHANGED <<eng, intent, inbox, row, parked, redrives, seen, sells>>
        /\ task[t].pc = "confirm"
        /\ Go(t, "send") \/ (task[t].sig # 0 /\ Go(t, "judge"))
    BY <1>6 DEF ConfirmWindowOver
  <2>2. SellsPart /\ Onward(sells, sells') BY <2>1, SameSells
  <2>3. CASE Go(t, "send")
    <3>1. OneTaskFine(t) BY <2>2, <2>3, GoFine DEF Sent, Points, Claims
    <3> QED BY <2>1, <2>2, <3>1, SameRest DEF Parts, TaskPart
  <2>4. CASE task[t].sig # 0 /\ Go(t, "judge")
    <3>1. task'[t].pc = "judge" /\ task'[t].sig = task[t].sig
      BY <2>4, GoFacts DEF Points, Claims
    <3>2. SigFine(t, task'[t], sells') BY <1>0, <2>1, <2>4, <3>1 DEF SigFine, Sent
    <3>3. OneTaskFine(t) BY <2>2, <2>4, <3>2, GoFine DEF Points, Claims
    <3> QED BY <2>1, <2>2, <3>3, SameRest DEF Parts, TaskPart
  <2> QED BY <2>1, <2>3, <2>4
<1>7. CASE ResendDead(t)
  <2>1. /\ UNCHANGED <<eng, intent, inbox, row, parked, redrives, seen>>
        /\ Go(t, "send") /\ sells' = Burned({task[t].sig})
    BY <1>7 DEF ResendDead
  <2>2. Quiet(sells, sells') BY <2>1, BurnedQuiet DEF Fine
  <2>3. SellsPart /\ Onward(sells, sells') BY <2>2, QuietSells
  <2>4. OneTaskFine(t) BY <2>1, <2>3, GoFine DEF Sent, Points, Claims
  <2> QED BY <2>1, <2>3, <2>4, SameRest DEF Parts, TaskPart
<1>8. ASSUME NEW b \in BOOLEAN, JudgeReverted(t, b) PROVE Parts
  <2>1. CASE Finish(t, "Fatal")
    <3>1. UNCHANGED sells BY <1>8 DEF JudgeReverted
    <3> QED BY <2>1, <3>1, SameSells, FinishFine DEF Kinds
  <2>2. CASE Go(t, "send") /\ UNCHANGED <<eng, intent, inbox, row, parked, redrives, seen>>
    <3>1. UNCHANGED sells BY <1>8 DEF JudgeReverted
    <3>2. SellsPart /\ Onward(sells, sells') BY <3>1, SameSells
    <3>3. OneTaskFine(t) BY <2>2, <3>2, GoFine DEF Sent, Points, Claims
    <3> QED BY <2>2, <3>2, <3>3, SameRest DEF Parts, TaskPart
  <2> QED BY <1>8, <2>1, <2>2 DEF JudgeReverted
<1>9. ASSUME NEW b \in BOOLEAN, JudgeUnclear(t, b) PROVE Parts
  <2>1. /\ UNCHANGED <<eng, intent, inbox, row, parked, redrives, seen, sells>>
        /\ task[t].pc = "judge"
        /\ Go(t, "wait") \/ (Landed(task[t].sig) /\ Go(t, "waitLanded"))
    BY <1>9 DEF JudgeUnclear
  <2>2. SellsPart /\ Onward(sells, sells') BY <2>1, SameSells
  <2>3. ASSUME NEW pc \in {"wait", "waitLanded"}, Go(t, pc), pc = "waitLanded" => Landed(task[t].sig)
        PROVE  OneTaskFine(t)
    <3>1. task'[t].pc = pc /\ task'[t].sig = task[t].sig
      BY <2>3, GoFacts DEF Points, Claims
    <3>2. SigFine(t, task'[t], sells')
      BY <1>0, <2>1, <2>3, <3>1 DEF SigFine, Sent, Landed
    <3> QED BY <2>2, <2>3, <3>2, GoFine DEF Points, Claims
  <2>4. OneTaskFine(t) BY <2>1, <2>3
  <2> QED BY <2>1, <2>2, <2>4, SameRest DEF Parts, TaskPart
<1> QED BY <1>1, <1>2, <1>3, <1>4, <1>5, <1>6, <1>7, <1>8, <1>9

-----------------------------------------------------------------------------
(* The orphan sell, the reaper and the operator.                           *)

LEMMA OwnIsSold ==
    ASSUME NEW p, NEW known, KnownFine(p, known, sells), OwnLanded(known) PROVE SoldIn(p, sells)
BY DEF KnownFine, OwnLanded, Landed, SoldIn

LEMMA BookParts ==
    ASSUME Types, NEW p \in Positions, Book(p), SoldIn(p, sells')
    PROVE  RowPart /\ InboxPart
<1>1. CASE Owned(p)
  <2>1. Answer(<<p, Orphan>>, "Cleared") /\ UNCHANGED row BY <1>1 DEF Book
  <2>2. <<p, Orphan>> \in Tasks /\ <<p, Orphan>>[1] = p BY TaskPairs
  <2> QED BY <2>1, <2>2, AnswerPart, SameRest DEF Kinds
<1>2. CASE ~Owned(p)
  <2>1. row' = [row EXCEPT ![p] = "End"] /\ UNCHANGED inbox BY <1>2 DEF Book
  <2> QED BY <2>1, SameRest DEF RowPart, Types, Statuses
<1> QED BY <1>1, <1>2

LEMMA SpawnFacts ==
    ASSUME Types, NEW p \in Positions, NEW known \in SUBSET Nat, spawn_orphan_sell(p, known)
    PROVE  /\ task' \in [Tasks -> TaskType]
           /\ \A u \in Tasks : u # <<p, Orphan>> => task'[u] = task[u]
           /\ <<p, Orphan>> \in Tasks /\ task'[<<p, Orphan>>].pc = "prove"
           /\ task'[<<p, Orphan>>].known = known
<1> DEFINE r == [Off EXCEPT !.pc = "prove", !.known = known]
<1>1. r \in TaskType /\ r.pc = "prove" /\ r.known = known
  BY DEF Off, TaskType, Points, Claims
<1>2. task' = [task EXCEPT ![<<p, Orphan>>] = r] BY DEF spawn_orphan_sell
<1> HIDE DEF r
<1>3. <<p, Orphan>> \in Tasks /\ task \in [Tasks -> TaskType] BY TaskPairs DEF Types
<1> QED BY <1>1, <1>2, <1>3

LEMMA SpawnFine ==
    ASSUME Types, Fine, Onward(sells, sells'), NEW p \in Positions, NEW known \in SUBSET Nat,
           spawn_orphan_sell(p, known), KnownFine(p, known, sells)
    PROVE  TaskPart
<1>1. KnownFine(p, known, sells') BY OnwardKeeps DEF Fine
<1>2. OneTaskFine(<<p, Orphan>>)
  BY <1>1, SpawnFacts DEF OneTaskFine, SigFine, Sent
<1> QED BY <1>2, TaskPairs DEF TaskPart

LEMMA NamedFine == ASSUME Types, NEW p \in Positions
                   PROVE  KnownFine(p, Named(p), sells) /\ Named(p) \in SUBSET Nat
<1>1. SellIds \subseteq Nat BY DEF Types, SellIds
<1> QED BY <1>1 DEF KnownFine, Named, SellsOf, SellIds

LEMMA OrphanParts ==
    ASSUME Types, Fine, NEW t \in Tasks,
           \/ OwnSellLanded(t) \/ PriorSellsDead(t)
           \/ ChainBagHeld(t) \/ ChainBagCleared(t) \/ ChainBagShort(t)
    PROVE  Parts
<1> USE DEF rowVars, engVars
<1>0. t[1] \in Positions /\ KnownFine(t[1], task[t].known, sells)
  BY TaskPairs DEF Fine, TasksFine
<1>1. CASE OwnSellLanded(t)
  <2>1. /\ UNCHANGED <<eng, intent, parked, redrives, seen>> /\ OwnLanded(task[t].known)
        /\ sells' = Healed(task[t].known) /\ Book(t[1]) /\ task' = [task EXCEPT ![t] = Off]
    BY <1>1 DEF OwnSellLanded
  <2>2. Quiet(sells, sells') BY <2>1, HealedQuiet DEF Fine
  <2>3. SellsPart /\ Onward(sells, sells') BY <2>2, QuietSells
  <2>4. SoldIn(t[1], sells') BY <1>0, <2>1, <2>3, OwnIsSold, OnwardKeeps DEF Fine
  <2>5. RowPart /\ InboxPart BY <1>0, <2>1, <2>4, BookParts
  <2> QED BY <2>1, <2>3, <2>5, OffFine, SameRest DEF Parts, TaskPart
<1>2. CASE PriorSellsDead(t)
  <2>1. /\ UNCHANGED <<eng, intent, inbox, row, parked, redrives, seen>> /\ Go(t, "bag")
        /\ sells' = Burned({s \in task[t].known : sells[s].tracked})
    BY <1>2 DEF PriorSellsDead
  <2>2. Quiet(sells, sells') BY <2>1, BurnedQuiet DEF Fine
  <2>3. SellsPart /\ Onward(sells, sells') BY <2>2, QuietSells
  <2>4. OneTaskFine(t) BY <2>1, <2>3, GoFine DEF Sent, Points, Claims
  <2> QED BY <2>1, <2>3, <2>4, SameRest DEF Parts, TaskPart
<1>3. CASE ChainBagHeld(t)
  <2>1. UNCHANGED <<eng, intent, inbox, row, parked, redrives, seen, sells>> /\ Go(t, "send")
    BY <1>3 DEF ChainBagHeld
  <2>2. SellsPart /\ Onward(sells, sells') BY <2>1, SameSells
  <2>3. OneTaskFine(t) BY <2>1, <2>2, GoFine DEF Sent, Points, Claims
  <2> QED BY <2>1, <2>2, <2>3, SameRest DEF Parts, TaskPart
<1>4. CASE ChainBagCleared(t)
  <2>1. /\ UNCHANGED <<eng, intent, redrives, seen, sells>> /\ task' = [task EXCEPT ![t] = Off]
        /\ \/ OwnLanded(task[t].known) /\ Book(t[1]) /\ UNCHANGED parked
           \/ parked' = [parked EXCEPT ![t[1]] = TRUE] /\ UNCHANGED <<row, inbox>>
    BY <1>4 DEF ChainBagCleared
  <2>2. SellsPart /\ Onward(sells, sells') BY <2>1, SameSells
  <2>3. OneTaskFine(t) BY <2>1, OffFine
  <2>4. PlainPart BY <2>1 DEF PlainPart, Types
  <2>5. RowPart /\ InboxPart
    <3>1. OwnLanded(task[t].known) => SoldIn(t[1], sells') BY <1>0, <2>1, OwnIsSold
    <3> QED BY <1>0, <2>1, <3>1, BookParts, SameRest
  <2> QED BY <2>1, <2>2, <2>3, <2>4, <2>5, SameRest DEF Parts, TaskPart
<1>5. CASE ChainBagShort(t)
  <2>1. /\ UNCHANGED <<eng, intent, inbox, redrives, seen, sells>>
        /\ task' = [task EXCEPT ![t] = Off] /\ parked' = [parked EXCEPT ![t[1]] = TRUE]
        /\ row' = [row EXCEPT ![t[1]] = IF row[t[1]] \in Open THEN "ExitStuck" ELSE row[t[1]]]
    BY <1>5 DEF ChainBagShort
  <2>2. SellsPart /\ Onward(sells, sells') BY <2>1, SameSells
  <2>3. OneTaskFine(t) BY <2>1, OffFine
  <2>4. PlainPart BY <2>1 DEF PlainPart, Types
  <2>5. RowPart BY <2>1 DEF RowPart, Types, Statuses, Open
  <2> QED BY <2>1, <2>2, <2>3, <2>4, <2>5, SameRest DEF Parts, TaskPart
<1> QED BY <1>1, <1>2, <1>3, <1>4, <1>5

LEMMA ListedFacts ==
    ASSUME Types, Fine, NEW p \in Positions, NEW status, Listed(p, status)
    PROVE  SeenPart /\ KnownFine(p, Known(p), sells) /\ Known(p) \in SUBSET Nat
<1>1. seen' = [seen EXCEPT ![p] = Unread] BY DEF Listed
<1>2. seen[p] \in CopyType /\ seen \in [Positions -> CopyType] BY DEF Types
<1>3. Unread \in CopyType /\ Unread.known = {} BY DEF Unread, CopyType
<1>4. SeenPart BY <1>1, <1>2, <1>3 DEF SeenPart
<1>5. Known(p) \in SUBSET Nat BY <1>2 DEF Known, CopyType
<1> QED BY <1>4, <1>5 DEF Fine, CopiesFine, Known

LEMMA CountType == ASSUME Types, NEW p \in Positions, CountRedrive(p), UNCHANGED <<eng, intent>>
                   PROVE  PlainPart
<1>1. redrives[p] \in 0 .. RedriveCap /\ redrives \in [Positions -> 0 .. RedriveCap]
  BY DEF Types
<1>2. redrives' \in [Positions -> 0 .. RedriveCap]
  <2> DEFINE n == IF redrives[p] < RedriveCap THEN redrives[p] + 1 ELSE redrives[p]
  <2>a. n \in 0 .. RedriveCap BY <1>1, RealExitAssumption
  <2>1. redrives' = [redrives EXCEPT ![p] = n] BY DEF CountRedrive
  <2> HIDE DEF n
  <2> QED BY <1>1, <2>a, <2>1
<1>3. parked' \in [Positions -> BOOLEAN]
  <2>1. CASE UNCHANGED parked BY <2>1 DEF Types
  <2>2. CASE ~UNCHANGED parked
    <3>1. PICK b \in BOOLEAN : b = (parked[p] \/ redrives[p] + 1 >= RedriveCap) OBVIOUS
    <3>2. parked' = [parked EXCEPT ![p] = b] BY <2>2, <3>1 DEF CountRedrive
    <3> QED BY <3>2 DEF Types
  <2> QED BY <2>1, <2>2
<1> QED BY <1>2, <1>3 DEF PlainPart, Types

LEMMA ReaperParts == ASSUME Types, Fine, NEW p \in Positions, Reaper(p) PROVE Parts
<1> USE DEF rowVars, engVars
<1>1. CASE Nudge(p)
  <2>1. UNCHANGED <<eng, intent, row, parked, redrives, task, sells, seen>>
        /\ Answer(<<p, intent[p]>>, "Reverted")
    BY <1>1 DEF Nudge
  <2>2. <<p, intent[p]>> \in Tasks BY TaskPairs DEF Types
  <2>3. InboxPart BY <2>1, <2>2, AnswerPart DEF Kinds
  <2> QED BY <2>1, <2>3, SameRest, SameSells DEF Parts, TaskPart
<1>2. CASE ReadRow(p)
  <2>1. UNCHANGED <<eng, intent, inbox, row, parked, redrives, task, sells>>
        /\ seen' = [seen EXCEPT ![p] = Copy(p)]
    BY <1>2 DEF ReadRow
  <2>2. Copy(p) \in CopyType /\ Copy(p).known = Named(p)
    BY NamedFine DEF Copy, CopyType, Types
  <2>3. SeenPart BY <2>1, <2>2 DEF SeenPart, Types
  <2> QED BY <2>1, <2>3, SameRest, SameSells DEF Parts, TaskPart
<1>3. CASE RedrivePending(p)
  <2>1. /\ UNCHANGED <<eng, intent, inbox, row, parked, redrives, sells>>
        /\ Listed(p, "ExitPending") /\ spawn_orphan_sell(p, Known(p))
    BY <1>3 DEF RedrivePending
  <2>2. SeenPart /\ KnownFine(p, Known(p), sells) /\ Known(p) \in SUBSET Nat
    BY <2>1, ListedFacts
  <2>3. SellsPart /\ Onward(sells, sells') BY <2>1, SameSells
  <2>4. TaskPart BY <2>1, <2>2, <2>3, SpawnFine
  <2> QED BY <2>1, <2>2, <2>3, <2>4, SameRest DEF Parts
<1>4. CASE RedriveStuck(p)
  <2>1. /\ UNCHANGED <<eng, intent, inbox, row, sells>>
        /\ Listed(p, "ExitStuck") /\ spawn_orphan_sell(p, Known(p)) /\ CountRedrive(p)
    BY <1>4 DEF RedriveStuck
  <2>2. SeenPart /\ KnownFine(p, Known(p), sells) /\ Known(p) \in SUBSET Nat
    BY <2>1, ListedFacts
  <2>3. SellsPart /\ Onward(sells, sells') BY <2>1, SameSells
  <2>4. TaskPart BY <2>1, <2>2, <2>3, SpawnFine
  <2>5. PlainPart BY <2>1, CountType
  <2> QED BY <2>1, <2>2, <2>3, <2>4, <2>5, SameRest DEF Parts
<1>5. CASE RedriveUnconfirmed(p)
  <2>1. /\ UNCHANGED <<eng, intent, inbox, row>> /\ sells' = Burned(Known(p))
        /\ Listed(p, "ExitUnconfirmed") /\ spawn_orphan_sell(p, Known(p)) /\ CountRedrive(p)
    BY <1>5 DEF RedriveUnconfirmed
  <2>2. SeenPart /\ KnownFine(p, Known(p), sells) /\ Known(p) \in SUBSET Nat
    BY <2>1, ListedFacts
  <2>a. Quiet(sells, sells') BY <2>1, BurnedQuiet DEF Fine
  <2>3. SellsPart /\ Onward(sells, sells') BY <2>a, QuietSells
  <2>4. TaskPart BY <2>1, <2>2, <2>3, SpawnFine
  <2>5. PlainPart BY <2>1, CountType
  <2> QED BY <2>1, <2>2, <2>3, <2>4, <2>5, SameRest DEF Parts
<1>6. CASE HealCleared(p)
  <2>1. /\ UNCHANGED <<eng, intent, redrives, task, sells, seen>>
        /\ \/ OwnLanded(Named(p)) /\ Book(p) /\ UNCHANGED parked
           \/ parked' = [parked EXCEPT ![p] = TRUE] /\ UNCHANGED <<row, inbox>>
    BY <1>6 DEF HealCleared
  <2>2. PlainPart BY <2>1 DEF PlainPart, Types
  <2>3. OwnLanded(Named(p)) => SoldIn(p, sells') BY <2>1, NamedFine, OwnIsSold
  <2>4. RowPart /\ InboxPart BY <2>1, <2>3, BookParts, SameRest
  <2> QED BY <2>1, <2>2, <2>4, SameRest, SameSells DEF Parts, TaskPart
<1>7. CASE MarkStale(p)
  <2>1. /\ UNCHANGED <<eng, intent, inbox, parked, redrives, task, sells, seen>>
        /\ row' = [row EXCEPT ![p] = "ExitStuck"]
    BY <1>7 DEF MarkStale
  <2>2. RowPart BY <2>1 DEF RowPart, Types, Statuses, Open
  <2> QED BY <2>1, <2>2, SameRest, SameSells DEF Parts, TaskPart
<1> QED BY <1>1, <1>2, <1>3, <1>4, <1>5, <1>6, <1>7 DEF Reaper

LEMMA OperatorParts ==
    ASSUME Types, Fine, NEW p \in Positions, ManualRetry(p) \/ Verify(p) PROVE Parts
<1> USE DEF rowVars, engVars
<1>1. CASE ManualRetry(p)
  <2>1. /\ UNCHANGED <<eng, intent, inbox, row, sells, seen>> /\ spawn_orphan_sell(p, Named(p))
        /\ \/ UNCHANGED <<parked, redrives>>
           \/ parked' = [parked EXCEPT ![p] = FALSE] /\ redrives' = [redrives EXCEPT ![p] = 0]
    BY <1>1 DEF ManualRetry
  <2>2. SellsPart /\ Onward(sells, sells') BY <2>1, SameSells
  <2>3. TaskPart BY <2>1, <2>2, NamedFine, SpawnFine
  <2>4. 0 \in 0 .. RedriveCap BY RealExitAssumption
  <2>5. PlainPart BY <2>1, <2>4 DEF PlainPart, Types
  <2> QED BY <2>1, <2>2, <2>3, <2>5, SameRest DEF Parts
<1>2. CASE Verify(p)
  <2>1. /\ UNCHANGED <<eng, intent, parked, redrives, task, seen>> /\ OwnLanded(Named(p))
        /\ sells' = Healed(Named(p)) /\ Book(p)
    BY <1>2 DEF Verify
  <2>2. Quiet(sells, sells') BY <2>1, HealedQuiet DEF Fine
  <2>3. SellsPart /\ Onward(sells, sells') BY <2>2, QuietSells
  <2>4. SoldIn(p, sells') BY <2>1, <2>3, NamedFine, OwnIsSold, OnwardKeeps DEF Fine
  <2>5. RowPart /\ InboxPart BY <2>1, <2>4, BookParts
  <2> QED BY <2>1, <2>3, <2>5, SameRest DEF Parts, TaskPart
<1> QED BY <1>1, <1>2

-----------------------------------------------------------------------------
(* The engine, the chain and a restart.                                    *)

LEMMA SpawnedFine ==
    ASSUME Types, NEW t \in Tasks, task' = [task EXCEPT ![t] = Spawned]
    PROVE  /\ OneTaskFine(t) /\ task'[t].pc = "spawned"
           /\ \A u \in Tasks : u # t => task'[u] = task[u]
<1>1. Spawned \in TaskType /\ Spawned.pc = "spawned" /\ Spawned.known = {}
  BY DEF Spawned, Off, TaskType, Points
<1>2. /\ task' \in [Tasks -> TaskType] /\ task'[t] = Spawned
      /\ \A u \in Tasks : u # t => task'[u] = task[u]
  BY <1>1 DEF Types
<1> QED BY <1>1, <1>2 DEF OneTaskFine, SigFine, KnownFine, Sent

LEMMA DecideParts == ASSUME Types, Fine, NEW p \in Positions, DecideExit(p) PROVE Parts
<1>1. /\ UNCHANGED <<parked, redrives, sells, inbox, seen>>
      /\ eng' = [eng EXCEPT ![p] = "ExitPending"] /\ intent' = [intent EXCEPT ![p] = 1]
      /\ row' = [row EXCEPT ![p] = "ExitPending"] /\ task' = [task EXCEPT ![<<p, 1>>] = Spawned]
  BY DEF DecideExit
<1>2. <<p, 1>> \in Tasks /\ 1 \in 0 .. MaxExitAttempts BY TaskPairs, RealExitAssumption
<1>3. OneTaskFine(<<p, 1>>) BY <1>1, <1>2, SpawnedFine
<1>4. PlainPart BY <1>1, <1>2 DEF PlainPart, Types
<1>5. RowPart BY <1>1 DEF RowPart, Types, Statuses, Open
<1> QED BY <1>1, <1>2, <1>3, <1>4, <1>5, SameRest, SameSells DEF Parts, TaskPart

\* The outcomes of folding the oldest answer m.
FoldClosed(m) == /\ eng' = [eng EXCEPT ![m.pos] = "Gone"] /\ row' = [row EXCEPT ![m.pos] = "End"]
                 /\ UNCHANGED <<intent, task, sells>>
FoldDropped(m, status) == /\ eng' = [eng EXCEPT ![m.pos] = "Gone"]
                          /\ row' = [row EXCEPT ![m.pos] = status]
                          /\ sells' = NameSent(m) /\ UNCHANGED <<intent, task>>
FoldAgain(m) == /\ intent' = [intent EXCEPT ![m.pos] = m.intent + 1]
                /\ task' = [task EXCEPT ![<<m.pos, m.intent + 1>>] = Spawned]
                /\ UNCHANGED <<eng, row, sells>>

LEMMA FoldCases ==
    ASSUME Types, Fold
    PROVE  LET m == Head(inbox) IN
           /\ inbox # <<>> /\ inbox' = Tail(inbox) /\ UNCHANGED <<parked, redrives, seen>>
           /\ m \in MessageType /\ 1 \in 1 .. Len(inbox) /\ m = inbox[1]
           /\ \/ UNCHANGED <<eng, intent, row, task, sells>>
                /\ (m.kind # "Cleared" => eng[m.pos] # "ExitPending" \/ intent[m.pos] # m.intent)
              \/ m.kind = "Cleared" /\ eng[m.pos] = "Holding" /\ FoldClosed(m)
              \/ /\ eng[m.pos] = "ExitPending" /\ intent[m.pos] = m.intent
                 /\ \/ m.kind = "Confirmed" /\ FoldClosed(m)
                    \/ m.kind = "Unconfirmed" /\ FoldDropped(m, "ExitUnconfirmed")
                    \/ m.kind \in {"Fatal", "Reverted"} /\ FoldDropped(m, "ExitStuck")
                    \/ m.kind = "Reverted" /\ m.intent < MaxExitAttempts /\ FoldAgain(m)
<1> DEFINE m == Head(inbox)
<1>1. /\ inbox # <<>> /\ inbox' = Tail(inbox) /\ UNCHANGED <<parked, redrives, seen>>
  BY DEF Fold
<1>2. inbox \in Seq(MessageType) BY DEF Types
<1>3. m \in MessageType /\ 1 \in 1 .. Len(inbox) /\ m = inbox[1] BY <1>1, <1>2
<1>4. m.kind \in Kinds /\ m.intent \in Nat BY <1>3 DEF MessageType
<1>5. LastAttempt(m) \/ m.intent < MaxExitAttempts BY <1>4, RealExitAssumption DEF LastAttempt
<1>6. CASE m.kind = "Cleared"
  <2>1. \/ eng[m.pos] = "Holding" /\ Close(m) /\ UNCHANGED <<intent, task, sells>>
        \/ UNCHANGED <<eng, row, intent, task, sells>>
    BY <1>6 DEF Fold
  <2> QED BY <1>1, <1>3, <1>6, <2>1 DEF Close, FoldClosed
<1>7. CASE m.kind # "Cleared" /\ (eng[m.pos] # "ExitPending" \/ intent[m.pos] # m.intent)
  <2>1. UNCHANGED <<eng, intent, row, task, sells>> BY <1>7 DEF Fold
  <2> QED BY <1>1, <1>3, <1>7, <2>1
<1>8. CASE m.kind # "Cleared" /\ eng[m.pos] = "ExitPending" /\ intent[m.pos] = m.intent
  <2>0. CASE m.kind = "Confirmed"
    <3>1. Close(m) /\ UNCHANGED <<intent, task, sells>> BY <1>8, <2>0 DEF Fold
    <3> QED BY <1>1, <1>3, <1>8, <2>0, <3>1 DEF Close, FoldClosed
  <2>1. CASE m.kind = "Unconfirmed"
    <3>1. GiveUp(m, "ExitUnconfirmed") BY <1>8, <2>1 DEF Fold
    <3> QED BY <1>1, <1>3, <1>8, <2>1, <3>1 DEF GiveUp, FoldDropped
  <2>2. CASE m.kind = "Fatal"
    <3>1. GiveUp(m, "ExitStuck") BY <1>8, <2>2 DEF Fold
    <3> QED BY <1>1, <1>3, <1>8, <2>2, <3>1 DEF GiveUp, FoldDropped
  <2>3. CASE m.kind = "Reverted" /\ LastAttempt(m)
    <3>1. GiveUp(m, "ExitStuck") BY <1>8, <2>3 DEF Fold
    <3> QED BY <1>1, <1>3, <1>8, <2>3, <3>1 DEF GiveUp, FoldDropped
  <2>4. CASE m.kind = "Reverted" /\ ~LastAttempt(m)
    <3>1. FoldAgain(m) BY <1>8, <2>4 DEF Fold, FoldAgain
    <3> QED BY <1>1, <1>3, <1>5, <1>8, <2>4, <3>1
  <2> QED BY <1>4, <1>8, <2>0, <2>1, <2>2, <2>3, <2>4 DEF Kinds
<1> QED BY <1>6, <1>7, <1>8

LEMMA FoldParts == ASSUME Types, Fine, Fold PROVE Parts
<1> DEFINE m == Head(inbox)
<1>1. /\ inbox # <<>> /\ inbox' = Tail(inbox) /\ UNCHANGED <<parked, redrives, seen>>
      /\ m \in MessageType /\ 1 \in 1 .. Len(inbox) /\ m = inbox[1]
  BY FoldCases
<1>2. InboxPart /\ SeenPart BY <1>1, SameRest DEF InboxPart
<1>3. m.pos \in Positions /\ m.intent \in 0 .. MaxExitAttempts BY <1>1 DEF MessageType
<1>4. Tells(m) => SoldIn(m.pos, sells) BY <1>1 DEF Fine, AnswersPaid
<1>5. CASE UNCHANGED <<eng, intent, row, task, sells>>
  BY <1>1, <1>2, <1>5, SameRest, SameSells DEF Parts, TaskPart
<1>6. CASE m.kind \in {"Cleared", "Confirmed"} /\ FoldClosed(m)
  <2>1. SoldIn(m.pos, sells') BY <1>4, <1>6 DEF Tells, FoldClosed
  <2>2. RowPart BY <1>3, <1>6, <2>1 DEF FoldClosed, RowPart, Types, Statuses
  <2>3. PlainPart BY <1>1, <1>3, <1>6 DEF FoldClosed, PlainPart, Types
  <2> QED BY <1>2, <1>6, <2>2, <2>3, SameSells DEF Parts, TaskPart, FoldClosed
<1>7. ASSUME NEW status \in {"ExitUnconfirmed", "ExitStuck"}, FoldDropped(m, status) PROVE Parts
  <2>1. Quiet(sells, sells') BY <1>7, NamedQuiet DEF FoldDropped, Fine
  <2>2. RowPart BY <1>3, <1>7 DEF FoldDropped, RowPart, Types, Statuses, Open
  <2>3. PlainPart BY <1>1, <1>3, <1>7 DEF FoldDropped, PlainPart, Types
  <2> QED BY <1>2, <1>7, <2>1, <2>2, <2>3, QuietSells DEF Parts, TaskPart, FoldDropped
<1>8. CASE m.intent < MaxExitAttempts /\ FoldAgain(m)
  <2>1. m.intent + 1 \in 0 .. MaxExitAttempts BY <1>3, <1>8, RealExitAssumption
  <2>2. <<m.pos, m.intent + 1>> \in Tasks BY <1>3, <2>1, TaskPairs
  <2>3. OneTaskFine(<<m.pos, m.intent + 1>>) BY <1>8, <2>2, SpawnedFine DEF FoldAgain
  <2>4. PlainPart BY <1>1, <1>3, <1>8, <2>1 DEF FoldAgain, PlainPart, Types
  <2> QED BY <1>2, <1>8, <2>2, <2>3, <2>4, SameRest, SameSells DEF Parts, TaskPart, FoldAgain
<1> QED BY <1>5, <1>6, <1>7, <1>8, FoldCases

LEMMA ChainParts ==
    ASSUME Types, Fine, NEW s \in SellIds, Land(s) \/ Revert(s) \/ FeedShows(s) PROVE Parts
<1>1. UNCHANGED <<eng, intent, row, parked, redrives, task, inbox, seen>>
  BY DEF Land, Revert, FeedShows
<1>2. Quiet(sells, sells') BY ChainQuiet DEF Fine
<1> QED BY <1>1, <1>2, SameRest, QuietSells DEF Parts, TaskPart

LEMMA RestartParts == ASSUME Types, Fine, Restart PROVE Parts
<1>1. /\ UNCHANGED <<intent, row, parked, redrives>> /\ inbox' = <<>>
      /\ eng' = [p \in Positions |-> IF row[p] = "Holding" THEN "Holding" ELSE "Gone"]
      /\ task' = [t \in Tasks |-> Off]
      /\ sells' = [s \in SellIds |-> [sells[s] EXCEPT !.tracked = FALSE]]
      /\ seen' = [p \in Positions |-> Unread]
  BY DEF Restart, rowVars
<1>2. Quiet(sells, sells') BY <1>1, ForgottenQuiet DEF Fine
<1>3. Unread \in CopyType /\ Unread.known = {} BY DEF Unread, CopyType
<1>4. SeenPart BY <1>1, <1>3 DEF SeenPart
<1>5. PlainPart BY <1>1 DEF PlainPart, Types
<1> QED BY <1>1, <1>2, <1>4, <1>5, SameRest, QuietSells DEF Parts, TaskPart, InboxPart

LEMMA StepParts == ASSUME Types, Fine, [Next]_vars PROVE Parts
<1>1. CASE UNCHANGED vars BY <1>1, SameRest, SameSells DEF vars, Parts, TaskPart
<1>2. ASSUME NEW p \in Positions, DecideExit(p) \/ Reaper(p) \/ ManualRetry(p) \/ Verify(p)
      PROVE  Parts
  BY <1>2, DecideParts, ReaperParts, OperatorParts
<1>3. ASSUME NEW t \in Tasks, TaskStep(t) PROVE Parts
  BY <1>3, StartParts, SendParts, LoopParts, OrphanParts DEF TaskStep
<1>4. ASSUME NEW s \in SellIds, Land(s) \/ Revert(s) \/ FeedShows(s) PROVE Parts
  BY <1>4, ChainParts
<1> QED BY <1>1, <1>2, <1>3, <1>4, FoldParts, RestartParts DEF Next

LEMMA FineInit == Init => Types /\ Fine
<1> SUFFICES ASSUME Init PROVE Types /\ Fine OBVIOUS
<1>1. sells = <<>> /\ inbox = <<>> BY DEF Init
<1>2. /\ sells \in Seq(SellType) /\ Len(sells) = 0 /\ inbox \in Seq(MessageType)
      /\ Len(inbox) = 0
  BY <1>1
<1>3. 0 \in 0 .. MaxExitAttempts /\ 0 \in 0 .. RedriveCap /\ 0 <= MaxSells
  BY RealExitAssumption
<1>4. Unread \in CopyType /\ Unread.known = {} BY DEF Unread, CopyType
<1>5. Types BY <1>2, <1>3, <1>4, OffType DEF Init, Types, Statuses, Open
<1>6. SellsFine /\ AnswersPaid BY <1>2 DEF SellsFine, SellIds, AnswersPaid
<1>7. TasksFine BY OffType DEF Init, TasksFine, SigFine, KnownFine, Sent
<1>8. CopiesFine BY <1>4 DEF Init, CopiesFine, KnownFine
<1>9. RowsPaid BY DEF Init, RowsPaid
<1> QED BY <1>5, <1>6, <1>7, <1>8, <1>9 DEF Fine

LEMMA FineAlways == Spec => [](Types /\ Fine)
<1>1. Types /\ Fine /\ [Next]_vars => (Types /\ Fine)' BY StepParts, PartsEnough
<1> QED BY <1>1, FineInit, PTL DEF Spec

\* Engine states, intents, rows, redrive counts and the points of every task stay
\* in their ranges for every set of positions, every bound and every fault.
THEOREM ExitTypes == Spec => []TypeOK
<1>1. Types => TypeOK BY DEF Types, TypeOK, Statuses, TaskType, Points
<1> QED BY <1>1, FineAlways, PTL

\* A row is closed only by a landed sell of its own, for every set of positions
\* sharing the account, every bound and every fault: whatever the reaper reads
\* late, the operator verifies or a restart forgets, a position is never booked
\* as sold on a sibling's sell, a sell in flight or silence.
THEOREM ClosedIsSold == Spec => []BookedIsSold
<1>1. Types /\ Fine => BookedIsSold
  BY DEF Fine, RowsPaid, SoldIn, BookedIsSold, SellsOf, SellIds, Landed
<1> QED BY <1>1, FineAlways, PTL

-----------------------------------------------------------------------------
(* One sell alive, without faults: what is true of one position.           *)

Intents == 0 .. MaxExitAttempts
Ended == {"off", "late", "leave"}
Finals == {"Confirmed", "Unconfirmed", "Fatal"}

\* The sells of p that landed or still may.
LivesIn(p, ss) == {s \in 1 .. Len(ss) : ss[s].pos = p /\ ss[s].st \in Live}
NoneIn(p, ss) == LivesIn(p, ss) = {}
IsFinal(m, p, n) == m.pos = p /\ m.intent = n /\ m.kind \in Finals

RowFollows(p) ==
    /\ row[p] = "Holding" <=> eng[p] = "Holding"
    /\ eng[p] = "ExitPending" => row[p] = "ExitPending" /\ intent[p] # 0
\* Before the first intent nothing of the position exists.
Untouched(p) == eng[p] = "Holding" =>
    /\ \A s \in 1 .. Len(sells) : sells[s].pos # p
    /\ \A n \in Intents : task[<<p, n>>].pc = "off"
    /\ \A i \in 1 .. Len(inbox) : inbox[i].pos # p
\* An orphan sell and an engine task never run for one position, nor do the
\* tasks of two intents.
InStep(p) == \A n \in Intents :
    IF n = Orphan THEN task[<<p, n>>].pc # "off" => eng[p] = "Gone"
    ELSE task[<<p, n>>].pc \notin Ended => eng[p] = "ExitPending" /\ intent[p] = n
OneClaim(p) == \A n, k \in Intents :
    task[<<p, n>>].pc \in Claims /\ task[<<p, k>>].pc \in Claims => n = k
\* A task about to send finds no sell alive; after a send, none but its own.
Clear(p) == \A n \in Intents :
    task[<<p, n>>].pc \in {"spawned", "queued", "send"} => NoneIn(p, sells)
OnlyLast(p) == \A n \in Intents :
    task[<<p, n>>].pc \in Sent => LivesIn(p, sells) \subseteq {task[<<p, n>>].sig}
\* An orphan sell knows every sell of its row, and past the proof none flies.
Proving(p) == \A n \in Intents : task[<<p, n>>].pc \in {"prove", "bag"} =>
    /\ n = Orphan /\ row[p] \in Open
    /\ \A s \in 1 .. Len(sells) : sells[s].pos = p =>
         /\ s \in task[<<p, n>>].known
         /\ task[<<p, n>>].pc = "bag" => sells[s].st # "flying"
AllNamed(p) == \A s \in 1 .. Len(sells) : sells[s].pos = p => sells[s].named = TRUE
\* The intent in flight is answered when its task is over, and a retry is asked
\* for only when no sell is alive or behind an answer that ends the exit.
Answered(p) == \A i \in 1 .. Len(inbox) : inbox[i].pos = p =>
    /\ inbox[i].intent <= intent[p]
    /\ eng[p] = "ExitPending" /\ inbox[i].intent = intent[p] =>
         /\ task[<<p, intent[p]>>].pc \in Ended
         /\ inbox[i].kind = "Reverted" =>
              \/ NoneIn(p, sells)
              \/ \E j \in 1 .. i - 1 : IsFinal(inbox[j], p, intent[p])
Unanswered(p) ==
    eng[p] = "ExitPending" /\ task[<<p, intent[p]>>].pc \in Ended =>
        \/ NoneIn(p, sells)
        \/ \E j \in 1 .. Len(inbox) : IsFinal(inbox[j], p, intent[p])
Single(p) == \A s, u \in LivesIn(p, sells) : s = u

TasksSafe(p) == InStep(p) /\ OneClaim(p) /\ Clear(p) /\ OnlyLast(p) /\ Proving(p)
Safe(p) == /\ RowFollows(p) /\ Untouched(p) /\ TasksSafe(p)
           /\ AllNamed(p) /\ Single(p) /\ Answered(p) /\ Unanswered(p)
AllSafe == \A p \in Positions : Safe(p)

LEMMA IntentTasks == \A p \in Positions, n \in Intents : <<p, n>> \in Tasks /\ <<p, n>>[1] = p
BY TaskPairs DEF Intents, Tasks

\* Only one task of a position runs.
LEMMA OneRunning ==
    ASSUME NEW p \in Positions, InStep(p), NEW n \in Intents, NEW k \in Intents,
           task[<<p, n>>].pc \notin Ended, task[<<p, k>>].pc \notin Ended
    PROVE  n = k
<1>1. task[<<p, n>>].pc # "off" /\ task[<<p, k>>].pc # "off" BY DEF Ended
<1> QED BY <1>1 DEF InStep

\* A step that leaves the sells of p as they were, or nearer their end.
KeptSells(p) == \A s \in 1 .. Len(sells') : sells'[s].pos = p =>
    s \in 1 .. Len(sells) /\ sells[s].pos = p /\ Turns(sells[s], sells'[s])

LEMMA KeptFacts ==
    ASSUME NEW p \in Positions, KeptSells(p)
    PROVE  /\ LivesIn(p, sells') \subseteq LivesIn(p, sells)
           /\ NoneIn(p, sells) => NoneIn(p, sells')
           /\ Single(p) => Single(p)'
           /\ AllNamed(p) => AllNamed(p)'
<1>1. LivesIn(p, sells') \subseteq LivesIn(p, sells) BY DEF KeptSells, LivesIn, Turns
<1>2. AllNamed(p) => AllNamed(p)' BY DEF KeptSells, AllNamed, Turns
<1> QED BY <1>1, <1>2 DEF NoneIn, Single

LEMMA QuietKept == ASSUME Quiet(sells, sells'), NEW p PROVE KeptSells(p)
BY DEF Quiet, KeptSells, Turns

\* The messages about p after a step, d places nearer the head.
Shifted(p, d) ==
    /\ \A i \in 1 .. Len(inbox') : inbox'[i].pos = p =>
         i + d \in 1 .. Len(inbox) /\ inbox'[i] = inbox[i + d]
    /\ \A j \in 1 .. Len(inbox) : inbox[j].pos = p =>
         j - d \in 1 .. Len(inbox') /\ inbox'[j - d] = inbox[j]
InboxKept(p) == Shifted(p, 0) \/ Shifted(p, 1)

LEMMA SameShift == ASSUME Types, UNCHANGED inbox, NEW p PROVE Shifted(p, 0)
<1>1. Len(inbox) \in Nat BY DEF Types
<1> QED BY <1>1 DEF Shifted

LEMMA AppendShift ==
    ASSUME Types, NEW m \in MessageType, inbox' = Append(inbox, m), NEW p, m.pos # p
    PROVE  Shifted(p, 0)
<1>1. inbox \in Seq(MessageType) /\ Len(inbox) \in Nat BY DEF Types
<1>2. /\ Len(inbox') = Len(inbox) + 1 /\ inbox'[Len(inbox) + 1] = m
      /\ \A i \in 1 .. Len(inbox) : inbox'[i] = inbox[i]
  BY <1>1
<1>3. ASSUME NEW i \in 1 .. Len(inbox'), inbox'[i].pos = p
      PROVE  i + 0 \in 1 .. Len(inbox) /\ inbox'[i] = inbox[i + 0]
  <2>1. i # Len(inbox) + 1 BY <1>2, <1>3
  <2>2. i \in 1 .. Len(inbox) BY <1>1, <1>2, <2>1
  <2> QED BY <1>2, <2>2
<1>4. ASSUME NEW j \in 1 .. Len(inbox), inbox[j].pos = p
      PROVE  j - 0 \in 1 .. Len(inbox') /\ inbox'[j - 0] = inbox[j]
  <2>1. j - 0 = j /\ j \in 1 .. Len(inbox') BY <1>1, <1>2
  <2> QED BY <1>2, <2>1
<1> QED BY <1>3, <1>4 DEF Shifted

LEMMA TailShift ==
    ASSUME Types, inbox # <<>>, inbox' = Tail(inbox), NEW p, inbox[1].pos # p
    PROVE  Shifted(p, 1)
<1>1. inbox \in Seq(MessageType) /\ Len(inbox) \in Nat \ {0} BY DEF Types
<1>2. Len(inbox') = Len(inbox) - 1 /\ \A i \in 1 .. Len(inbox') : inbox'[i] = inbox[i + 1]
  BY <1>1
<1>3. ASSUME NEW i \in 1 .. Len(inbox'), inbox'[i].pos = p
      PROVE  i + 1 \in 1 .. Len(inbox) /\ inbox'[i] = inbox[i + 1]
  BY <1>1, <1>2
<1>4. ASSUME NEW j \in 1 .. Len(inbox), inbox[j].pos = p
      PROVE  j - 1 \in 1 .. Len(inbox') /\ inbox'[j - 1] = inbox[j]
  <2>1. j # 1 BY <1>4
  <2>2. j - 1 \in 1 .. Len(inbox') /\ (j - 1) + 1 = j BY <1>1, <1>2, <2>1
  <2> QED BY <1>2, <2>2
<1> QED BY <1>3, <1>4 DEF Shifted

\* A step that is not about p.
Still(p) ==
    /\ eng'[p] = eng[p] /\ intent'[p] = intent[p] /\ row'[p] = row[p]
    /\ \A n \in Intents : task'[<<p, n>>] = task[<<p, n>>]
    /\ KeptSells(p) /\ InboxKept(p)

\* What the messages say of p survives when p and its current task do not move.
LEMMA MessagesKept ==
    ASSUME Types, NEW p \in Positions, InboxKept(p),
           eng'[p] = eng[p], intent'[p] = intent[p],
           eng[p] = "ExitPending" =>
              /\ task'[<<p, intent[p]>>].pc \in Ended <=> task[<<p, intent[p]>>].pc \in Ended
              /\ task[<<p, intent[p]>>].pc \in Ended => (NoneIn(p, sells) => NoneIn(p, sells')),
           Answered(p), Unanswered(p)
    PROVE  Answered(p)' /\ Unanswered(p)'
<1>0. Len(inbox) \in Nat BY DEF Types
<1>1. ASSUME NEW d \in {0, 1}, Shifted(p, d) PROVE Answered(p)' /\ Unanswered(p)'
  <2>1. \A j \in 1 .. Len(inbox) : IsFinal(inbox[j], p, intent[p]) =>
           j - d \in 1 .. Len(inbox') /\ IsFinal(inbox'[j - d], p, intent[p])
    BY <1>1 DEF Shifted, IsFinal
  <2>2. Unanswered(p)' BY <2>1 DEF Unanswered
  <2>3. ASSUME NEW i \in 1 .. Len(inbox'), inbox'[i].pos = p
        PROVE  /\ inbox'[i].intent <= intent[p]
               /\ eng[p] = "ExitPending" /\ inbox'[i].intent = intent[p] =>
                    /\ task'[<<p, intent[p]>>].pc \in Ended
                    /\ inbox'[i].kind = "Reverted" =>
                         \/ NoneIn(p, sells')
                         \/ \E j \in 1 .. i - 1 : IsFinal(inbox'[j], p, intent[p])
    <3>1. /\ i + d \in 1 .. Len(inbox) /\ inbox'[i] = inbox[i + d] /\ inbox[i + d].pos = p
      BY <1>1, <2>3 DEF Shifted
    <3>2. inbox'[i].intent <= intent[p] BY <3>1 DEF Answered
    <3>3. ASSUME eng[p] = "ExitPending", inbox'[i].intent = intent[p]
          PROVE  /\ task[<<p, intent[p]>>].pc \in Ended /\ task'[<<p, intent[p]>>].pc \in Ended
                 /\ inbox'[i].kind = "Reverted" =>
                       \/ NoneIn(p, sells)
                       \/ \E j \in 1 .. (i + d) - 1 : IsFinal(inbox[j], p, intent[p])
      BY <3>1, <3>3 DEF Answered
    <3>4. ASSUME NEW j \in 1 .. (i + d) - 1, IsFinal(inbox[j], p, intent[p])
          PROVE  \E k \in 1 .. i - 1 : IsFinal(inbox'[k], p, intent[p])
      <4>1. j \in 1 .. Len(inbox) BY <1>0, <3>1
      <4>2. j - d \in 1 .. Len(inbox') /\ IsFinal(inbox'[j - d], p, intent[p]) BY <2>1, <3>4, <4>1
      <4>3. j - d \in 1 .. i - 1 BY <1>0, <3>1, <4>2
      <4> QED BY <4>2, <4>3
    <3> QED BY <3>2, <3>3, <3>4
  <2> QED BY <2>2, <2>3 DEF Answered
<1> QED BY <1>1 DEF InboxKept

LEMMA StillSafe == ASSUME Types, NEW p \in Positions, Safe(p), Still(p) PROVE Safe(p)'
<1>1. /\ LivesIn(p, sells') \subseteq LivesIn(p, sells) /\ (NoneIn(p, sells) => NoneIn(p, sells'))
      /\ Single(p)' /\ AllNamed(p)'
  BY KeptFacts DEF Still, Safe
<1>2. intent[p] \in Intents BY DEF Types, Intents
<1>3. Answered(p)' /\ Unanswered(p)' BY <1>1, <1>2, MessagesKept DEF Still, Safe
<1>4. RowFollows(p)' BY DEF Safe, RowFollows, Still
<1>5. \A s \in 1 .. Len(sells') : sells'[s].pos = p => s \in 1 .. Len(sells) /\ sells[s].pos = p
  BY DEF Still, KeptSells
<1>6. \A i \in 1 .. Len(inbox') : inbox'[i].pos = p => \E j \in 1 .. Len(inbox) : inbox[j].pos = p
  BY DEF Still, InboxKept, Shifted
<1>7. Untouched(p)' BY <1>5, <1>6 DEF Safe, Untouched, Still
<1>8. InStep(p)' /\ OneClaim(p)' BY DEF Safe, TasksSafe, InStep, OneClaim, Still
<1>9. Clear(p)' /\ OnlyLast(p)' BY <1>1 DEF Safe, TasksSafe, Clear, OnlyLast, Still
<1>10. Proving(p)' BY DEF Safe, TasksSafe, Proving, Still, KeptSells, Turns
<1> QED BY <1>1, <1>3, <1>4, <1>7, <1>8, <1>9, <1>10 DEF Safe, TasksSafe

-----------------------------------------------------------------------------
(* A step of the task of intent n of position p.                           *)

Moved(p, n) ==
    LET old == task[<<p, n>>]
        new == task'[<<p, n>>]
    IN  /\ eng'[p] = eng[p] /\ intent'[p] = intent[p]
        /\ old.pc # "off"
        /\ \A k \in Intents : k # n => task'[<<p, k>>] = task[<<p, k>>]
        /\ \/ row'[p] = row[p]
           \/ n = Orphan /\ new.pc \in Ended /\ row'[p] # "Holding"
        /\ new.pc \in Claims =>
              old.pc \in Claims \/ \A k \in Intents : task[<<p, k>>].pc \notin Claims
        /\ old.pc \in Ended => new.pc \in Ended /\ KeptSells(p) /\ UNCHANGED inbox
        /\ new.pc \in {"spawned", "queued", "send"} => NoneIn(p, sells')
        /\ new.pc \in Sent => LivesIn(p, sells') \subseteq {new.sig}
        /\ new.pc # "prove"
        /\ new.pc = "bag" => /\ old.pc = "prove" /\ new.known = old.known /\ KeptSells(p)
                             /\ \A s \in 1 .. Len(sells') : sells'[s].pos = p => sells'[s].st # "flying"
        /\ AllNamed(p)' /\ Single(p)'
        /\ \/ /\ UNCHANGED inbox
              /\ new.pc \in Ended => old.pc \in Ended \/ NoneIn(p, sells') \/ n = Orphan
           \/ \E kind \in Kinds : /\ Answer(<<p, n>>, kind) /\ new.pc \in Ended
                                  /\ kind \in Finals \/ NoneIn(p, sells')

LEMMA MovedTasks ==
    ASSUME Types, NEW p \in Positions, NEW n \in Intents, Safe(p), Moved(p, n)
    PROVE  RowFollows(p)' /\ Untouched(p)' /\ TasksSafe(p)'
<1> DEFINE old == task[<<p, n>>]
           new == task'[<<p, n>>]
<1>1. /\ eng'[p] = eng[p] /\ intent'[p] = intent[p] /\ old.pc # "off"
      /\ \A k \in Intents : k # n => task'[<<p, k>>] = task[<<p, k>>]
      /\ \/ row'[p] = row[p]
         \/ n = Orphan /\ new.pc \in Ended /\ row'[p] # "Holding"
      /\ old.pc \in Ended => new.pc \in Ended /\ KeptSells(p)
  BY DEF Moved
<1>2. /\ new.pc \in Claims =>
            old.pc \in Claims \/ \A k \in Intents : task[<<p, k>>].pc \notin Claims
      /\ new.pc \in {"spawned", "queued", "send"} => NoneIn(p, sells')
      /\ new.pc \in Sent => LivesIn(p, sells') \subseteq {new.sig}
      /\ new.pc # "prove"
      /\ new.pc = "bag" => /\ old.pc = "prove" /\ new.known = old.known /\ KeptSells(p)
                           /\ \A s \in 1 .. Len(sells') : sells'[s].pos = p => sells'[s].st # "flying"
  BY DEF Moved
<1> HIDE DEF old, new
<1>3. RowFollows(p) /\ Untouched(p) /\ InStep(p) /\ OneClaim(p) /\ Clear(p) /\ OnlyLast(p)
      /\ Proving(p)
  BY DEF Safe, TasksSafe
<1>4. eng[p] # "Holding" BY <1>1, <1>3 DEF Untouched, old
<1>5. n = Orphan => eng[p] = "Gone" BY <1>1, <1>3 DEF InStep, old
<1>6. RowFollows(p)' BY <1>1, <1>3, <1>4, <1>5 DEF RowFollows
<1>7. Untouched(p)' BY <1>1, <1>4 DEF Untouched
<1>8. InStep(p)'
  <2> SUFFICES ASSUME NEW k \in Intents
               PROVE  IF k = Orphan THEN task'[<<p, k>>].pc # "off" => eng[p] = "Gone"
                      ELSE task'[<<p, k>>].pc \notin Ended => eng[p] = "ExitPending" /\ intent[p] = k
    BY <1>1 DEF InStep
  <2>1. CASE k # n BY <1>1, <1>3, <2>1 DEF InStep
  <2>2. CASE k = n BY <1>1, <1>3, <1>5, <2>2 DEF InStep, old, new
  <2> QED BY <2>1, <2>2
<1>9. OneClaim(p)' BY <1>1, <1>2, <1>3 DEF OneClaim, old, new
<1>10. ASSUME NEW k \in Intents, k # n, task'[<<p, k>>].pc \notin Ended
       PROVE  /\ KeptSells(p) /\ row'[p] = row[p] /\ task'[<<p, k>>] = task[<<p, k>>]
  <2>1. task[<<p, k>>].pc \notin Ended /\ task'[<<p, k>>] = task[<<p, k>>] BY <1>1, <1>10
  <2>2. old.pc \in Ended BY <1>3, <1>10, <2>1, OneRunning DEF old
  <2>3. n # Orphan \/ k # Orphan BY <1>10
  <2>4. CASE n = Orphan
    <3>1. eng[p] = "ExitPending" BY <1>3, <1>10, <2>1, <2>4 DEF InStep
    <3> QED BY <1>5, <2>4, <3>1
  <2> QED BY <1>1, <2>1, <2>2, <2>4
<1>11. KeptSells(p) => /\ LivesIn(p, sells') \subseteq LivesIn(p, sells)
                       /\ NoneIn(p, sells) => NoneIn(p, sells')
  BY KeptFacts
<1>12. Clear(p)'
  <2> SUFFICES ASSUME NEW k \in Intents, task'[<<p, k>>].pc \in {"spawned", "queued", "send"}
               PROVE  NoneIn(p, sells')
    BY DEF Clear
  <2>1. CASE k # n
    <3>1. task'[<<p, k>>].pc \notin Ended BY DEF Ended
    <3> QED BY <1>3, <1>10, <1>11, <2>1, <3>1 DEF Clear
  <2> QED BY <1>2, <2>1 DEF new
<1>13. OnlyLast(p)'
  <2> SUFFICES ASSUME NEW k \in Intents, task'[<<p, k>>].pc \in Sent
               PROVE  LivesIn(p, sells') \subseteq {task'[<<p, k>>].sig}
    BY DEF OnlyLast
  <2>1. CASE k # n
    <3>1. task'[<<p, k>>].pc \notin Ended BY DEF Ended, Sent
    <3> QED BY <1>3, <1>10, <1>11, <2>1, <3>1 DEF OnlyLast
  <2> QED BY <1>2, <2>1 DEF new
<1>14. Proving(p)'
  <2> SUFFICES ASSUME NEW k \in Intents, task'[<<p, k>>].pc \in {"prove", "bag"}
               PROVE  /\ k = Orphan /\ row'[p] \in Open
                      /\ \A s \in 1 .. Len(sells') : sells'[s].pos = p =>
                           /\ s \in task'[<<p, k>>].known
                           /\ task'[<<p, k>>].pc = "bag" => sells'[s].st # "flying"
    BY DEF Proving
  <2>1. task'[<<p, k>>].pc \notin Ended BY DEF Ended
  <2>2. CASE k # n
    <3>1. KeptSells(p) /\ row'[p] = row[p] /\ task'[<<p, k>>] = task[<<p, k>>]
      BY <1>10, <2>1, <2>2
    <3> QED BY <1>3, <3>1 DEF Proving, KeptSells, Turns
  <2>3. CASE k = n
    <3>1. old.pc = "prove" /\ new.known = old.known /\ KeptSells(p) /\ new.pc = "bag"
      BY <1>2, <2>3 DEF new
    <3>2. row'[p] = row[p] BY <1>1, <2>1, <2>3 DEF new
    <3>3. \A s \in 1 .. Len(sells') : sells'[s].pos = p => s \in new.known
      BY <1>3, <3>1 DEF Proving, KeptSells, old
    <3> QED BY <1>2, <1>3, <2>3, <3>1, <3>2, <3>3 DEF Proving, old, new
  <2> QED BY <2>2, <2>3
<1> QED BY <1>6, <1>7, <1>8, <1>9, <1>12, <1>13, <1>14 DEF TasksSafe

LEMMA MovedMessages ==
    ASSUME Types, NEW p \in Positions, NEW n \in Intents, Safe(p), Moved(p, n)
    PROVE  Answered(p)' /\ Unanswered(p)'
<1> DEFINE old == task[<<p, n>>]
           new == task'[<<p, n>>]
<1>1. /\ eng'[p] = eng[p] /\ intent'[p] = intent[p] /\ old.pc # "off"
      /\ \A k \in Intents : k # n => task'[<<p, k>>] = task[<<p, k>>]
      /\ old.pc \in Ended => new.pc \in Ended /\ KeptSells(p) /\ UNCHANGED inbox
      /\ \/ /\ UNCHANGED inbox
            /\ new.pc \in Ended => old.pc \in Ended \/ NoneIn(p, sells') \/ n = Orphan
         \/ \E kind \in Kinds : /\ Answer(<<p, n>>, kind) /\ new.pc \in Ended
                                /\ kind \in Finals \/ NoneIn(p, sells')
  BY DEF Moved
<1> HIDE DEF old, new
<1>2. InStep(p) /\ Answered(p) /\ Unanswered(p) /\ RowFollows(p) BY DEF Safe, TasksSafe
<1>3. n = Orphan => eng[p] = "Gone" BY <1>1, <1>2 DEF InStep, old
<1>4. old.pc \notin Ended /\ n # Orphan => eng[p] = "ExitPending" /\ intent[p] = n
  BY <1>2 DEF InStep, old
<1>5. intent[p] \in Intents /\ intent[p] \in Nat BY RealExitAssumption DEF Types, Intents
<1>6. CASE old.pc \in Ended
  <2>1. NoneIn(p, sells) => NoneIn(p, sells') BY <1>1, <1>6, KeptFacts
  <2>2. task'[<<p, intent[p]>>].pc \in Ended <=> task[<<p, intent[p]>>].pc \in Ended
    BY <1>1, <1>5, <1>6 DEF old, new
  <2>3. InboxKept(p) BY <1>1, <1>6, SameShift DEF InboxKept
  <2> QED BY <1>1, <1>2, <2>1, <2>2, <2>3, MessagesKept
<1>7. CASE old.pc \notin Ended /\ eng[p] # "ExitPending"
  <2>1. n = Orphan BY <1>4, <1>7
  <2>2. Unanswered(p)' BY <1>1, <1>7 DEF Unanswered
  <2>3. CASE UNCHANGED inbox BY <1>1, <1>2, <1>7, <2>2, <2>3 DEF Answered
  <2>4. ASSUME NEW kind \in Kinds, Answer(<<p, n>>, kind) PROVE Answered(p)'
    <3>1. inbox \in Seq(MessageType) /\ <<p, n>> \in Tasks BY IntentTasks DEF Types
    <3>2. Message(<<p, n>>, kind) \in MessageType /\ Message(<<p, n>>, kind).intent = n
      BY <3>1, MessageTyped DEF Message
    <3>3. PICK m \in MessageType : m = Message(<<p, n>>, kind) BY <3>2
    <3>4. inbox' = Append(inbox, m) /\ m.intent = n BY <2>4, <3>2, <3>3 DEF Answer
    <3>5. \A i \in 1 .. Len(inbox') : \/ i \in 1 .. Len(inbox) /\ inbox'[i] = inbox[i]
                                      \/ inbox'[i] = m
      BY <3>1, <3>4
    <3>6. 0 <= intent[p] BY <1>5
    <3> QED BY <1>1, <1>2, <1>7, <2>1, <3>4, <3>5, <3>6 DEF Answered, Orphan
  <2> QED BY <1>1, <2>2, <2>3, <2>4
<1>8. CASE old.pc \notin Ended /\ eng[p] = "ExitPending"
  <2>1. n # Orphan /\ intent[p] = n BY <1>3, <1>4, <1>8
  <2>2. \A i \in 1 .. Len(inbox) : inbox[i].pos = p =>
           inbox[i].intent <= intent[p] /\ inbox[i].intent # intent[p]
    BY <1>2, <1>8, <2>1 DEF Answered, old
  <2>3. CASE UNCHANGED inbox
    <3>1. Answered(p)' BY <1>1, <2>2, <2>3 DEF Answered
    <3>2. new.pc \in Ended => NoneIn(p, sells') \/ \E kind \in Kinds : Answer(<<p, n>>, kind) /\ kind \in Finals
      BY <1>1, <1>8, <2>1
    <3>3. ASSUME NEW kind \in Kinds, Answer(<<p, n>>, kind) PROVE FALSE
      <4>1. inbox \in Seq(MessageType) /\ <<p, n>> \in Tasks BY IntentTasks DEF Types
      <4>2. Message(<<p, n>>, kind) \in MessageType BY <4>1, MessageTyped
      <4> QED BY <2>3, <3>3, <4>1, <4>2 DEF Answer
    <3>4. Unanswered(p)' BY <1>1, <2>1, <3>2, <3>3 DEF Unanswered, new
    <3> QED BY <3>1, <3>4
  <2>4. ASSUME NEW kind \in Kinds, Answer(<<p, n>>, kind), new.pc \in Ended,
               kind \in Finals \/ NoneIn(p, sells')
        PROVE  Answered(p)' /\ Unanswered(p)'
    <3>1. inbox \in Seq(MessageType) /\ <<p, n>> \in Tasks BY IntentTasks DEF Types
    <3>2. /\ Message(<<p, n>>, kind) \in MessageType /\ Message(<<p, n>>, kind).intent = n
          /\ Message(<<p, n>>, kind).kind = kind /\ Message(<<p, n>>, kind).pos = p
      BY <3>1, MessageTyped DEF Message
    <3>3. PICK m \in MessageType : m = Message(<<p, n>>, kind) BY <3>2
    <3>4. inbox' = Append(inbox, m) /\ m.intent = n /\ m.kind = kind /\ m.pos = p
      BY <2>4, <3>2, <3>3 DEF Answer
    <3>5. /\ Len(inbox) + 1 \in 1 .. Len(inbox') /\ inbox'[Len(inbox) + 1] = m
          /\ \A i \in 1 .. Len(inbox') : \/ i \in 1 .. Len(inbox) /\ inbox'[i] = inbox[i]
                                         \/ inbox'[i] = m
      BY <3>1, <3>4
    <3>6. kind = "Reverted" => NoneIn(p, sells') BY <2>4 DEF Finals
    <3>7. Answered(p)'
      <4> SUFFICES ASSUME NEW i \in 1 .. Len(inbox'), inbox'[i].pos = p
                   PROVE  /\ inbox'[i].intent <= intent[p]
                          /\ inbox'[i].intent = intent[p] =>
                               /\ task'[<<p, intent[p]>>].pc \in Ended
                               /\ inbox'[i].kind = "Reverted" => NoneIn(p, sells')
        BY <1>1, <1>8 DEF Answered
      <4>1. CASE i \in 1 .. Len(inbox) /\ inbox'[i] = inbox[i] BY <2>2, <4>1
      <4>2. CASE inbox'[i] = m BY <1>5, <2>1, <2>4, <3>4, <3>6, <4>2 DEF new
      <4> QED BY <3>5, <4>1, <4>2
    <3>8. kind \in Finals => IsFinal(inbox'[Len(inbox) + 1], p, intent[p])
      BY <2>1, <3>4, <3>5 DEF IsFinal
    <3>9. Unanswered(p)' BY <1>1, <2>4, <3>5, <3>8 DEF Unanswered
    <3> QED BY <3>7, <3>9
  <2> QED BY <1>1, <2>3, <2>4
<1> QED BY <1>6, <1>7, <1>8

LEMMA MovedSafe ==
    ASSUME Types, NEW p \in Positions, NEW n \in Intents, Safe(p), Moved(p, n) PROVE Safe(p)'
BY MovedTasks, MovedMessages DEF Safe, Moved

\* The same, for a step that sends nothing: what has to be shown of an action.
QuietMove(t) ==
    LET p == t[1]
    IN  /\ UNCHANGED <<eng, intent>> /\ Quiet(sells, sells')
        /\ \A u \in Tasks : u # t => task'[u] = task[u]
        /\ \A q \in Positions : q # p => row'[q] = row[q]
        /\ task[t].pc # "off"
        /\ \/ row'[p] = row[p]
           \/ t[2] = Orphan /\ task'[t].pc \in Ended /\ row'[p] # "Holding"
        /\ task'[t].pc \in Claims => task[t].pc \in Claims \/ ~exit_held(p)
        /\ task[t].pc \in Ended => task'[t].pc \in Ended /\ UNCHANGED inbox
        /\ task'[t].pc \in {"spawned", "queued", "send"} => NoneIn(p, sells')
        /\ task'[t].pc \in Sent => LivesIn(p, sells') \subseteq {task'[t].sig}
        /\ task'[t].pc # "prove"
        /\ task'[t].pc = "bag" =>
             /\ task[t].pc = "prove" /\ task'[t].known = task[t].known
             /\ \A s \in 1 .. Len(sells') : sells'[s].pos = p => sells'[s].st # "flying"
        /\ \/ /\ UNCHANGED inbox
              /\ task'[t].pc \in Ended =>
                    task[t].pc \in Ended \/ NoneIn(p, sells') \/ t[2] = Orphan
           \/ \E kind \in Kinds : /\ Answer(t, kind) /\ task'[t].pc \in Ended
                                  /\ kind \in Finals \/ NoneIn(p, sells')

LEMMA PairFacts ==
    ASSUME NEW t \in Tasks
    PROVE  /\ t[1] \in Positions /\ t[2] \in Intents /\ t = <<t[1], t[2]>>
           /\ \A k \in Intents : <<t[1], k>> \in Tasks /\ (k # t[2] => <<t[1], k>> # t)
           /\ \A q \in Positions, k \in Intents : <<q, k>> \in Tasks /\ (q # t[1] => <<q, k>> # t)
BY TaskPairs DEF Intents

LEMMA QuietMoveSafe == ASSUME Types, AllSafe, NEW t \in Tasks, QuietMove(t) PROVE AllSafe'
<1> DEFINE p == t[1]
           n == t[2]
<1>1. /\ p \in Positions /\ n \in Intents /\ t = <<p, n>>
      /\ \A k \in Intents : <<p, k>> \in Tasks /\ (k # n => <<p, k>> # t)
      /\ \A q \in Positions, k \in Intents : <<q, k>> \in Tasks /\ (q # p => <<q, k>> # t)
  BY PairFacts
<1>2. /\ UNCHANGED <<eng, intent>> /\ Quiet(sells, sells')
      /\ \A u \in Tasks : u # t => task'[u] = task[u]
      /\ \A q \in Positions : q # p => row'[q] = row[q]
      /\ UNCHANGED inbox \/ \E kind \in Kinds : Answer(t, kind)
  BY DEF QuietMove
<1>3. \A q : KeptSells(q) BY <1>2, QuietKept
<1>4. ASSUME NEW q \in Positions, q # p PROVE Safe(q)'
  <2>1. InboxKept(q)
    <3>1. CASE UNCHANGED inbox BY <3>1, SameShift DEF InboxKept
    <3>2. ASSUME NEW kind \in Kinds, Answer(t, kind) PROVE InboxKept(q)
      <4>1. PICK m \in MessageType : m = Message(t, kind) BY MessageTyped
      <4>2. m.pos # q BY <1>4, <4>1, MessageTyped
      <4>3. inbox' = Append(inbox, m) BY <3>2, <4>1 DEF Answer
      <4> QED BY <4>2, <4>3, AppendShift DEF InboxKept
    <3> QED BY <1>2, <3>1, <3>2
  <2>2. Still(q) BY <1>1, <1>2, <1>3, <1>4, <2>1 DEF Still
  <2> QED BY <2>2, StillSafe DEF AllSafe
<1>5. Moved(p, n)
  <2> HIDE DEF p, n
  <2>1. AllNamed(p)' /\ Single(p)' BY <1>1, <1>3, KeptFacts DEF AllSafe, Safe
  <2>2. exit_held(p) <=> \E k \in Intents : task[<<p, k>>].pc \in Claims
    BY DEF exit_held, Intents
  <2>3. \A k \in Intents : k # n => task'[<<p, k>>] = task[<<p, k>>] BY <1>1, <1>2
  <2>4. eng'[p] = eng[p] /\ intent'[p] = intent[p] BY <1>2
  <2>5. \/ row'[p] = row[p]
        \/ n = Orphan /\ task'[t].pc \in Ended /\ row'[p] # "Holding"
    BY DEF QuietMove, p, n
  <2>6. /\ task[t].pc # "off"
        /\ task'[t].pc \in Claims => task[t].pc \in Claims \/ ~exit_held(p)
        /\ task[t].pc \in Ended => task'[t].pc \in Ended /\ UNCHANGED inbox
        /\ task'[t].pc \in {"spawned", "queued", "send"} => NoneIn(p, sells')
        /\ task'[t].pc \in Sent => LivesIn(p, sells') \subseteq {task'[t].sig}
        /\ task'[t].pc # "prove"
        /\ task'[t].pc = "bag" =>
             /\ task[t].pc = "prove" /\ task'[t].known = task[t].known
             /\ \A s \in 1 .. Len(sells') : sells'[s].pos = p => sells'[s].st # "flying"
    BY DEF QuietMove, p
  <2>7. \/ /\ UNCHANGED inbox
           /\ task'[t].pc \in Ended => task[t].pc \in Ended \/ NoneIn(p, sells') \/ n = Orphan
        \/ \E kind \in Kinds : /\ Answer(t, kind) /\ task'[t].pc \in Ended
                               /\ kind \in Finals \/ NoneIn(p, sells')
    BY DEF QuietMove, p, n
  <2>8. task[<<p, n>>] = task[t] /\ task'[<<p, n>>] = task'[t] BY <1>1
  <2>9. \/ /\ UNCHANGED inbox
           /\ task'[t].pc \in Ended => task[t].pc \in Ended \/ NoneIn(p, sells') \/ n = Orphan
        \/ \E kind \in Kinds : /\ Answer(<<p, n>>, kind) /\ task'[t].pc \in Ended
                               /\ kind \in Finals \/ NoneIn(p, sells')
    BY <1>1, <2>7
  <2> QED BY <1>3, <2>1, <2>2, <2>3, <2>4, <2>5, <2>6, <2>8, <2>9 DEF Moved
<1>6. Safe(p)' BY <1>1, <1>5, MovedSafe DEF AllSafe
<1> QED BY <1>4, <1>6 DEF AllSafe

\* What the invariant says of one task.
LEMMA TaskFacts ==
    ASSUME Types, AllSafe, NEW t \in Tasks
    PROVE  /\ t[2] = Orphan /\ task[t].pc # "off" => eng[t[1]] = "Gone" /\ row[t[1]] # "Holding"
           /\ task[t].pc \in {"spawned", "queued", "send"} => NoneIn(t[1], sells)
           /\ task[t].pc \in Sent => LivesIn(t[1], sells) \subseteq {task[t].sig}
           /\ task[t].pc \in {"prove", "bag"} =>
                /\ t[2] = Orphan /\ row[t[1]] \in Open
                /\ \A s \in 1 .. Len(sells) : sells[s].pos = t[1] =>
                     /\ s \in task[t].known
                     /\ task[t].pc = "bag" => sells[s].st # "flying"
<1> DEFINE p == t[1]
           n == t[2]
<1>1. p \in Positions /\ n \in Intents /\ t = <<p, n>> BY PairFacts
<1>2. RowFollows(p) /\ InStep(p) /\ Clear(p) /\ OnlyLast(p) /\ Proving(p)
  BY <1>1 DEF AllSafe, Safe, TasksSafe
<1> HIDE DEF p, n
<1>3. n = Orphan /\ task[t].pc # "off" => eng[p] = "Gone" /\ row[p] # "Holding"
  BY <1>1, <1>2 DEF InStep, RowFollows
<1>4. task[t].pc \in {"spawned", "queued", "send"} => NoneIn(p, sells) BY <1>1, <1>2 DEF Clear
<1>5. task[t].pc \in Sent => LivesIn(p, sells) \subseteq {task[t].sig} BY <1>1, <1>2 DEF OnlyLast
<1>6. task[t].pc \in {"prove", "bag"} =>
        /\ n = Orphan /\ row[p] \in Open
        /\ \A s \in 1 .. Len(sells) : sells[s].pos = p =>
             /\ s \in task[t].known
             /\ task[t].pc = "bag" => sells[s].st # "flying"
  BY <1>1, <1>2 DEF Proving
<1> QED BY <1>3, <1>4, <1>5, <1>6 DEF p, n

LEMMA NoneKept ==
    ASSUME Quiet(sells, sells'), NEW p \in Positions
    PROVE  /\ NoneIn(p, sells) => NoneIn(p, sells')
           /\ \A u : LivesIn(p, sells) \subseteq {u} => LivesIn(p, sells') \subseteq {u}
BY QuietKept, KeptFacts

\* A task moves on, and nothing but sells changes with it.
LEMMA GoMove ==
    ASSUME Types, AllSafe, NEW t \in Tasks, NEW pc \in Points, Go(t, pc),
           UNCHANGED <<eng, intent, row, inbox>>, Quiet(sells, sells'),
           task[t].pc \notin Ended, pc \notin Ended \cup {"prove"},
           pc \in Claims => task[t].pc \in Claims \/ ~exit_held(t[1]),
           pc \in {"spawned", "queued", "send"} => NoneIn(t[1], sells'),
           pc \in Sent => LivesIn(t[1], sells') \subseteq {task[t].sig},
           pc = "bag" => /\ task[t].pc = "prove"
                         /\ \A s \in 1 .. Len(sells') : sells'[s].pos = t[1] => sells'[s].st # "flying"
    PROVE  AllSafe'
<1>1. /\ task' \in [Tasks -> TaskType] /\ \A u \in Tasks : u # t => task'[u] = task[u]
      /\ task'[t].pc = pc /\ task'[t].sig = task[t].sig /\ task'[t].known = task[t].known
  BY GoFacts
<1>2. task[t].pc # "off" BY DEF Ended
<1>3. QuietMove(t) BY <1>1, <1>2 DEF QuietMove
<1> QED BY <1>3, QuietMoveSafe

\* A task ends, without an answer when nothing is alive or nobody waits for one.
Replies(t) == \E kind \in Kinds : Answer(t, kind) /\ (kind \in Finals \/ NoneIn(t[1], sells))

LEMMA EndMove ==
    ASSUME Types, AllSafe, NEW t \in Tasks,
           \A u \in Tasks : u # t => task'[u] = task[u], task'[t].pc \in Ended,
           UNCHANGED <<eng, intent>>, Quiet(sells, sells'),
           task[t].pc # "off", task'[t].pc \in Claims => task[t].pc \in Claims,
           \A q \in Positions : q # t[1] => row'[q] = row[q],
           row'[t[1]] = row[t[1]] \/ (t[2] = Orphan /\ row'[t[1]] # "Holding"),
           \/ UNCHANGED inbox /\ (task[t].pc \in Ended \/ NoneIn(t[1], sells) \/ t[2] = Orphan)
           \/ task[t].pc \notin Ended /\ Replies(t)
    PROVE  AllSafe'
<1>1. task'[t].pc \notin Sent \cup {"spawned", "queued", "send", "prove", "bag"} BY DEF Ended, Sent
<1>2. NoneIn(t[1], sells) => NoneIn(t[1], sells') BY PairFacts, NoneKept
<1>3. QuietMove(t) BY <1>1, <1>2 DEF QuietMove, Replies
<1> QED BY <1>3, QuietMoveSafe

LEMMA OffMove ==
    ASSUME Types, AllSafe, NEW t \in Tasks, task' = [task EXCEPT ![t] = Off],
           UNCHANGED <<eng, intent>>, Quiet(sells, sells'), task[t].pc # "off",
           \A q \in Positions : q # t[1] => row'[q] = row[q],
           row'[t[1]] = row[t[1]] \/ (t[2] = Orphan /\ row'[t[1]] # "Holding"),
           \/ UNCHANGED inbox /\ (task[t].pc \in Ended \/ NoneIn(t[1], sells) \/ t[2] = Orphan)
           \/ task[t].pc \notin Ended /\ Replies(t)
    PROVE  AllSafe'
<1>1. /\ \A u \in Tasks : u # t => task'[u] = task[u]
      /\ task'[t].pc = "off"
  BY OffType DEF Types
<1>2. "off" \in Ended /\ "off" \notin Claims BY DEF Ended, Claims
<1> QED BY <1>1, <1>2, EndMove

LEMMA FinishMove ==
    ASSUME Types, AllSafe, NEW t \in Tasks, NEW kind \in Kinds, Finish(t, kind),
           Quiet(sells, sells'), task[t].pc \in Claims \ Ended,
           kind \in Finals \/ NoneIn(t[1], sells)
    PROVE  AllSafe'
<1>1. Go(t, "leave") /\ UNCHANGED <<eng, intent>> BY DEF Finish
<1>2. "leave" \in Points /\ "leave" \in Ended BY DEF Points, Claims, Ended
<1>3. (\A u \in Tasks : u # t => task'[u] = task[u]) /\ task'[t].pc = "leave"
      /\ task'[t].pc \in Ended
  BY <1>1, <1>2, GoFacts
<1>4. /\ task[t].pc # "off" /\ t[1] \in Positions /\ UNCHANGED <<eng, intent>>
      /\ task'[t].pc \in Claims => task[t].pc \in Claims
  BY <1>1, PairFacts DEF Ended
<1>5. CASE t[2] = Orphan
  <2>1. UNCHANGED inbox /\ row' = [row EXCEPT ![t[1]] = OrphanRow(t[1], kind)]
    BY <1>5 DEF Finish
  <2>2. row[t[1]] # "Holding" BY <1>4, <1>5, TaskFacts
  <2>3. OrphanRow(t[1], kind) # "Holding" BY <2>2 DEF OrphanRow
  <2>4. row'[t[1]] # "Holding" /\ \A q \in Positions : q # t[1] => row'[q] = row[q]
    BY <1>4, <2>1, <2>3 DEF Types
  <2>6. row'[t[1]] = row[t[1]] \/ (t[2] = Orphan /\ row'[t[1]] # "Holding") BY <1>5, <2>4
  <2>7. UNCHANGED inbox /\ (task[t].pc \in Ended \/ NoneIn(t[1], sells) \/ t[2] = Orphan)
    BY <1>5, <2>1
  <2>8. \A q \in Positions : q # t[1] => row'[q] = row[q] BY <2>4
  <2> QED BY <1>3, <1>4, <2>6, <2>7, <2>8, EndMove
<1>6. CASE t[2] # Orphan
  <2>1. Answer(t, kind) /\ UNCHANGED row BY <1>6 DEF Finish
  <2>2. task[t].pc \notin Ended /\ Replies(t) BY <2>1 DEF Replies
  <2>3. row'[t[1]] = row[t[1]] \/ (t[2] = Orphan /\ row'[t[1]] # "Holding") BY <2>1
  <2>4. \A q \in Positions : q # t[1] => row'[q] = row[q] BY <2>1
  <2> QED BY <1>3, <1>4, <2>2, <2>3, <2>4, EndMove
<1> QED BY <1>5, <1>6

-----------------------------------------------------------------------------
(* The steps of a task, one by one.                                        *)

LEMMA StartSafe ==
    ASSUME Types, Fine, AllSafe, NEW t \in Tasks,
           \/ WalletNotLoaded(t) \/ TryBeginExit(t) \/ MintWaitOver(t)
           \/ BeginExitMint(t) \/ Leave(t)
    PROVE  AllSafe'
<1> USE DEF rowVars, engVars
<1>1. UNCHANGED <<eng, intent, row, sells>>
  BY DEF WalletNotLoaded, TryBeginExit, MintWaitOver, BeginExitMint, Leave
<1>2. Quiet(sells, sells') BY <1>1, SameQuiet DEF Fine
<1>3. /\ task[t].pc \in {"spawned", "queued", "send"} => NoneIn(t[1], sells)
      /\ NoneIn(t[1], sells) => NoneIn(t[1], sells')
  BY <1>2, TaskFacts, PairFacts, NoneKept
<1>4. CASE WalletNotLoaded(t)
  <2>1. /\ task[t].pc = "spawned" /\ task' = [task EXCEPT ![t] = Off] /\ Answer(t, "Reverted")
    BY <1>4 DEF WalletNotLoaded
  <2>2. Replies(t) /\ task[t].pc \notin Ended BY <1>3, <2>1 DEF Replies, Kinds, Ended
  <2> QED BY <1>1, <1>2, <2>1, <2>2, OffMove
<1>5. CASE TryBeginExit(t)
  <2>1. task[t].pc = "spawned" /\ UNCHANGED inbox /\ task[t].pc \notin Ended
    BY <1>5 DEF TryBeginExit, Ended
  <2>2. CASE exit_held(t[1])
    <3>1. task' = [task EXCEPT ![t] = Off] BY <1>5, <2>2 DEF TryBeginExit
    <3> QED BY <1>1, <1>2, <1>3, <2>1, <3>1, OffMove
  <2>3. ASSUME NEW pc \in {"queued", "send"}, Go(t, pc), ~exit_held(t[1]) PROVE AllSafe'
    <3>1. pc \in Points /\ pc \notin Ended \cup {"prove"} /\ pc \notin Sent /\ pc # "bag"
      BY DEF Points, Claims, Ended, Sent
    <3> QED BY <1>1, <1>2, <1>3, <2>1, <2>3, <3>1, GoMove
  <2> QED BY <1>5, <2>2, <2>3 DEF TryBeginExit
<1>6. CASE MintWaitOver(t)
  <2>1. task[t].pc = "queued" /\ Answer(t, "Reverted") /\ Go(t, "late") BY <1>6 DEF MintWaitOver
  <2>2. Replies(t) /\ task[t].pc \notin Ended BY <1>3, <2>1 DEF Replies, Kinds, Ended
  <2>3. task[t].pc \in Claims /\ task[t].pc # "off" /\ "late" \in Points /\ "late" \in Ended
    BY <2>1 DEF Points, Claims, Ended
  <2>4. (\A u \in Tasks : u # t => task'[u] = task[u]) /\ task'[t].pc = "late"
    BY <2>1, <2>3, GoFacts
  <2> QED BY <1>1, <1>2, <2>2, <2>3, <2>4, EndMove
<1>7. CASE BeginExitMint(t)
  <2>1. /\ task[t].pc = "queued" /\ UNCHANGED inbox
        /\ Go(t, "send") \/ task' = [task EXCEPT ![t] = Off]
    BY <1>7 DEF BeginExitMint
  <2>2. task[t].pc \notin Ended /\ task[t].pc \in Claims /\ task[t].pc # "off"
    BY <2>1 DEF Claims, Ended
  <2>3. CASE Go(t, "send")
    <3>1. "send" \in Points /\ "send" \notin Ended \cup {"prove"} /\ "send" \notin Sent
      BY DEF Points, Claims, Ended, Sent
    <3> QED BY <1>1, <1>2, <1>3, <2>1, <2>2, <2>3, <3>1, GoMove
  <2>4. CASE task' = [task EXCEPT ![t] = Off]
    BY <1>1, <1>2, <1>3, <2>1, <2>2, <2>4, OffMove
  <2> QED BY <2>1, <2>3, <2>4
<1>8. CASE Leave(t)
  <2>1. task[t].pc \in {"late", "leave"} /\ UNCHANGED inbox /\ task' = [task EXCEPT ![t] = Off]
    BY <1>8 DEF Leave
  <2>2. task[t].pc \in Ended /\ task[t].pc # "off" BY <2>1 DEF Ended
  <2> QED BY <1>1, <1>2, <2>1, <2>2, OffMove
<1> QED BY <1>4, <1>5, <1>6, <1>7, <1>8

\* Where a task's last sell is the only one that may be alive.
LEMMA LastFacts ==
    ASSUME Types, Fine, AllSafe, NEW t \in Tasks, task[t].pc \in Sent
    PROVE  /\ LivesIn(t[1], sells) \subseteq {task[t].sig}
           /\ task[t].pc # "confirm" => task[t].sig \in SellIds
           /\ task[t].sig = 0 => NoneIn(t[1], sells)
           /\ task[t].pc \in Claims \ Ended
<1>1. SigFine(t, task[t], sells) BY DEF Fine, TasksFine
<1>2. LivesIn(t[1], sells) \subseteq {task[t].sig} BY TaskFacts
<1>3. task[t].pc # "confirm" => task[t].sig \in SellIds BY <1>1 DEF SigFine, SellIds
<1>4. 0 \notin 1 .. Len(sells) BY DEF Types
<1>5. task[t].sig = 0 => NoneIn(t[1], sells) BY <1>2, <1>4 DEF NoneIn, LivesIn
<1>6. task[t].pc \in Claims \ Ended BY DEF Sent, Claims, Ended
<1> QED BY <1>2, <1>3, <1>5, <1>6

LEMMA LoopSafe ==
    ASSUME Types, Fine, AllSafe, NEW t \in Tasks,
           \/ SendNothing(t) \/ SendsExhausted(t) \/ ConfirmSell(t) \/ ConfirmWindowOver(t)
           \/ ResendDead(t) \/ WaitOver(t) \/ HealAndConfirm(t)
           \/ \E b \in BOOLEAN : JudgeReverted(t, b) \/ JudgeUnclear(t, b)
    PROVE  AllSafe'
<1> USE DEF rowVars, engVars
<1>0. /\ UNCHANGED sells => Quiet(sells, sells')
      /\ task[t].pc \in {"spawned", "queued", "send"} => NoneIn(t[1], sells)
      /\ t[1] \in Positions
  BY SameQuiet, TaskFacts, PairFacts DEF Fine
<1>1. CASE SendNothing(t)
  <2>1. /\ task[t].pc = "send" /\ UNCHANGED <<eng, intent, row, inbox, sells>>
        /\ task' = [task EXCEPT ![t].pc = "confirm", ![t].tries = @ + 1, ![t].sig = 0]
    BY <1>1 DEF SendNothing
  <2>2. task[t] \in TaskType BY DEF Types
  <2>3. PICK k \in Nat : k = task[t].tries + 1 BY <2>2 DEF TaskType
  <2>4. task' = [task EXCEPT ![t] = [task[t] EXCEPT !.pc = "confirm", !.tries = k, !.sig = 0]]
    BY <2>1, <2>3
  <2>5. /\ \A u \in Tasks : u # t => task'[u] = task[u]
        /\ task'[t].pc = "confirm" /\ task'[t].sig = 0
    BY <2>2, <2>4 DEF Types, TaskType
  <2>6. /\ task[t].pc \in Claims /\ task[t].pc \notin Ended /\ task[t].pc # "off"
        /\ "confirm" \notin Ended
    BY <2>1 DEF Claims, Ended
  <2>7. NoneIn(t[1], sells') /\ LivesIn(t[1], sells') \subseteq {task'[t].sig}
    BY <1>0, <2>1 DEF NoneIn
  <2>8. QuietMove(t) BY <1>0, <2>1, <2>5, <2>6, <2>7 DEF QuietMove
  <2> QED BY <2>8, QuietMoveSafe
<1>2. CASE SendsExhausted(t)
  <2>1. task[t].pc = "send" /\ UNCHANGED sells BY <1>2 DEF SendsExhausted
  <2>2. PICK kind \in {"Reverted", "Unconfirmed"} : Finish(t, kind) BY <1>2 DEF SendsExhausted
  <2>3. kind \in Kinds /\ task[t].pc \in Claims \ Ended BY <2>1 DEF Kinds, Claims, Ended
  <2> QED BY <1>0, <2>1, <2>2, <2>3, FinishMove
<1>3. CASE ConfirmSell(t) \/ WaitOver(t)
  <2>1. task[t].pc \in {"confirm", "wait", "waitLanded"} /\ UNCHANGED sells
    BY <1>3 DEF ConfirmSell, WaitOver
  <2>2. PICK kind \in {"Confirmed", "Unconfirmed"} : Finish(t, kind)
    BY <1>3 DEF ConfirmSell, WaitOver
  <2>3. kind \in Kinds /\ kind \in Finals /\ task[t].pc \in Claims \ Ended
    BY <2>1 DEF Kinds, Finals, Claims, Ended
  <2> QED BY <1>0, <2>1, <2>2, <2>3, FinishMove
<1>4. CASE HealAndConfirm(t)
  <2>1. task[t].pc = "waitLanded" /\ sells' = Healed(SentBy(t)) /\ Finish(t, "Confirmed")
    BY <1>4 DEF HealAndConfirm
  <2>2. "Confirmed" \in Kinds /\ "Confirmed" \in Finals /\ task[t].pc \in Claims \ Ended
    BY <2>1 DEF Kinds, Finals, Claims, Ended
  <2>3. Quiet(sells, sells') BY <2>1, HealedQuiet DEF Fine
  <2> QED BY <2>1, <2>2, <2>3, FinishMove
<1>5. CASE ConfirmWindowOver(t)
  <2>1. /\ task[t].pc = "confirm" /\ UNCHANGED <<eng, intent, row, inbox, sells>>
        /\ Go(t, IF task[t].sig = 0 THEN "send" ELSE "judge")
    BY <1>5 DEF ConfirmWindowOver
  <2>2. PICK pc \in {"send", "judge"} : Go(t, pc) /\ (pc = "send" => task[t].sig = 0) BY <2>1
  <2>3. task[t].pc \in Sent BY <2>1 DEF Sent
  <2>4. /\ pc \in Points /\ pc \notin Ended \cup {"prove"} /\ task[t].pc \in Claims
        /\ task[t].pc \notin Ended
    BY <2>1 DEF Points, Claims, Ended
  <2>5. /\ pc \in {"spawned", "queued", "send"} => NoneIn(t[1], sells')
        /\ pc \in Sent => LivesIn(t[1], sells') \subseteq {task[t].sig}
    BY <2>1, <2>2, <2>3, LastFacts
  <2> QED BY <1>0, <2>1, <2>2, <2>4, <2>5, GoMove
<1>6. CASE ResendDead(t)
  <2> DEFINE s == task[t].sig
  <2>1. /\ task[t].pc = "judge" /\ sells[s].st = "flying" /\ sells' = Burned({s})
        /\ Go(t, "send") /\ UNCHANGED <<eng, intent, row, inbox>>
    BY <1>6 DEF ResendDead
  <2>2. task[t].pc \in Sent BY <2>1 DEF Sent
  <2>3. LivesIn(t[1], sells) \subseteq {s} /\ s \in SellIds BY <2>1, <2>2, LastFacts
  <2>4. Quiet(sells, sells') BY <2>1, BurnedQuiet DEF Fine
  <2>5. LivesIn(t[1], sells') \subseteq {s} BY <1>0, <2>3, <2>4, NoneKept
  <2>6. sells'[s].st = "dead"
    <3>1. sells[s] \in SellType BY <2>3, SellFields
    <3>2. sells'[s] = [sells[s] EXCEPT !.st = "dead"] BY <2>1, <2>3 DEF Burned
    <3> QED BY <3>1, <3>2 DEF SellType
  <2>7. NoneIn(t[1], sells') BY <2>5, <2>6 DEF NoneIn, LivesIn, Live
  <2>8. /\ "send" \in Points /\ "send" \notin Ended \cup {"prove"} /\ "send" \notin Sent
        /\ task[t].pc \in Claims /\ task[t].pc \notin Ended
    BY <2>1 DEF Points, Claims, Ended, Sent
  <2> QED BY <2>1, <2>4, <2>7, <2>8, GoMove
<1>7. ASSUME NEW b \in BOOLEAN, JudgeReverted(t, b) PROVE AllSafe'
  <2>1. /\ task[t].pc = "judge" /\ sells[task[t].sig].st = "reverted" /\ UNCHANGED sells
        /\ \/ Go(t, "send") /\ UNCHANGED <<eng, intent, row, inbox>>
           \/ Finish(t, "Fatal")
    BY <1>7 DEF JudgeReverted
  <2>2. task[t].pc \in Sent BY <2>1 DEF Sent
  <2>3. NoneIn(t[1], sells') BY <2>1, <2>2, LastFacts DEF NoneIn, LivesIn, Live
  <2>4. /\ "send" \in Points /\ "send" \notin Ended \cup {"prove"} /\ "send" \notin Sent
        /\ task[t].pc \in Claims /\ task[t].pc \notin Ended
        /\ "Fatal" \in Kinds /\ "Fatal" \in Finals
    BY <2>1 DEF Points, Claims, Ended, Sent, Kinds, Finals
  <2>5. CASE Finish(t, "Fatal") BY <1>0, <2>1, <2>4, <2>5, FinishMove
  <2>6. CASE Go(t, "send") /\ UNCHANGED <<eng, intent, row, inbox>>
    BY <1>0, <2>1, <2>3, <2>4, <2>6, GoMove
  <2> QED BY <2>1, <2>5, <2>6
<1>8. ASSUME NEW b \in BOOLEAN, JudgeUnclear(t, b) PROVE AllSafe'
  <2>1. task[t].pc = "judge" /\ UNCHANGED <<eng, intent, row, inbox, sells>>
    BY <1>8 DEF JudgeUnclear
  <2>2. PICK pc \in {"waitLanded", "wait"} : Go(t, pc) BY <1>8 DEF JudgeUnclear
  <2>3. /\ pc \in Points /\ pc \notin Ended \cup {"prove"} /\ task[t].pc \in Claims
        /\ task[t].pc \notin Ended /\ task[t].pc \in Sent
    BY <2>1 DEF Points, Claims, Ended, Sent
  <2>4. LivesIn(t[1], sells') \subseteq {task[t].sig} BY <2>1, <2>3, LastFacts
  <2>5. pc \notin {"spawned", "queued", "send", "bag"} OBVIOUS
  <2> QED BY <1>0, <2>1, <2>2, <2>3, <2>4, <2>5, GoMove
<1> QED BY <1>1, <1>2, <1>3, <1>4, <1>5, <1>6, <1>7, <1>8

LEMMA SendSafe ==
    ASSUME Types, Fine, AllSafe, NEW t \in Tasks, NEW ok \in BOOLEAN, Send(t, ok),
           "lost_append" \notin Faults
    PROVE  AllSafe'
<1> USE DEF rowVars, engVars
<1> DEFINE p == t[1]
           n == t[2]
           new == NewSell(t, TRUE)
<1>1. /\ task[t].pc = "send" /\ UNCHANGED <<eng, intent, row, inbox>>
      /\ sells' = Append(sells, NewSell(t, TRUE))
      /\ task' = [task EXCEPT ![t].pc = "confirm", ![t].tries = @ + 1,
                              ![t].sig = Len(sells) + 1, ![t].ok = ok]
  BY DEF Send
<1>2. /\ p \in Positions /\ n \in Intents /\ t = <<p, n>>
      /\ \A k \in Intents : <<p, k>> \in Tasks /\ (k # n => <<p, k>> # t)
      /\ \A q \in Positions, k \in Intents : <<q, k>> \in Tasks /\ (q # p => <<q, k>> # t)
  BY PairFacts
<1>3. /\ Len(sells') = Len(sells) + 1 /\ sells'[Len(sells) + 1] = new
      /\ \A s \in SellIds : sells'[s] = sells[s]
  BY <1>1, SendOnward DEF Fine
<1>4. new.pos = p /\ new.st = "flying" /\ new.named = TRUE BY DEF NewSell
<1>5. Len(sells) \in Nat BY DEF Types
<1>6. \A s \in 1 .. Len(sells') : \/ s \in 1 .. Len(sells) /\ sells'[s] = sells[s]
                                  \/ s = Len(sells) + 1 /\ sells'[s] = new
  <2> HIDE DEF new
  <2>1. \A s \in 1 .. Len(sells') : s \in 1 .. Len(sells) \/ s = Len(sells) + 1 BY <1>3, <1>5
  <2> QED BY <1>3, <2>1 DEF SellIds
<1>7. /\ \A u \in Tasks : u # t => task'[u] = task[u]
      /\ task'[t].pc = "confirm" /\ task'[t].sig = Len(sells) + 1
  <2>1. task[t] \in TaskType BY DEF Types
  <2>2. PICK k \in Nat : k = task[t].tries + 1 BY <2>1 DEF TaskType
  <2>3. PICK i \in Nat : i = Len(sells) + 1 BY <1>5
  <2>4. task' = [task EXCEPT ![t] = [task[t] EXCEPT !.pc = "confirm", !.tries = k, !.sig = i, !.ok = ok]]
    BY <1>1, <2>2, <2>3
  <2>5. /\ \A u \in Tasks : u # t => task'[u] = task[u]
        /\ task'[t].pc = "confirm" /\ task'[t].sig = i
    BY <2>1, <2>4 DEF Types, TaskType
  <2> QED BY <2>3, <2>5
<1> HIDE DEF p, n, new
<1>8. NoneIn(p, sells) BY <1>1, TaskFacts DEF p
<1>9. \A s \in SellIds : Turns(sells[s], sells[s]) BY DEF Turns, Fine, SellsFine
<1>10. ASSUME NEW q \in Positions, q # p PROVE Safe(q)'
  <2>1. KeptSells(q) BY <1>4, <1>6, <1>9, <1>10 DEF KeptSells, SellIds
  <2>2. InboxKept(q) BY <1>1, SameShift DEF InboxKept
  <2>3. \A k \in Intents : task'[<<q, k>>] = task[<<q, k>>] BY <1>2, <1>7, <1>10
  <2>4. Still(q) BY <1>1, <2>1, <2>2, <2>3 DEF Still
  <2> QED BY <2>4, StillSafe DEF AllSafe
<1>11. LivesIn(p, sells') \subseteq {Len(sells) + 1}
  <2> SUFFICES ASSUME NEW s \in 1 .. Len(sells'), sells'[s].pos = p, sells'[s].st \in Live
               PROVE  s = Len(sells) + 1
    BY DEF LivesIn
  <2> QED BY <1>6, <1>8 DEF NoneIn, LivesIn
<1>12. AllNamed(p)' BY <1>2, <1>4, <1>6 DEF AllSafe, Safe, AllNamed
<1>13. Single(p)' BY <1>11 DEF Single
<1>14. Moved(p, n)
  <2>1. task[<<p, n>>] = task[t] /\ task'[<<p, n>>] = task'[t] BY <1>2
  <2>2. /\ task[t].pc # "off" /\ task[t].pc \in Claims /\ task[t].pc \notin Ended
        /\ task'[t].pc \notin Ended
    BY <1>1, <1>7 DEF Claims, Ended
  <2>3. LivesIn(p, sells') \subseteq {task'[t].sig} BY <1>7, <1>11
  <2>4. \A k \in Intents : k # n => task'[<<p, k>>] = task[<<p, k>>] BY <1>2, <1>7
  <2>5. task'[t].pc \notin {"spawned", "queued", "send", "prove", "bag"} BY <1>7
  <2> QED BY <1>1, <1>12, <1>13, <2>1, <2>2, <2>3, <2>4, <2>5 DEF Moved
<1>15. Safe(p)' BY <1>2, <1>14, MovedSafe DEF AllSafe
<1> QED BY <1>10, <1>15 DEF AllSafe

\* When the account holds the bags of all open rows, no open row is sold: each
\* closed row has a landed sell of its own, and each landed sell took one bag.
LEMMA BagsCounted ==
    ASSUME Types, Fine, NEW p \in OpenRows, HeldOnChain >= Cardinality(OpenRows)
    PROVE  ~SoldIn(p, sells)
<1> SUFFICES ASSUME SoldIn(p, sells) PROVE FALSE OBVIOUS
<1> DEFINE L == {s \in SellIds : Landed(s)}
           D == Positions \ OpenRows
           E == D \cup {p}
           f == [q \in E |-> CHOOSE s \in L : sells[s].pos = q]
<1>1. IsFiniteSet(Positions) /\ OpenRows \subseteq Positions /\ p \in Positions
  BY RealExitAssumption DEF OpenRows
<1>2. /\ IsFiniteSet(OpenRows) /\ Cardinality(OpenRows) \in Nat /\ Cardinality(Positions) \in Nat
  BY <1>1, FS_Subset, FS_CardinalityType
<1>3. IsFiniteSet(D) /\ Cardinality(D) = Cardinality(Positions) - Cardinality(OpenRows)
  <2>1. Positions \cap OpenRows = OpenRows BY <1>1
  <2> QED BY <1>1, <2>1, FS_Difference
<1>4. IsFiniteSet(E) /\ Cardinality(E) = Cardinality(D) + 1
  <2>1. p \notin D OBVIOUS
  <2> QED BY <1>3, <2>1, FS_AddElement
<1>5. IsFiniteSet(L) /\ Cardinality(L) \in Nat
  <2>1. Len(sells) \in Nat BY DEF Types
  <2>2. IsFiniteSet(1 .. Len(sells)) BY <2>1, FS_Interval
  <2>3. L \in SUBSET (1 .. Len(sells)) BY DEF SellIds
  <2> QED BY <2>2, <2>3, FS_Subset, FS_CardinalityType
<1>6. HeldOnChain = Cardinality(Positions) - Cardinality(L) BY DEF HeldOnChain
<1>7. Cardinality(L) < Cardinality(E)
  <2> HIDE DEF L, D, E
  <2> QED BY <1>2, <1>3, <1>4, <1>5, <1>6
<1>8. \A q \in E : \E s \in L : sells[s].pos = q
  <2>1. \A q \in E : SoldIn(q, sells)
    BY DEF OpenRows, Fine, RowsPaid, Types, Statuses
  <2> QED BY <2>1 DEF SoldIn, SellIds, Landed
<1>9. \A q \in E : f[q] \in L /\ sells[f[q]].pos = q BY <1>8
<1>10. f \in [E -> L] BY <1>9
<1> HIDE DEF L, E, f
<1>11. \E q, r \in E : q # r /\ f[q] = f[r] BY <1>4, <1>5, <1>7, <1>10, FS_PigeonHole
<1> QED BY <1>9, <1>11

LEMMA OrphanSafe ==
    ASSUME Types, Fine, AllSafe, NEW t \in Tasks,
           \/ OwnSellLanded(t) \/ NotProvable(t) \/ PriorSellsDead(t)
           \/ ChainBagHeld(t) \/ ChainBagCleared(t) \/ ChainBagShort(t)
    PROVE  AllSafe'
<1> USE DEF rowVars, engVars
<1> DEFINE p == t[1]
<1>1. task[t].pc \in {"prove", "bag"} /\ UNCHANGED <<eng, intent>>
  BY DEF OwnSellLanded, NotProvable, PriorSellsDead, ChainBagHeld, ChainBagCleared, ChainBagShort
<1>2. /\ t[2] = Orphan /\ row[p] \in Open
      /\ \A s \in 1 .. Len(sells) : sells[s].pos = p =>
           s \in task[t].known /\ (task[t].pc = "bag" => sells[s].st # "flying")
  BY <1>1, TaskFacts
<1>3. /\ task[t].pc # "off" /\ task[t].pc \in Claims /\ task[t].pc \notin Ended
  BY <1>1 DEF Claims, Ended
<1>4. eng[p] = "Gone" /\ row[p] # "Holding" BY <1>2, <1>3, TaskFacts
<1>5. p \in Positions BY PairFacts
<1>6. UNCHANGED sells => Quiet(sells, sells') BY SameQuiet DEF Fine
<1>7. Book(p) => /\ row' = [row EXCEPT ![p] = "End"] /\ UNCHANGED inbox
  BY <1>4 DEF Book, Owned
<1> HIDE DEF p
<1>8. ASSUME Quiet(sells, sells'), UNCHANGED inbox, task' = [task EXCEPT ![t] = Off],
             NEW r, r # "Holding", row' = [row EXCEPT ![p] = r]
      PROVE  AllSafe'
  <2>1. row'[p] # "Holding" /\ \A q \in Positions : q # p => row'[q] = row[q]
    BY <1>5, <1>8 DEF Types
  <2> QED BY <1>1, <1>2, <1>3, <1>8, <2>1, OffMove DEF p
<1>9. ASSUME Quiet(sells, sells'), UNCHANGED <<inbox, row>>, task' = [task EXCEPT ![t] = Off]
      PROVE  AllSafe'
  BY <1>1, <1>2, <1>3, <1>9, OffMove
<1>10. CASE OwnSellLanded(t)
  <2>1. sells' = Healed(task[t].known) /\ Book(p) /\ task' = [task EXCEPT ![t] = Off]
    BY <1>10 DEF OwnSellLanded, p
  <2>2. Quiet(sells, sells') BY <2>1, HealedQuiet DEF Fine
  <2> QED BY <1>7, <1>8, <2>1, <2>2
<1>11. CASE NotProvable(t) BY <1>6, <1>9, <1>11 DEF NotProvable
<1>12. CASE PriorSellsDead(t)
  <2>1. /\ task[t].pc = "prove" /\ Provable(task[t].known) /\ Go(t, "bag")
        /\ sells' = Burned({s \in task[t].known : sells[s].tracked})
        /\ UNCHANGED <<eng, intent, row, inbox>>
    BY <1>12 DEF PriorSellsDead
  <2>2. Quiet(sells, sells') BY <2>1, BurnedQuiet DEF Fine
  <2>3. ASSUME NEW s \in 1 .. Len(sells'), sells'[s].pos = p PROVE sells'[s].st # "flying"
    <3>1. s \in 1 .. Len(sells) /\ sells[s].pos = p /\ Turns(sells[s], sells'[s])
      BY <2>2, <2>3 DEF Quiet, Turns
    <3>2. s \in task[t].known /\ sells[s] \in SellType BY <1>2, <3>1, SellFields DEF SellIds
    <3>3. CASE sells[s].tracked /\ sells[s].st = "flying"
      <4>1. sells'[s] = [sells[s] EXCEPT !.st = "dead"]
        BY <2>1, <3>1, <3>2, <3>3 DEF Burned, SellIds
      <4> QED BY <3>2, <4>1 DEF SellType
    <3>4. CASE sells[s].st # "flying" BY <3>1, <3>4 DEF Turns
    <3> QED BY <2>1, <3>2, <3>3, <3>4 DEF Provable
  <2>4. "bag" \in Points /\ "bag" \notin Ended \cup {"prove"} /\ "bag" \notin Sent
    BY DEF Points, Claims, Ended, Sent
  <2> QED BY <1>3, <2>1, <2>2, <2>3, <2>4, GoMove DEF p
<1>13. CASE ChainBagHeld(t)
  <2>1. /\ task[t].pc = "bag" /\ HeldOnChain >= Cardinality(OpenRows) /\ Go(t, "send")
        /\ UNCHANGED <<eng, intent, row, inbox, sells>>
    BY <1>13 DEF ChainBagHeld
  <2>2. p \in OpenRows BY <1>2, <1>5 DEF OpenRows
  <2>3. ~SoldIn(p, sells) BY <2>1, <2>2, BagsCounted
  <2>4. NoneIn(p, sells') BY <1>2, <2>1, <2>3 DEF NoneIn, LivesIn, Live, SoldIn
  <2>5. "send" \in Points /\ "send" \notin Ended \cup {"prove"} /\ "send" \notin Sent
    BY DEF Points, Claims, Ended, Sent
  <2> QED BY <1>3, <1>6, <2>1, <2>4, <2>5, GoMove DEF p
<1>14. CASE ChainBagCleared(t)
  <2>1. /\ UNCHANGED sells /\ task' = [task EXCEPT ![t] = Off]
        /\ Book(p) \/ UNCHANGED <<row, inbox>>
    BY <1>14 DEF ChainBagCleared, p
  <2> QED BY <1>6, <1>7, <1>8, <1>9, <2>1
<1>15. CASE ChainBagShort(t)
  <2>1. /\ UNCHANGED <<inbox, sells>> /\ task' = [task EXCEPT ![t] = Off]
        /\ row' = [row EXCEPT ![p] = "ExitStuck"]
    BY <1>2, <1>15 DEF ChainBagShort, p
  <2> QED BY <1>6, <1>8, <2>1
<1> QED BY <1>10, <1>11, <1>12, <1>13, <1>14, <1>15

LEMMA TaskStepSafe ==
    ASSUME Types, Fine, AllSafe, NEW t \in Tasks, TaskStep(t), "lost_append" \notin Faults
    PROVE  AllSafe'
BY StartSafe, LoopSafe, SendSafe, OrphanSafe DEF TaskStep

-----------------------------------------------------------------------------
(* The reaper, the operator, the engine, the chain and a restart.          *)

LEMMA EngineStates ==
    ASSUME Types, NEW p \in Positions, RowFollows(p)
    PROVE  /\ row[p] \notin {"Holding", "ExitPending"} => eng[p] = "Gone"
           /\ row[p] # "Holding" => eng[p] # "Holding"
BY DEF Types, RowFollows

LEMMA AllOfOne ==
    ASSUME Types, AllSafe, NEW p \in Positions
    PROVE  \A s \in 1 .. Len(sells) : sells[s].pos = p => s \in Named(p)
BY DEF AllSafe, Safe, AllNamed, Named, SellsOf, SellIds

\* An orphan sell is spawned for a row nobody owns, with all its sells.
LEMMA SpawnSafe ==
    ASSUME Types, AllSafe, NEW p \in Positions, NEW known \in SUBSET Nat,
           spawn_orphan_sell(p, known), Named(p) \subseteq known,
           UNCHANGED <<eng, intent, row, inbox>>, Quiet(sells, sells'),
           eng[p] = "Gone", row[p] \in Open
    PROVE  AllSafe'
<1>1. /\ \A u \in Tasks : u # <<p, Orphan>> => task'[u] = task[u]
      /\ task'[<<p, Orphan>>].pc = "prove" /\ task'[<<p, Orphan>>].known = known
  BY SpawnFacts
<1>2. \A k \in Intents : task[<<p, k>>].pc \notin Claims
  BY DEF spawn_orphan_sell, Idle, exit_held, Intents
<1>3. \A q : KeptSells(q) BY QuietKept
<1>4. /\ Orphan \in Intents
      /\ \A q \in Positions, k \in Intents :
           <<q, k>> \in Tasks /\ (q # p \/ k # Orphan => <<q, k>> # <<p, Orphan>>)
  BY TaskPairs, RealExitAssumption DEF Intents, Orphan
<1>5. \A q : InboxKept(q) BY SameShift DEF InboxKept
<1>6. ASSUME NEW q \in Positions, q # p PROVE Safe(q)'
  <2>1. Still(q) BY <1>1, <1>3, <1>4, <1>5, <1>6 DEF Still
  <2> QED BY <2>1, StillSafe DEF AllSafe
<1>7. Safe(p) BY DEF AllSafe
<1>8. \A k \in Intents : k # Orphan => task'[<<p, k>>] = task[<<p, k>>] BY <1>1, <1>4
<1>9. RowFollows(p)' /\ Untouched(p)' BY <1>7 DEF Safe, RowFollows, Untouched
<1>10. InStep(p)' BY <1>7, <1>8 DEF Safe, TasksSafe, InStep
<1>11. OneClaim(p)' BY <1>2, <1>8 DEF OneClaim
<1>12. LivesIn(p, sells') \subseteq LivesIn(p, sells) /\ (NoneIn(p, sells) => NoneIn(p, sells'))
       /\ Single(p)' /\ AllNamed(p)'
  BY <1>3, <1>7, KeptFacts DEF Safe
<1>13. Clear(p)' BY <1>1, <1>7, <1>8, <1>12 DEF Safe, TasksSafe, Clear
<1>14. OnlyLast(p)' BY <1>1, <1>2, <1>8 DEF OnlyLast, Sent, Claims
<1>15. Proving(p)'
  <2>1. \A k \in Intents : k # Orphan => task'[<<p, k>>].pc \notin {"prove", "bag"}
    BY <1>2, <1>8 DEF Claims
  <2>2. \A s \in 1 .. Len(sells') : sells'[s].pos = p => s \in known
    BY <1>3, AllOfOne DEF KeptSells
  <2> QED BY <1>1, <2>1, <2>2 DEF Proving
<1>16. Answered(p)' /\ Unanswered(p)' BY <1>7 DEF Safe, Answered, Unanswered
<1>17. Safe(p)' BY <1>9, <1>10, <1>11, <1>12, <1>13, <1>14, <1>15, <1>16 DEF Safe, TasksSafe
<1> QED BY <1>6, <1>17 DEF AllSafe

\* A step that moves no task and writes at most one row that nobody owns.
RowMove(p) ==
    /\ UNCHANGED <<eng, intent, task>> /\ Quiet(sells, sells')
    /\ \A q \in Positions : q # p => row'[q] = row[q]
    /\ \/ row'[p] = row[p]
       \/ /\ eng[p] = "Gone" /\ row'[p] # "Holding"
          /\ row'[p] \in Open \/ ~exit_held(p)

LEMMA RowMoveTasks ==
    ASSUME Types, AllSafe, NEW p \in Positions, RowMove(p),
           eng[p] # "Holding" \/ UNCHANGED inbox
    PROVE  RowFollows(p)' /\ Untouched(p)' /\ TasksSafe(p)' /\ AllNamed(p)' /\ Single(p)'
<1>1. Safe(p) BY DEF AllSafe
<1>2. KeptSells(p) BY QuietKept DEF RowMove
<1>3. LivesIn(p, sells') \subseteq LivesIn(p, sells) /\ (NoneIn(p, sells) => NoneIn(p, sells'))
      /\ Single(p)' /\ AllNamed(p)'
  BY <1>1, <1>2, KeptFacts DEF Safe
<1>4. RowFollows(p)' BY <1>1 DEF Safe, RowFollows, RowMove
<1>5. Untouched(p)' BY <1>1, <1>2 DEF Safe, Untouched, RowMove, KeptSells
<1>6. InStep(p)' /\ OneClaim(p)' BY <1>1 DEF Safe, TasksSafe, InStep, OneClaim, RowMove
<1>7. Clear(p)' /\ OnlyLast(p)' BY <1>1, <1>3 DEF Safe, TasksSafe, Clear, OnlyLast, RowMove
<1>8. Proving(p)'
  <2> SUFFICES ASSUME NEW k \in Intents, task[<<p, k>>].pc \in {"prove", "bag"}
               PROVE  /\ k = Orphan /\ row'[p] \in Open
                      /\ \A s \in 1 .. Len(sells') : sells'[s].pos = p =>
                           /\ s \in task[<<p, k>>].known
                           /\ task[<<p, k>>].pc = "bag" => sells'[s].st # "flying"
    BY DEF Proving, RowMove
  <2>1. exit_held(p) BY DEF exit_held, Intents, Claims
  <2>2. k = Orphan /\ row[p] \in Open BY <1>1 DEF Safe, TasksSafe, Proving
  <2>3. row'[p] \in Open BY <2>1, <2>2 DEF RowMove
  <2> QED BY <1>1, <1>2, <2>2, <2>3 DEF Safe, TasksSafe, Proving, KeptSells, Turns
<1> QED BY <1>3, <1>4, <1>5, <1>6, <1>7, <1>8 DEF TasksSafe

LEMMA OthersStill ==
    ASSUME Types, AllSafe, NEW p \in Positions, RowMove(p),
           UNCHANGED inbox \/ \E m \in MessageType : m.pos = p /\ inbox' = Append(inbox, m)
    PROVE  \A q \in Positions : q # p => Safe(q)'
<1> SUFFICES ASSUME NEW q \in Positions, q # p PROVE Safe(q)' OBVIOUS
<1>1. KeptSells(q) BY QuietKept DEF RowMove
<1>2. InboxKept(q) BY SameShift, AppendShift DEF InboxKept
<1>3. Still(q) BY <1>1, <1>2 DEF Still, RowMove
<1> QED BY <1>3, StillSafe DEF AllSafe

LEMMA RowSafe ==
    ASSUME Types, AllSafe, NEW p \in Positions, RowMove(p), UNCHANGED inbox PROVE AllSafe'
<1>1. RowFollows(p)' /\ Untouched(p)' /\ TasksSafe(p)' /\ AllNamed(p)' /\ Single(p)'
  BY RowMoveTasks
<1>2. InboxKept(p) BY SameShift DEF InboxKept
<1>3. NoneIn(p, sells) => NoneIn(p, sells') BY NoneKept DEF RowMove
<1>4. Answered(p)' /\ Unanswered(p)'
  BY <1>2, <1>3, MessagesKept DEF AllSafe, Safe, RowMove
<1> QED BY <1>1, <1>4, OthersStill DEF AllSafe, Safe

\* The reaper's messages: about an intent that is not in flight, or a retry of
\* one whose task is over.
LEMMA TellSafe ==
    ASSUME Types, AllSafe, NEW p \in Positions, RowMove(p), row'[p] = row[p],
           NEW n \in Intents, NEW kind \in Kinds, Answer(<<p, n>>, kind),
           eng[p] # "Holding", n <= intent[p],
           eng[p] = "ExitPending" /\ n = intent[p] => task[<<p, n>>].pc \in Ended
    PROVE  AllSafe'
<1>1. RowFollows(p)' /\ Untouched(p)' /\ TasksSafe(p)' /\ AllNamed(p)' /\ Single(p)'
  BY RowMoveTasks
<1>2. inbox \in Seq(MessageType) /\ <<p, n>> \in Tasks BY IntentTasks DEF Types
<1>3. PICK m \in MessageType : m = Message(<<p, n>>, kind) BY <1>2, MessageTyped
<1>4. inbox' = Append(inbox, m) /\ m.intent = n /\ m.kind = kind /\ m.pos = p
  BY <1>2, <1>3, MessageTyped DEF Answer, Message
<1>5. /\ Len(inbox) \in Nat /\ Len(inbox') = Len(inbox) + 1 /\ inbox'[Len(inbox) + 1] = m
      /\ \A i \in 1 .. Len(inbox) : inbox'[i] = inbox[i]
  BY <1>2, <1>4
<1>6. Answered(p) /\ Unanswered(p) BY DEF AllSafe, Safe
<1>7. NoneIn(p, sells) => NoneIn(p, sells') BY NoneKept DEF RowMove
<1>8. UNCHANGED <<eng, intent, task>> BY DEF RowMove
<1>9. \A j \in 1 .. Len(inbox) : /\ j \in 1 .. Len(inbox')
                                 /\ IsFinal(inbox[j], p, intent[p]) => IsFinal(inbox'[j], p, intent[p])
  BY <1>5
<1>10. Unanswered(p)' BY <1>6, <1>7, <1>8, <1>9 DEF Unanswered
<1>11. Answered(p)'
  <2> SUFFICES ASSUME NEW i \in 1 .. Len(inbox'), inbox'[i].pos = p
               PROVE  /\ inbox'[i].intent <= intent[p]
                      /\ eng[p] = "ExitPending" /\ inbox'[i].intent = intent[p] =>
                           /\ task[<<p, intent[p]>>].pc \in Ended
                           /\ inbox'[i].kind = "Reverted" =>
                                \/ NoneIn(p, sells')
                                \/ \E j \in 1 .. i - 1 : IsFinal(inbox'[j], p, intent[p])
    BY <1>8 DEF Answered
  <2>1. CASE i \in 1 .. Len(inbox)
    <3>1. inbox'[i] = inbox[i] BY <1>5, <2>1
    <3>2. \A j \in 1 .. i - 1 : j \in 1 .. Len(inbox) BY <1>5, <2>1
    <3> QED BY <1>6, <1>7, <1>9, <2>1, <3>1, <3>2 DEF Answered
  <2>2. CASE i = Len(inbox) + 1
    <3>1. inbox'[i] = m /\ i - 1 = Len(inbox) BY <1>5, <2>2
    <3>2. eng[p] = "ExitPending" /\ n = intent[p] =>
             \/ NoneIn(p, sells')
             \/ \E j \in 1 .. i - 1 : IsFinal(inbox'[j], p, intent[p])
      BY <1>6, <1>7, <1>9, <3>1 DEF Unanswered
    <3> QED BY <1>4, <3>1, <3>2
  <2>3. i \in 1 .. Len(inbox) \/ i = Len(inbox) + 1 BY <1>5
  <2> QED BY <2>1, <2>2, <2>3
<1>12. \A q \in Positions : q # p => Safe(q)' BY <1>4, OthersStill
<1> QED BY <1>1, <1>10, <1>11, <1>12 DEF AllSafe, Safe

LEMMA ListedFresh ==
    ASSUME Types, NEW p \in Positions, NEW status, Listed(p, status), "stale_row" \notin Faults
    PROVE  row[p] = status /\ Known(p) = Named(p)
BY DEF Listed, Copy, Known

LEMMA BookSafe ==
    ASSUME Types, AllSafe, NEW p \in Positions, Book(p), UNCHANGED <<eng, intent, task>>,
           Quiet(sells, sells'), row[p] # "Holding", Idle(p)
    PROVE  AllSafe'
<1>1. RowFollows(p) BY DEF AllSafe, Safe
<1>2. eng[p] # "Holding" /\ ~exit_held(p) BY <1>1, EngineStates DEF Idle
<1>3. CASE Owned(p)
  <2>1. Answer(<<p, Orphan>>, "Cleared") /\ UNCHANGED row BY <1>3 DEF Book
  <2>2. RowMove(p) /\ row'[p] = row[p] BY <2>1 DEF RowMove
  <2>3. Orphan \in Intents /\ Orphan <= intent[p] /\ "Cleared" \in Kinds
    BY RealExitAssumption DEF Orphan, Intents, Types, Kinds
  <2>4. ~(eng[p] = "ExitPending" /\ Orphan = intent[p]) BY <1>1 DEF RowFollows, Orphan
  <2> QED BY <1>2, <2>1, <2>2, <2>3, <2>4, TellSafe
<1>4. CASE ~Owned(p)
  <2>1. row' = [row EXCEPT ![p] = "End"] /\ UNCHANGED inbox BY <1>4 DEF Book
  <2>2. row'[p] = "End" /\ \A q \in Positions : q # p => row'[q] = row[q] BY <2>1 DEF Types
  <2>3. eng[p] = "Gone" BY <1>4 DEF Owned
  <2>4. RowMove(p) BY <1>2, <2>2, <2>3 DEF RowMove
  <2> QED BY <2>1, <2>4, RowSafe
<1> QED BY <1>3, <1>4

LEMMA ReaperSafe ==
    ASSUME Types, Fine, AllSafe, NEW p \in Positions, Reaper(p), Faults = {} PROVE AllSafe'
<1> USE DEF rowVars, engVars
<1>0. RowFollows(p) /\ (UNCHANGED sells => Quiet(sells, sells')) BY SameQuiet DEF AllSafe, Safe, Fine
<1>1. CASE Nudge(p)
  <2>1. /\ eng[p] = "ExitPending" /\ Idle(p) /\ task[<<p, intent[p]>>].pc # "spawned"
        /\ Answer(<<p, intent[p]>>, "Reverted") /\ UNCHANGED <<eng, intent, row, task, sells>>
    BY <1>1 DEF Nudge
  <2>2. intent[p] \in Intents /\ intent[p] <= intent[p] BY RealExitAssumption DEF Types, Intents
  <2>3. task[<<p, intent[p]>>].pc \in Points BY <2>2, IntentTasks DEF Types, TaskType
  <2>4. task[<<p, intent[p]>>].pc \notin Claims BY <2>1, <2>2 DEF Idle, exit_held, Intents
  <2>5. task[<<p, intent[p]>>].pc \in Ended BY <2>1, <2>3, <2>4 DEF Points, Ended
  <2>6. RowMove(p) /\ row'[p] = row[p] BY <1>0, <2>1 DEF RowMove
  <2>7. PICK n \in Intents : n = intent[p] BY <2>2
  <2>8. Answer(<<p, n>>, "Reverted") /\ n <= intent[p] /\ task[<<p, n>>].pc \in Ended
    BY <2>1, <2>2, <2>5, <2>7
  <2>9. eng[p] # "Holding" /\ "Reverted" \in Kinds BY <2>1 DEF Kinds
  <2> QED BY <2>6, <2>8, <2>9, TellSafe
<1>2. CASE ReadRow(p)
  <2>1. UNCHANGED <<eng, intent, inbox, row, task, sells>> BY <1>2 DEF ReadRow
  <2>2. RowMove(p) BY <1>0, <2>1 DEF RowMove
  <2> QED BY <2>1, <2>2, RowSafe
<1>3. CASE RedrivePending(p)
  <2>1. /\ UNCHANGED <<eng, intent, inbox, row, sells>> /\ ~Owned(p)
        /\ Listed(p, "ExitPending") /\ spawn_orphan_sell(p, Known(p))
    BY <1>3 DEF RedrivePending
  <2>2. row[p] = "ExitPending" /\ Known(p) = Named(p) BY <2>1, ListedFresh
  <2>3. eng[p] = "Gone" /\ row[p] \in Open BY <2>1, <2>2 DEF Owned, Open
  <2>4. Known(p) \in SUBSET Nat /\ Named(p) \subseteq Known(p) BY <2>1, <2>2, ListedFacts
  <2> QED BY <1>0, <2>1, <2>3, <2>4, SpawnSafe
<1>4. CASE RedriveStuck(p)
  <2>1. /\ UNCHANGED <<eng, intent, inbox, row, sells>>
        /\ Listed(p, "ExitStuck") /\ spawn_orphan_sell(p, Known(p))
    BY <1>4 DEF RedriveStuck
  <2>2. row[p] = "ExitStuck" /\ Known(p) = Named(p) BY <2>1, ListedFresh
  <2>3. eng[p] = "Gone" /\ row[p] \in Open BY <1>0, <2>2, EngineStates DEF Open
  <2>4. Known(p) \in SUBSET Nat /\ Named(p) \subseteq Known(p) BY <2>1, <2>2, ListedFacts
  <2> QED BY <1>0, <2>1, <2>3, <2>4, SpawnSafe
<1>5. CASE RedriveUnconfirmed(p)
  <2>1. /\ UNCHANGED <<eng, intent, inbox, row>> /\ sells' = Burned(Known(p))
        /\ Listed(p, "ExitUnconfirmed") /\ spawn_orphan_sell(p, Known(p))
    BY <1>5 DEF RedriveUnconfirmed
  <2>2. row[p] = "ExitUnconfirmed" /\ Known(p) = Named(p) BY <2>1, ListedFresh
  <2>3. eng[p] = "Gone" /\ row[p] \in Open BY <1>0, <2>2, EngineStates DEF Open
  <2>4. Known(p) \in SUBSET Nat /\ Named(p) \subseteq Known(p) BY <2>1, <2>2, ListedFacts
  <2>5. Quiet(sells, sells') BY <2>1, BurnedQuiet DEF Fine
  <2> QED BY <2>1, <2>3, <2>4, <2>5, SpawnSafe
<1>6. CASE HealCleared(p)
  <2>1. /\ UNCHANGED <<eng, intent, task, sells>> /\ row[p] \in Open \ {"Holding"} /\ Idle(p)
        /\ Book(p) \/ UNCHANGED <<row, inbox>>
    BY <1>6 DEF HealCleared
  <2>2. CASE Book(p) BY <1>0, <2>1, <2>2, BookSafe
  <2>3. CASE UNCHANGED <<row, inbox>>
    <3>1. RowMove(p) BY <1>0, <2>1, <2>3 DEF RowMove
    <3> QED BY <2>3, <3>1, RowSafe
  <2> QED BY <2>1, <2>2, <2>3
<1>7. CASE MarkStale(p)
  <2>1. /\ UNCHANGED <<eng, intent, inbox, task, sells>> /\ ~Owned(p)
        /\ row' = [row EXCEPT ![p] = "ExitStuck"]
    BY <1>7 DEF MarkStale
  <2>2. row'[p] = "ExitStuck" /\ \A q \in Positions : q # p => row'[q] = row[q]
    BY <2>1 DEF Types
  <2>3. RowMove(p) BY <1>0, <2>1, <2>2 DEF RowMove, Open, Owned
  <2> QED BY <2>1, <2>3, RowSafe
<1> QED BY <1>1, <1>2, <1>3, <1>4, <1>5, <1>6, <1>7 DEF Reaper

LEMMA OperatorSafe ==
    ASSUME Types, Fine, AllSafe, NEW p \in Positions, ManualRetry(p) \/ Verify(p), Faults = {}
    PROVE  AllSafe'
<1> USE DEF rowVars, engVars
<1>0. RowFollows(p) BY DEF AllSafe, Safe
<1>1. CASE ManualRetry(p)
  <2>1. /\ UNCHANGED <<eng, intent, inbox, row, sells>> /\ spawn_orphan_sell(p, Named(p))
        /\ row[p] \in {"ExitStuck", "ExitUnconfirmed"}
    BY <1>1 DEF ManualRetry
  <2>2. eng[p] = "Gone" /\ row[p] \in Open BY <1>0, <2>1, EngineStates DEF Open
  <2>3. Named(p) \in SUBSET Nat /\ Quiet(sells, sells') BY <2>1, NamedFine, SameQuiet DEF Fine
  <2> QED BY <2>1, <2>2, <2>3, SpawnSafe
<1>2. CASE Verify(p)
  <2>1. /\ UNCHANGED <<eng, intent, task>> /\ row[p] = "ExitUnconfirmed" /\ Idle(p)
        /\ sells' = Healed(Named(p)) /\ Book(p)
    BY <1>2 DEF Verify
  <2>2. Quiet(sells, sells') BY <2>1, HealedQuiet DEF Fine
  <2> QED BY <2>1, <2>2, BookSafe
<1> QED BY <1>1, <1>2

LEMMA DecideSafe == ASSUME Types, Fine, AllSafe, NEW p \in Positions, DecideExit(p) PROVE AllSafe'
<1>1. /\ UNCHANGED <<sells, inbox>> /\ eng[p] = "Holding"
      /\ eng' = [eng EXCEPT ![p] = "ExitPending"] /\ intent' = [intent EXCEPT ![p] = 1]
      /\ row' = [row EXCEPT ![p] = "ExitPending"] /\ task' = [task EXCEPT ![<<p, 1>>] = Spawned]
  BY DEF DecideExit
<1>2. Quiet(sells, sells') BY <1>1, SameQuiet DEF Fine
<1>3. /\ eng'[p] = "ExitPending" /\ intent'[p] = 1 /\ row'[p] = "ExitPending"
      /\ \A q \in Positions : q # p =>
            eng'[q] = eng[q] /\ intent'[q] = intent[q] /\ row'[q] = row[q]
  BY <1>1 DEF Types
<1>4. <<p, 1>> \in Tasks /\ 1 \in Intents BY TaskPairs, RealExitAssumption DEF Intents
<1>5. task'[<<p, 1>>].pc = "spawned" /\ \A u \in Tasks : u # <<p, 1>> => task'[u] = task[u]
  BY <1>1, <1>4, SpawnedFine
<1>6. \A q \in Positions, k \in Intents :
         <<q, k>> \in Tasks /\ (q # p \/ k # 1 => <<q, k>> # <<p, 1>>)
  BY TaskPairs DEF Intents
<1>7. ASSUME NEW q \in Positions, q # p PROVE Safe(q)'
  <2>1. KeptSells(q) /\ InboxKept(q) BY <1>1, <1>2, QuietKept, SameShift DEF InboxKept
  <2>2. \A k \in Intents : task'[<<q, k>>] = task[<<q, k>>] BY <1>5, <1>6, <1>7
  <2>3. Still(q) BY <1>3, <1>7, <2>1, <2>2 DEF Still
  <2> QED BY <2>3, StillSafe DEF AllSafe
<1>8. /\ \A s \in 1 .. Len(sells) : sells[s].pos # p
      /\ \A n \in Intents : task[<<p, n>>].pc = "off"
      /\ \A i \in 1 .. Len(inbox) : inbox[i].pos # p
  BY <1>1 DEF AllSafe, Safe, Untouched
<1>9. \A n \in Intents : n # 1 => task'[<<p, n>>].pc = "off" BY <1>5, <1>6, <1>8
<1>10. LivesIn(p, sells') = {} BY <1>1, <1>8 DEF LivesIn
<1>11. RowFollows(p)' /\ Untouched(p)' BY <1>3 DEF RowFollows, Untouched
<1>12. InStep(p)' BY <1>3, <1>9 DEF InStep, Orphan, Ended
<1>13. OneClaim(p)' /\ Clear(p)' /\ OnlyLast(p)' /\ Proving(p)'
  BY <1>5, <1>9, <1>10 DEF OneClaim, Clear, OnlyLast, Proving, NoneIn, Claims, Sent
<1>14. AllNamed(p)' /\ Single(p)' BY <1>1, <1>8, <1>10 DEF AllNamed, Single
<1>15. Answered(p)' /\ Unanswered(p)' BY <1>1, <1>8, <1>10 DEF Answered, Unanswered, NoneIn
<1>16. Safe(p)' BY <1>11, <1>12, <1>13, <1>14, <1>15 DEF Safe, TasksSafe
<1> QED BY <1>7, <1>16 DEF AllSafe

LEMMA ChainSafe ==
    ASSUME Types, Fine, AllSafe, NEW s \in SellIds, Land(s) \/ Revert(s) \/ FeedShows(s)
    PROVE  AllSafe'
<1>1. UNCHANGED <<eng, intent, row, task, inbox>> BY DEF Land, Revert, FeedShows
<1>2. Quiet(sells, sells') BY ChainQuiet DEF Fine
<1>3. \A q \in Positions : KeptSells(q) /\ InboxKept(q)
  BY <1>1, <1>2, QuietKept, SameShift DEF InboxKept
<1>4. \A q \in Positions : Still(q) BY <1>1, <1>3 DEF Still
<1> QED BY <1>4, StillSafe DEF AllSafe

LEMMA RestartSafe == ASSUME Types, Fine, AllSafe, Restart PROVE AllSafe'
<1>1. /\ UNCHANGED <<intent, row>> /\ inbox' = <<>>
      /\ eng' = [p \in Positions |-> IF row[p] = "Holding" THEN "Holding" ELSE "Gone"]
      /\ task' = [t \in Tasks |-> Off]
      /\ sells' = [s \in SellIds |-> [sells[s] EXCEPT !.tracked = FALSE]]
  BY DEF Restart, rowVars
<1>2. Quiet(sells, sells') BY <1>1, ForgottenQuiet DEF Fine
<1> SUFFICES ASSUME NEW p \in Positions PROVE Safe(p)' BY DEF AllSafe
<1>3. KeptSells(p) BY <1>2, QuietKept
<1>4. \A n \in Intents : task'[<<p, n>>].pc = "off" BY <1>1, IntentTasks, OffType
<1>5. Len(inbox') = 0 BY <1>1
<1>6. eng'[p] = IF row[p] = "Holding" THEN "Holding" ELSE "Gone" BY <1>1
<1>7. Safe(p) BY DEF AllSafe
<1>8. RowFollows(p)' BY <1>1, <1>6 DEF RowFollows
<1>9. Untouched(p)' BY <1>3, <1>4, <1>5, <1>6, <1>7 DEF Safe, RowFollows, Untouched, KeptSells
<1>10. TasksSafe(p)'
  BY <1>4 DEF TasksSafe, InStep, OneClaim, Clear, OnlyLast, Proving, Ended, Claims, Sent
<1>11. AllNamed(p)' /\ Single(p)' BY <1>3, <1>7, KeptFacts DEF Safe
<1>12. Answered(p)' /\ Unanswered(p)' BY <1>5, <1>6 DEF Answered, Unanswered
<1> QED BY <1>8, <1>9, <1>10, <1>11, <1>12 DEF Safe

\* Folding an answer, for the positions it is not about.
LEMMA FoldOthers ==
    ASSUME Types, AllSafe, NEW p \in Positions, inbox # <<>>, inbox' = Tail(inbox),
           inbox[1].pos = p, Quiet(sells, sells'),
           \A q \in Positions : q # p =>
              /\ eng'[q] = eng[q] /\ intent'[q] = intent[q] /\ row'[q] = row[q]
              /\ \A n \in Intents : task'[<<q, n>>] = task[<<q, n>>]
    PROVE  \A q \in Positions : q # p => Safe(q)'
<1> SUFFICES ASSUME NEW q \in Positions, q # p PROVE Safe(q)' OBVIOUS
<1>1. KeptSells(q) /\ InboxKept(q) BY QuietKept, TailShift DEF InboxKept
<1>2. Still(q) BY <1>1 DEF Still
<1> QED BY <1>2, StillSafe DEF AllSafe

\* An answer that no longer counts is dropped.
LEMMA StaleSafe ==
    ASSUME Types, Fine, AllSafe, NEW p \in Positions, inbox # <<>>, inbox' = Tail(inbox),
           inbox[1].pos = p, UNCHANGED <<eng, intent, row, task, sells>>,
           ~(eng[p] = "ExitPending" /\ IsFinal(inbox[1], p, intent[p]))
    PROVE  AllSafe'
<1>1. inbox \in Seq(MessageType) /\ Len(inbox) \in Nat \ {0} BY DEF Types
<1>2. Len(inbox') = Len(inbox) - 1 /\ \A i \in 1 .. Len(inbox') : inbox'[i] = inbox[i + 1]
  BY <1>1
<1>3. Quiet(sells, sells') BY SameQuiet DEF Fine
<1>4. Safe(p) BY DEF AllSafe
<1>5. RowFollows(p)' /\ TasksSafe(p)' /\ AllNamed(p)' /\ Single(p)'
  BY <1>4 DEF Safe, RowFollows, TasksSafe, InStep, OneClaim, Clear, OnlyLast, Proving, AllNamed,
              Single
<1>6. eng[p] # "Holding"
  <2>1. 1 \in 1 .. Len(inbox) BY <1>1
  <2> QED BY <1>4, <2>1 DEF Safe, Untouched
<1>7. Untouched(p)' BY <1>6 DEF Untouched
<1>8. \A i \in 1 .. Len(inbox') : i + 1 \in 1 .. Len(inbox) BY <1>1, <1>2
<1>9. ASSUME NEW j \in 1 .. Len(inbox), eng[p] = "ExitPending", IsFinal(inbox[j], p, intent[p])
      PROVE  j - 1 \in 1 .. Len(inbox') /\ IsFinal(inbox'[j - 1], p, intent[p])
  <2>1. j # 1 BY <1>9
  <2>2. j - 1 \in 1 .. Len(inbox') /\ (j - 1) + 1 = j BY <1>1, <1>2, <2>1
  <2> QED BY <1>2, <1>9, <2>2
<1>10. Unanswered(p)' BY <1>4, <1>9 DEF Safe, Unanswered
<1>11. Answered(p)'
  <2> SUFFICES ASSUME NEW i \in 1 .. Len(inbox'), inbox'[i].pos = p
               PROVE  /\ inbox'[i].intent <= intent[p]
                      /\ eng[p] = "ExitPending" /\ inbox'[i].intent = intent[p] =>
                           /\ task[<<p, intent[p]>>].pc \in Ended
                           /\ inbox'[i].kind = "Reverted" =>
                                \/ NoneIn(p, sells)
                                \/ \E j \in 1 .. i - 1 : IsFinal(inbox'[j], p, intent[p])
    BY DEF Answered
  <2>1. i + 1 \in 1 .. Len(inbox) /\ inbox'[i] = inbox[i + 1] BY <1>2, <1>8
  <2>2. inbox'[i].intent <= intent[p] BY <1>4, <2>1 DEF Safe, Answered
  <2>3. ASSUME eng[p] = "ExitPending", inbox'[i].intent = intent[p]
        PROVE  /\ task[<<p, intent[p]>>].pc \in Ended
               /\ inbox'[i].kind = "Reverted" =>
                    \/ NoneIn(p, sells)
                    \/ \E j \in 1 .. (i + 1) - 1 : IsFinal(inbox[j], p, intent[p])
    BY <1>4, <2>1, <2>3 DEF Safe, Answered
  <2>4. ASSUME NEW j \in 1 .. (i + 1) - 1, eng[p] = "ExitPending", IsFinal(inbox[j], p, intent[p])
        PROVE  \E k \in 1 .. i - 1 : IsFinal(inbox'[k], p, intent[p])
    <3>1. j \in 1 .. Len(inbox) BY <1>1, <2>1
    <3>2. j - 1 \in 1 .. Len(inbox') /\ IsFinal(inbox'[j - 1], p, intent[p]) BY <1>9, <2>4, <3>1
    <3>3. j - 1 \in 1 .. i - 1 BY <1>1, <1>2, <3>2
    <3> QED BY <3>2, <3>3
  <2> QED BY <2>2, <2>3, <2>4
<1>12. Safe(p)' BY <1>5, <1>7, <1>10, <1>11 DEF Safe
<1>13. \A q \in Positions : q # p => Safe(q)' BY <1>3, FoldOthers
<1> QED BY <1>12, <1>13 DEF AllSafe

\* The answer in flight ends the exit, whatever it says.
LEMMA DropSafe ==
    ASSUME Types, AllSafe, NEW p \in Positions, inbox # <<>>, inbox' = Tail(inbox),
           inbox[1].pos = p, eng[p] = "ExitPending", intent[p] = inbox[1].intent,
           NEW status \in {"End", "ExitUnconfirmed", "ExitStuck"},
           eng' = [eng EXCEPT ![p] = "Gone"], row' = [row EXCEPT ![p] = status],
           UNCHANGED <<intent, task>>, Quiet(sells, sells')
    PROVE  AllSafe'
<1>1. inbox \in Seq(MessageType) /\ Len(inbox) \in Nat \ {0} BY DEF Types
<1>2. /\ Len(inbox') = Len(inbox) - 1 /\ 1 \in 1 .. Len(inbox)
      /\ \A i \in 1 .. Len(inbox') : inbox'[i] = inbox[i + 1] /\ i + 1 \in 1 .. Len(inbox)
  BY <1>1
<1>3. /\ eng'[p] = "Gone" /\ row'[p] = status
      /\ \A q \in Positions : q # p => eng'[q] = eng[q] /\ row'[q] = row[q]
  BY DEF Types
<1>4. Safe(p) /\ KeptSells(p) BY QuietKept DEF AllSafe
<1>5. task[<<p, intent[p]>>].pc \in Ended BY <1>2, <1>4 DEF Safe, Answered
<1>6. \A n \in Intents : task[<<p, n>>].pc \in Ended
  <2> SUFFICES ASSUME NEW n \in Intents, task[<<p, n>>].pc \notin Ended PROVE FALSE OBVIOUS
  <2>1. task[<<p, n>>].pc # "off" BY DEF Ended
  <2> QED BY <1>4, <1>5, <2>1 DEF Safe, TasksSafe, InStep
<1>7. RowFollows(p)' /\ Untouched(p)' BY <1>3 DEF RowFollows, Untouched
<1>8. InStep(p)' /\ OneClaim(p)' BY <1>3, <1>4, <1>6 DEF Safe, TasksSafe, InStep, OneClaim
<1>9. Clear(p)' /\ OnlyLast(p)' /\ Proving(p)' BY <1>6 DEF Clear, OnlyLast, Proving, Ended, Sent
<1>10. AllNamed(p)' /\ Single(p)' BY <1>4, KeptFacts DEF Safe
<1>11. Answered(p)' /\ Unanswered(p)' BY <1>2, <1>3, <1>4 DEF Safe, Answered, Unanswered
<1>12. Safe(p)' BY <1>7, <1>8, <1>9, <1>10, <1>11 DEF Safe, TasksSafe
<1>13. \A q \in Positions : q # p => Safe(q)' BY <1>3, FoldOthers
<1> QED BY <1>12, <1>13 DEF AllSafe

\* A retry: the next intent, when nothing of the last one is alive.
LEMMA AgainSafe ==
    ASSUME Types, Fine, AllSafe, NEW m \in MessageType, inbox # <<>>, inbox' = Tail(inbox),
           m = inbox[1], eng[m.pos] = "ExitPending", intent[m.pos] = m.intent,
           m.kind = "Reverted", m.intent < MaxExitAttempts, FoldAgain(m)
    PROVE  AllSafe'
<1>1. PICK p \in Positions : p = m.pos BY DEF MessageType
<1>2. PICK n \in Intents : n = m.intent BY DEF MessageType, Intents
<1>3. PICK k \in Intents : k = n + 1 BY <1>2, RealExitAssumption DEF Intents
<1>4. n \in Nat /\ k \in Nat /\ k # n /\ k # 0 /\ n < k BY <1>3, RealExitAssumption DEF Intents
<1>5. /\ intent' = [intent EXCEPT ![p] = k] /\ task' = [task EXCEPT ![<<p, k>>] = Spawned]
      /\ UNCHANGED <<eng, row, sells>>
  BY <1>1, <1>2, <1>3 DEF FoldAgain
<1>6. intent[p] = n /\ eng[p] = "ExitPending" BY <1>1, <1>2
<1>7. intent'[p] = k /\ \A q \in Positions : q # p => intent'[q] = intent[q] BY <1>5 DEF Types
<1>8. <<p, k>> \in Tasks BY IntentTasks
<1>9. task'[<<p, k>>].pc = "spawned" /\ \A u \in Tasks : u # <<p, k>> => task'[u] = task[u]
  BY <1>5, <1>8, SpawnedFine
<1>10. /\ \A j \in Intents : j # k => task'[<<p, j>>] = task[<<p, j>>]
       /\ \A q \in Positions : q # p => \A j \in Intents : task'[<<q, j>>] = task[<<q, j>>]
  <2>1. \A q \in Positions, j \in Intents :
           <<q, j>> \in Tasks /\ (q # p \/ j # k => <<q, j>> # <<p, k>>)
    BY IntentTasks
  <2> QED BY <1>9, <2>1
<1>11. inbox \in Seq(MessageType) /\ Len(inbox) \in Nat \ {0} BY DEF Types
<1>12. /\ Len(inbox') = Len(inbox) - 1 /\ 1 \in 1 .. Len(inbox)
       /\ \A i \in 1 .. Len(inbox') : inbox'[i] = inbox[i + 1] /\ i + 1 \in 1 .. Len(inbox)
  BY <1>11
<1>13. Safe(p) BY DEF AllSafe
<1>14. inbox[1].pos = p /\ inbox[1].intent = n /\ inbox[1].kind = "Reverted" BY <1>1, <1>2
<1>15. task[<<p, n>>].pc \in Ended /\ NoneIn(p, sells)
  <2>1. ~\E j \in 1 .. 1 - 1 : IsFinal(inbox[j], p, n) OBVIOUS
  <2> QED BY <1>6, <1>12, <1>13, <1>14, <2>1 DEF Safe, Answered
<1>16. ASSUME NEW j \in Intents, j # k PROVE task'[<<p, j>>].pc \in Ended
  <2> SUFFICES ASSUME task[<<p, j>>].pc \notin Ended PROVE FALSE BY <1>10, <1>16
  <2>1. task[<<p, j>>].pc # "off" BY DEF Ended
  <2> QED BY <1>6, <1>13, <1>15, <2>1 DEF Safe, TasksSafe, InStep
<1>17. Orphan \in Intents /\ k # Orphan BY <1>4, RealExitAssumption DEF Intents, Orphan
<1>18. task'[<<p, Orphan>>].pc = "off" BY <1>6, <1>10, <1>13, <1>17 DEF Safe, TasksSafe, InStep
<1>19. RowFollows(p)' /\ Untouched(p)'
  BY <1>4, <1>5, <1>6, <1>7, <1>13 DEF Safe, RowFollows, Untouched
<1>20. InStep(p)' BY <1>5, <1>6, <1>7, <1>16, <1>17, <1>18 DEF InStep
<1>21. OneClaim(p)' BY <1>9, <1>10, <1>13 DEF Safe, TasksSafe, OneClaim, Claims
<1>22. Clear(p)' BY <1>5, <1>15 DEF Clear
<1>23. OnlyLast(p)' /\ Proving(p)' BY <1>9, <1>16 DEF OnlyLast, Proving, Ended, Sent
<1>24. AllNamed(p)' /\ Single(p)' BY <1>5, <1>13 DEF Safe, AllNamed, Single
<1>25. Unanswered(p)' BY <1>7, <1>9 DEF Unanswered, Ended
<1>26. Answered(p)'
  <2>1. ASSUME NEW i \in 1 .. Len(inbox'), inbox'[i].pos = p
        PROVE  inbox'[i].intent <= k /\ inbox'[i].intent # k
    <3>1. inbox'[i] \in MessageType /\ inbox'[i] = inbox[i + 1] /\ i + 1 \in 1 .. Len(inbox)
      BY <1>11, <1>12
    <3>2. inbox'[i].intent \in Nat BY <3>1 DEF MessageType
    <3>3. inbox'[i].intent <= n BY <1>6, <1>13, <2>1, <3>1 DEF Safe, Answered
    <3> QED BY <1>4, <3>2, <3>3
  <2> QED BY <1>7, <2>1 DEF Answered
<1>27. Safe(p)' BY <1>19, <1>20, <1>21, <1>22, <1>23, <1>24, <1>25, <1>26 DEF Safe, TasksSafe
<1>28. Quiet(sells, sells') BY <1>5, SameQuiet DEF Fine
<1>29. \A q \in Positions : q # p => Safe(q)' BY <1>5, <1>7, <1>10, <1>14, <1>28, FoldOthers
<1> QED BY <1>27, <1>29 DEF AllSafe

LEMMA FoldSafe == ASSUME Types, Fine, AllSafe, Fold PROVE AllSafe'
<1>1. PICK m \in MessageType : m = Head(inbox) BY FoldCases
<1>2. /\ inbox # <<>> /\ inbox' = Tail(inbox) /\ 1 \in 1 .. Len(inbox) /\ m = inbox[1]
      /\ \/ UNCHANGED <<eng, intent, row, task, sells>>
           /\ (m.kind # "Cleared" => eng[m.pos] # "ExitPending" \/ intent[m.pos] # m.intent)
         \/ m.kind = "Cleared" /\ eng[m.pos] = "Holding" /\ FoldClosed(m)
         \/ /\ eng[m.pos] = "ExitPending" /\ intent[m.pos] = m.intent
            /\ \/ m.kind = "Confirmed" /\ FoldClosed(m)
               \/ m.kind = "Unconfirmed" /\ FoldDropped(m, "ExitUnconfirmed")
               \/ m.kind \in {"Fatal", "Reverted"} /\ FoldDropped(m, "ExitStuck")
               \/ m.kind = "Reverted" /\ m.intent < MaxExitAttempts /\ FoldAgain(m)
  BY <1>1, FoldCases
<1>3. PICK p \in Positions : p = m.pos BY DEF MessageType
<1>4. CASE UNCHANGED <<eng, intent, row, task, sells>>
           /\ (m.kind # "Cleared" => eng[m.pos] # "ExitPending" \/ intent[m.pos] # m.intent)
  <2>1. ~(eng[p] = "ExitPending" /\ IsFinal(inbox[1], p, intent[p]))
    BY <1>2, <1>3, <1>4 DEF IsFinal, Finals
  <2> QED BY <1>2, <1>3, <1>4, <2>1, StaleSafe
<1>5. ~(eng[p] = "Holding") BY <1>2, <1>3 DEF AllSafe, Safe, Untouched
<1>6. CASE eng[m.pos] = "ExitPending" /\ intent[m.pos] = m.intent
  <2>0. eng[p] = "ExitPending" /\ intent[p] = inbox[1].intent /\ inbox[1].pos = p
    BY <1>2, <1>3, <1>6
  <2>1. CASE FoldClosed(m)
    <3>1. /\ eng' = [eng EXCEPT ![p] = "Gone"] /\ row' = [row EXCEPT ![p] = "End"]
          /\ UNCHANGED <<intent, task>> /\ Quiet(sells, sells')
      BY <1>3, <2>1, SameQuiet DEF FoldClosed, Fine
    <3> QED BY <1>2, <2>0, <3>1, DropSafe
  <2>2. ASSUME NEW status \in {"ExitUnconfirmed", "ExitStuck"}, FoldDropped(m, status)
        PROVE  AllSafe'
    <3>1. /\ eng' = [eng EXCEPT ![p] = "Gone"] /\ row' = [row EXCEPT ![p] = status]
          /\ UNCHANGED <<intent, task>> /\ Quiet(sells, sells')
      BY <1>3, <2>2, NamedQuiet DEF FoldDropped, Fine
    <3> QED BY <1>2, <2>0, <3>1, DropSafe
  <2>3. CASE m.kind = "Reverted" /\ m.intent < MaxExitAttempts /\ FoldAgain(m)
    BY <1>2, <1>6, <2>3, AgainSafe
  <2> QED BY <1>2, <1>3, <1>4, <1>5, <2>1, <2>2, <2>3
<1> QED BY <1>2, <1>3, <1>4, <1>5, <1>6

LEMMA SafeStep ==
    ASSUME Types, Fine, AllSafe, [Next]_vars, Faults = {} PROVE AllSafe'
<1>1. CASE UNCHANGED vars
  <2>1. UNCHANGED <<eng, intent, row, task, inbox, sells>> BY <1>1 DEF vars
  <2>2. Quiet(sells, sells') BY <2>1, SameQuiet DEF Fine
  <2>3. \A q \in Positions : KeptSells(q) /\ InboxKept(q)
    BY <2>1, <2>2, QuietKept, SameShift DEF InboxKept
  <2>4. \A q \in Positions : Still(q) BY <2>1, <2>3 DEF Still
  <2> QED BY <2>4, StillSafe DEF AllSafe
<1>2. ASSUME NEW p \in Positions, DecideExit(p) \/ Reaper(p) \/ ManualRetry(p) \/ Verify(p)
      PROVE  AllSafe'
  BY <1>2, DecideSafe, ReaperSafe, OperatorSafe
<1>3. ASSUME NEW t \in Tasks, TaskStep(t) PROVE AllSafe' BY <1>3, TaskStepSafe
<1>4. ASSUME NEW s \in SellIds, Land(s) \/ Revert(s) \/ FeedShows(s) PROVE AllSafe'
  BY <1>4, ChainSafe
<1> QED BY <1>1, <1>2, <1>3, <1>4, FoldSafe, RestartSafe DEF Next

LEMMA SafeInit == Init => AllSafe
<1> SUFFICES ASSUME Init, NEW p \in Positions PROVE Safe(p) BY DEF AllSafe
<1>1. eng[p] = "Holding" /\ row[p] = "Holding" /\ Len(sells) = 0 /\ Len(inbox) = 0 BY DEF Init
<1>2. \A n \in Intents : task[<<p, n>>].pc = "off" BY IntentTasks, OffType DEF Init
<1>3. RowFollows(p) /\ Untouched(p) BY <1>1, <1>2 DEF RowFollows, Untouched
<1>4. TasksSafe(p)
  BY <1>2 DEF TasksSafe, InStep, OneClaim, Clear, OnlyLast, Proving, Ended, Claims, Sent
<1>5. AllNamed(p) /\ Single(p) /\ Answered(p) /\ Unanswered(p)
  BY <1>1 DEF AllNamed, Single, LivesIn, Answered, Unanswered
<1> QED BY <1>3, <1>4, <1>5 DEF Safe

LEMMA SafeAlways == Faults = {} => (Spec => [](Types /\ Fine /\ AllSafe))
<1> SUFFICES ASSUME Faults = {} PROVE Spec => [](Types /\ Fine /\ AllSafe) OBVIOUS
<1>1. Types /\ Fine /\ AllSafe /\ [Next]_vars => (Types /\ Fine /\ AllSafe)'
  BY StepParts, PartsEnough, SafeStep
<1> QED BY <1>1, FineInit, SafeInit, PTL DEF Spec

\* When none of the five untimely interleavings occurs, no position ever has two
\* sells that landed or still can: for any number of positions in the account,
\* sends, retries, redrives, operator retries and restarts, with sends lost or
\* timed out, landing at any later time, and confirmations that come late or never.
THEOREM SellOnce == Faults = {} => (Spec => []OneLiveSell)
<1>1. Types /\ AllSafe => OneLiveSell
  <2> SUFFICES ASSUME Types, AllSafe, NEW p \in Positions
               PROVE  Cardinality({s \in SellsOf(p) : sells[s].st \in {"flying", "landed"}}) <= 1
    BY DEF OneLiveSell
  <2> DEFINE L == {s \in SellsOf(p) : sells[s].st \in {"flying", "landed"}}
  <2>1. L = LivesIn(p, sells) BY DEF SellsOf, SellIds, LivesIn, Live
  <2>2. \A s, u \in L : s = u BY <2>1 DEF AllSafe, Safe, Single
  <2> HIDE DEF L
  <2>3. L = {} => Cardinality(L) = 0 BY FS_EmptySet
  <2>4. ASSUME NEW s \in L PROVE Cardinality(L) = 1
    <3>1. L = {s} BY <2>2
    <3> QED BY <3>1, FS_Singleton
  <2>5. Cardinality(L) <= 1 BY <2>3, <2>4
  <2> QED BY <2>5 DEF L
<1> QED BY <1>1, SafeAlways, PTL

\* In the same circumstances a row shown as stuck or unconfirmed has no owner in
\* the engine, which the console's close handler takes for granted.
THEOREM StuckUnowned == Faults = {} => (Spec => []StuckNotOwned)
<1>1. Types /\ AllSafe => StuckNotOwned
  BY EngineStates DEF StuckNotOwned, Owned, AllSafe, Safe
<1> QED BY <1>1, SafeAlways, PTL
=============================================================================
