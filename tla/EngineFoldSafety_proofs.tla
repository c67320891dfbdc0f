----------------------- MODULE EngineFoldSafety_proofs -----------------------
(***************************************************************************)
(* Safety of the fold, for every set of mints and rules and every cap.     *)
(*                                                                         *)
(* Every step is one of four kinds, told apart by what it does to the arms *)
(* that hold a position: it leaves them alone, one of them is gained,      *)
(* moved on, or lost.  Each invariant is then proved against the four      *)
(* kinds instead of against every event.                                   *)
(***************************************************************************)
EXTENDS EngineFold_proofs

-----------------------------------------------------------------------------
(* The four kinds of steps.                                                *)

SameArm(a, b) ==
    IF Holds(a) THEN b.st = a.st /\ b.pos = a.pos /\ b.intent = a.intent ELSE ~Holds(b)
Same(m, r) == SameArm(arms[m][r], arms'[m][r])
OthersSame(m, r) ==
    \A n \in Mints, q \in AllRules : (n # m \/ q # r) => Same(n, q)
Cleared(m, r) == \A o \in outstanding' :
    (o.mint = m /\ o.rule = r /\ Awaited(o)) => o \in abandoned'
Kept == outstanding' \cap abandoned \subseteq abandoned'

\* no arm starts or stops to hold a position
StillStep ==
    /\ \A m \in Mints, r \in AllRules : Same(m, r)
    /\ UNCHANGED <<open, positions, positionSeq, status>>
    /\ outstanding' \subseteq outstanding /\ Kept

\* a buy is submitted
GainStep(m, r) ==
    /\ ~Holds(arms[m][r])
    /\ arms'[m][r].st = "EntryPending" /\ arms'[m][r].pos = positionSeq + 1
    /\ arms'[m][r].intent = intentSeq + 1
    /\ OthersSame(m, r)
    /\ positionSeq < MaxPositions /\ positionSeq' = positionSeq + 1
    /\ positions' = [q \in DOMAIN positions \cup {positionSeq + 1} |->
                       IF q = positionSeq + 1 THEN [mint |-> m, rule |-> r] ELSE positions[q]]
    /\ status' = [status EXCEPT ![positionSeq + 1] = "BuySubmitted"]
    /\ outstanding' = outstanding \cup {Intent(m, r, intentSeq + 1)}
    /\ abandoned' = abandoned
    /\ \/ /\ r \in Rules /\ Enabled(r) /\ CapsAllow(r)
          /\ open' = [open EXCEPT ![r] = open[r] + 1]
       \/ r \in Manual /\ open' = open
    /\ r \in Exclusive => \A q \in AllRules \ {r} : ~Holds(arms[m][q])

\* a held position goes on: a fill, a sell submitted, a retry
Onward(tag) == CASE tag = "EntryPending" -> {"Entered", "ExitPending"}
                 [] tag = "Entered"      -> {"ExitPending"}
                 [] tag = "ExitPending"  -> {"Entered"}
                 [] OTHER                -> {}
MoveStep(m, r) ==
    /\ Holds(arms[m][r]) /\ Holds(arms'[m][r]) /\ arms'[m][r].pos = arms[m][r].pos
    /\ OthersSame(m, r)
    /\ UNCHANGED <<open, positions, positionSeq, abandoned>>
    /\ \/ /\ status' = [status EXCEPT ![arms[m][r].pos] = StatusOf(arms'[m][r].st)]
          /\ arms'[m][r].st \in Onward(arms[m][r].st)
       \/ /\ status' = status /\ arms'[m][r].st = arms[m][r].st
          /\ arms[m][r].st = "EntryPending" => (Loaded(r) => Enabled(r))
    /\ \A o \in outstanding' :
         o \in outstanding \/ (InFlight(arms'[m][r]) /\ o = Intent(m, r, arms'[m][r].intent))
    /\ \A o \in outstanding' \cap outstanding : (o.mint = m /\ o.rule = r) => ~Awaited(o)

\* a position ends
Endings(tag) == CASE tag = "EntryPending" -> {"EntryFailed"}
                  [] tag = "Entered"      -> {"End"}
                  [] tag = "ExitPending"  -> {"End", "ExitStuck", "ExitUnconfirmed"}
                  [] OTHER                -> {}
LoseStep(m, r) ==
    /\ Holds(arms[m][r]) /\ ~Holds(arms'[m][r])
    /\ OthersSame(m, r)
    /\ UNCHANGED positionSeq
    /\ positions' = [q \in DOMAIN positions \ {arms[m][r].pos} |-> positions[q]]
    /\ open' = [open EXCEPT ![r] = SaturatingDec(@)]
    /\ \E s \in Endings(arms[m][r].st) : status' = [status EXCEPT ![arms[m][r].pos] = s]
    /\ outstanding' \subseteq outstanding /\ Kept /\ Cleared(m, r)

Shaped == \/ StillStep
          \/ \E m \in Mints, r \in AllRules : GainStep(m, r) \/ MoveStep(m, r) \/ LoseStep(m, r)

-----------------------------------------------------------------------------
(* What storing a token, and starting an evaluation, do to the arms.       *)

\* An arm that holds a position is active.
LEMMA HoldsActive == \A a : Holds(a) => IsActive(a)
BY DEF Holds, IsActive

\* Arms without a position hold nothing.
LEMMA IdleHoldsNothing ==
    /\ ~Holds(NoArm)
    /\ \A tag \in ArmTags \ {"EntryPending", "Entered", "ExitPending"} : ~Holds(Idle(tag))
BY DEF Holds, NoArm, Idle, ArmTags

\* The same arm holds the same.
LEMMA SameRefl == \A a : SameArm(a, a)
BY DEF SameArm

\* Changing one arm leaves the others alone.
LEMMA SetShape ==
    ASSUME TypeOK, NEW m \in Mints, NEW r \in AllRules, NEW a,
           arms' = [arms EXCEPT ![m][r] = a]
    PROVE  arms'[m][r] = a /\ OthersSame(m, r)
<1>0. arms \in [Mints -> [AllRules -> Arm]]
  BY DEF TypeOK
<1>1. arms'[m][r] = a
  BY <1>0
<1>2. ASSUME NEW n \in Mints, NEW q \in AllRules, n # m \/ q # r
      PROVE  arms'[n][q] = arms[n][q]
  BY <1>0, <1>2
<1> QED BY <1>1, <1>2, SameRefl DEF OthersSame, Same

\* A token put back, or dropped because nothing on it is active, holds what
\* the arms it was put back with hold.
LEMMA StoreShape ==
    ASSUME TypeOK, NEW m \in Mints, NEW f \in [AllRules -> Arm], NEW eps, Store(m, f, eps)
    PROVE  /\ \A q \in AllRules : SameArm(f[q], arms'[m][q])
           /\ \A n \in Mints \ {m}, q \in AllRules : Same(n, q)
<1>0. arms \in [Mints -> [AllRules -> Arm]]
  BY DEF TypeOK
<1> DEFINE keep == \E r \in AllRules : IsActive(f[r])
<1>1. arms' = [arms EXCEPT ![m] = IF keep THEN f ELSE NoArms]
  BY DEF Store
<1>2. \A n \in Mints \ {m}, q \in AllRules : Same(n, q)
  <2>1. \A n \in Mints \ {m} : arms'[n] = arms[n]
    BY <1>0, <1>1
  <2> QED BY <2>1, SameRefl DEF Same
<1>3. CASE keep
  <2>1. arms'[m] = f
    BY <1>0, <1>1, <1>3
  <2> QED BY <1>2, <2>1, SameRefl
<1>4. CASE ~keep
  <2>1. arms'[m] = NoArms
    BY <1>0, <1>1, <1>4
  <2>2. \A q \in AllRules : ~Holds(f[q]) /\ ~Holds(arms'[m][q])
    BY <1>4, <2>1, HoldsActive, IdleHoldsNothing DEF NoArms
  <2> QED BY <1>2, <2>2 DEF SameArm
<1> QED BY <1>3, <1>4

\* Ending one arm of a token ends its position and no other.
LEMMA StoreLoses ==
    ASSUME TypeOK, NEW m \in Mints, NEW r \in AllRules, NEW a \in Arm, ~Holds(a), NEW eps,
           Store(m, [arms[m] EXCEPT ![r] = a], eps)
    PROVE  ~Holds(arms'[m][r]) /\ OthersSame(m, r)
<1> DEFINE f == [arms[m] EXCEPT ![r] = a]
<1>0. arms \in [Mints -> [AllRules -> Arm]]
  BY DEF TypeOK
<1>1. f \in [AllRules -> Arm] /\ f[r] = a /\ \A q \in AllRules \ {r} : f[q] = arms[m][q]
  BY <1>0, ArmsUpdate
<1>2. Store(m, f, eps)
  OBVIOUS
<1> HIDE DEF f
<1>3. /\ \A q \in AllRules : SameArm(f[q], arms'[m][q])
      /\ \A n \in Mints \ {m}, q \in AllRules : Same(n, q)
  BY <1>1, <1>2, StoreShape
<1>4. ~Holds(arms'[m][r])
  BY <1>1, <1>3 DEF SameArm
<1>5. \A q \in AllRules \ {r} : Same(m, q)
  BY <1>1, <1>3 DEF Same
<1> QED BY <1>3, <1>4, <1>5 DEF OthersSame

\* Starting an evaluation changes no arm that holds a position.
LEMMA BegunShape ==
    ASSUME TypeOK, NEW m \in Mints, NEW f \in [AllRules -> Arm], NEW others,
           Begun(m, f, others), \A q \in AllRules : SameArm(arms[m][q], f[q])
    PROVE  \A n \in Mints, q \in AllRules : Same(n, q)
<1>0. arms \in [Mints -> [AllRules -> Arm]]
  BY DEF TypeOK
<1> PICK elapsed \in SUBSET {r \in Rules : f[r].st = "Cooldown" /\ Enabled(r)} :
        arms' = [arms EXCEPT ![m] =
              [r \in AllRules |-> IF r \in elapsed THEN Idle("Armed") ELSE f[r]]]
  BY DEF Begun
<1>1. \A n \in Mints \ {m}, q \in AllRules : Same(n, q)
  <2>1. \A n \in Mints \ {m} : arms'[n] = arms[n]
    BY <1>0
  <2> QED BY <2>1, SameRefl DEF Same
<1>2. arms'[m] = [r \in AllRules |-> IF r \in elapsed THEN Idle("Armed") ELSE f[r]]
  BY <1>0
<1>3. ASSUME NEW q \in AllRules PROVE Same(m, q)
  <2>1. CASE q \in elapsed
    <3>1. ~Holds(f[q]) /\ f[q].st = "Cooldown"
      BY <2>1 DEF Holds
    <3>2. ~Holds(arms[m][q])
      BY <3>1 DEF SameArm, Holds
    <3>3. arms'[m][q] = Idle("Armed") /\ ~Holds(Idle("Armed"))
      BY <1>2, <2>1, IdleHoldsNothing DEF ArmTags
    <3> QED BY <3>2, <3>3 DEF Same, SameArm
  <2>2. CASE q \notin elapsed
    BY <1>2, <2>2 DEF Same
  <2> QED BY <2>1, <2>2
<1> QED BY <1>1, <1>3

-----------------------------------------------------------------------------
(* Every step is of one of the four kinds.                                 *)

\* The steps of evaluate_token's loop.
LEMMA DecideShape ==
    ASSUME TypeOK, NEW r \in todo,
           \/ DecideDisarm(r) \/ DecideExhaust(r) \/ DecideEnter(r) \/ DecideExit(r)
           \/ DecidePartialExit(r) \/ DecideInflight(r) \/ DecideNothing(r)
    PROVE  Shaped
<1> USE DEF countVars, posVars, orderVars
<1>1. cur \in Mints /\ r \in AllRules
  BY DEF TypeOK, DecideDisarm, DecideExhaust, DecideEnter, DecideExit,
              DecidePartialExit, DecideInflight, DecideNothing, Deciding
<1>2. arms[cur][r] \in Arm
  <2>1. arms \in [Mints -> [AllRules -> Arm]]
    BY DEF TypeOK
  <2> QED BY <1>1, <2>1, ArmsUpdate
<1>3. ASSUME NEW a, SetArm(r, a)
      PROVE  arms'[cur][r] = a /\ OthersSame(cur, r)
  BY <1>1, <1>3, SetShape DEF SetArm
<1>4. ASSUME NEW a, SetArm(r, a), SameArm(arms[cur][r], a),
             UNCHANGED <<countVars, posVars, orderVars, abandoned>>
      PROVE  Shaped
  <2>1. \A m \in Mints, q \in AllRules : Same(m, q)
    BY <1>1, <1>3, <1>4 DEF OthersSame, Same
  <2> QED BY <1>4, <2>1 DEF Shaped, StillStep, Kept
<1>5. /\ ~Holds(Idle("Disarmed")) /\ ~Holds(Idle("Done"))
      /\ arms[cur][r].st = "Armed" => ~Holds(arms[cur][r])
  BY IdleHoldsNothing DEF ArmTags, Holds
<1>6. CASE DecideDisarm(r)
  BY <1>4, <1>5, <1>6 DEF DecideDisarm, Deciding, SameArm
<1>7. CASE DecideExhaust(r)
  BY <1>4, <1>5, <1>7 DEF DecideExhaust, Deciding, SameArm
<1>8. CASE DecideEnter(r)
  <2> DEFINE a == EntryPending(positionSeq + 1, intentSeq + 1, 1)
  <2>1. a.st = "EntryPending" /\ a.pos = positionSeq + 1 /\ a.intent = intentSeq + 1
    BY DEF EntryPending, NoArm
  <2>2. arms'[cur][r] = a /\ OthersSame(cur, r) /\ ~Holds(arms[cur][r])
    BY <1>3, <1>5, <1>8 DEF DecideEnter, Deciding
  <2>3. r \in Rules /\ Enabled(r) /\ CapsAllow(r)
    BY <1>8 DEF DecideEnter, Enabled
  <2>4. r \in Exclusive => \A q \in AllRules \ {r} : ~Holds(arms[cur][q])
    BY <1>8 DEF DecideEnter, SiblingHolds
  <2> HIDE DEF a
  <2>5. GainStep(cur, r)
    BY <1>8, <2>1, <2>2, <2>3, <2>4 DEF DecideEnter, GainStep, Report, Submit
  <2> QED BY <1>1, <2>5 DEF Shaped
<1>9. ASSUME NEW why, NEW portion, Deciding(r, "Entered"), SubmitExit(r, why, portion)
      PROVE  Shaped
  <2> DEFINE a == ExitPending(arms[cur][r], intentSeq + 1, 1, why, portion)
  <2>1. /\ a.st = "ExitPending" /\ a.pos = arms[cur][r].pos /\ a.intent = intentSeq + 1
        /\ Holds(a) /\ InFlight(a)
    BY DEF ExitPending, Holds, InFlight
  <2>2. arms'[cur][r] = a /\ OthersSame(cur, r)
    BY <1>3, <1>9 DEF SubmitExit
  <2>3. Holds(arms[cur][r]) /\ ~InFlight(arms[cur][r])
    BY <1>9 DEF Deciding, Holds, InFlight
  <2> HIDE DEF a
  <2>4. outstanding' = outstanding \cup {Intent(cur, r, a.intent)}
    BY <1>9, <2>1 DEF SubmitExit, Submit
  <2>5. \A o \in outstanding : (o.mint = cur /\ o.rule = r) => ~Awaited(o)
    BY <2>3 DEF Awaited, ArmOf
  <2>6. a.st \in Onward(arms[cur][r].st)
    BY <1>9, <2>1 DEF Deciding, Onward
  <2>7. MoveStep(cur, r)
    BY <1>9, <2>1, <2>2, <2>3, <2>4, <2>5, <2>6 DEF SubmitExit, MoveStep, Report, StatusOf
  <2> QED BY <1>1, <2>7 DEF Shaped
<1>10. CASE DecideExit(r)
  BY <1>9, <1>10 DEF DecideExit
<1>11. CASE DecidePartialExit(r)
  BY <1>9, <1>11 DEF DecidePartialExit
<1>12. CASE DecideInflight(r)
  <2> PICK b \in PartialBps \cup {Bag}, ofBag \in BOOLEAN :
        /\ SetArm(r, [arms[cur][r] EXCEPT !.owed = AddOwed(@, b, ofBag)])
        /\ UNCHANGED <<countVars, posVars, orderVars, abandoned>>
    BY <1>12 DEF DecideInflight
  <2> DEFINE a == [arms[cur][r] EXCEPT !.owed = AddOwed(@, b, ofBag)]
  <2>1. a.st = arms[cur][r].st /\ a.pos = arms[cur][r].pos /\ a.intent = arms[cur][r].intent
    BY <1>2 DEF Arm
  <2>2. SetArm(r, a)
    OBVIOUS
  <2> HIDE DEF a
  <2>3. SameArm(arms[cur][r], a)
    BY <2>1 DEF SameArm, Holds
  <2> QED BY <1>4, <2>2, <2>3
<1>13. CASE DecideNothing(r)
  <2>1. \A m \in Mints, q \in AllRules : Same(m, q)
    BY <1>13, SameRefl DEF DecideNothing, Same
  <2> QED BY <1>13, <2>1 DEF DecideNothing, Shaped, StillStep, Kept
<1> QED BY <1>6, <1>7, <1>8, <1>10, <1>11, <1>12, <1>13

\* The market's events, and the start and the end of an evaluation, leave
\* the held positions alone.
LEMMA MarketShape ==
    ASSUME TypeOK, EndEvaluate \/ (\E m \in rest, d \in BOOLEAN : TickToken(m, d)) \/ Market \/ Tick
    PROVE  StillStep
<1> USE DEF countVars, posVars, orderVars, historyVars, tokenVars
<1>1. \A m \in Mints : arms[m] \in [AllRules -> Arm]
  BY DEF TypeOK
<1>2. /\ Idle("Armed") \in Arm /\ Idle("PendingFirstSlot") \in Arm /\ Idle("Disarmed") \in Arm
      /\ NoArm \in Arm
  BY IdleTypes DEF ArmTags
<1>3. /\ ~Holds(Idle("Armed")) /\ ~Holds(Idle("PendingFirstSlot")) /\ ~Holds(Idle("Disarmed"))
      /\ ~Holds(NoArm)
  BY IdleHoldsNothing DEF ArmTags
<1>4. ASSUME NEW m \in Mints, NEW f \in [AllRules -> Arm], NEW others, Begun(m, f, others),
             \A q \in AllRules : SameArm(arms[m][q], f[q]),
             UNCHANGED <<countVars, posVars, orderVars, historyVars>>
      PROVE  StillStep
  <2>1. \A n \in Mints, q \in AllRules : Same(n, q)
    BY <1>4, BegunShape
  <2> QED BY <1>4, <2>1 DEF StillStep, Kept
<1>5. ASSUME NEW m \in Mints, NEW f \in [AllRules -> Arm], NEW eps, Store(m, f, eps),
             \A q \in AllRules : SameArm(arms[m][q], f[q]),
             UNCHANGED <<countVars, posVars, orderVars, abandoned>>
      PROVE  StillStep
  <2>1. /\ \A q \in AllRules : SameArm(f[q], arms'[m][q])
        /\ \A n \in Mints \ {m}, q \in AllRules : Same(n, q)
    BY <1>5, StoreShape
  <2>2. \A q \in AllRules : Same(m, q)
    BY <1>5, <2>1 DEF Same, SameArm, Holds
  <2> QED BY <1>5, <2>1, <2>2 DEF StillStep, Kept
<1>6. CASE EndEvaluate
  <2>1. cur \in Mints
    BY <1>6 DEF EndEvaluate, TypeOK
  <2>2. \A q \in AllRules : SameArm(arms[cur][q], arms[cur][q])
    BY SameRefl
  <2> QED BY <1>1, <1>5, <1>6, <2>1, <2>2 DEF EndEvaluate
<1>7. ASSUME NEW m \in rest, NEW d \in BOOLEAN, TickToken(m, d)
      PROVE  StillStep
  <2>1. m \in Mints
    BY DEF TypeOK
  <2>2. /\ Begun(m, arms[m], rest \ {m})
        /\ UNCHANGED <<countVars, posVars, orderVars, historyVars>>
    BY <1>7 DEF TickToken, BeginEvaluate, Begun
  <2>3. \A q \in AllRules : SameArm(arms[m][q], arms[m][q])
    BY SameRefl
  <2> QED BY <1>1, <1>4, <2>1, <2>2, <2>3
<1>8. ASSUME NEW m \in Mints, NEW hits \in SUBSET Rules, TokenCreated(m, hits)
      PROVE  StillStep
  <2> DEFINE matched == {r \in hits : Enabled(r)}
             f == [r \in AllRules |->
                     CASE r \in matched \cap FirstSlot -> Idle("PendingFirstSlot")
                       [] r \in matched \ FirstSlot   -> Idle("Armed")
                       [] OTHER                       -> NoArm]
  <2>1. f \in [AllRules -> Arm]
    BY <1>2
  <2>2. \A q \in AllRules : ~Holds(f[q])
    BY <1>3
  <2>3. \A q \in AllRules : ~Holds(arms[m][q])
    BY <1>8 DEF TokenCreated, Tracked, Holds
  <2>4. /\ Begun(m, f, {})
        /\ UNCHANGED <<countVars, posVars, orderVars, historyVars>>
    BY <1>8 DEF TokenCreated, BeginEvaluate, Begun
  <2> HIDE DEF f
  <2>5. \A q \in AllRules : SameArm(arms[m][q], f[q])
    BY <2>2, <2>3 DEF SameArm
  <2> QED BY <1>4, <2>1, <2>4, <2>5
<1>9. ASSUME NEW m \in Mints, NEW hits \in SUBSET Rules, NEW d \in BOOLEAN,
             FirstSlotSettled(m, hits, d)
      PROVE  StillStep
  <2> DEFINE Settle(r, a) ==
              IF a.st # "PendingFirstSlot" \/ ~Enabled(r) THEN a
              ELSE IF r \in hits THEN Idle("Armed") ELSE NoArm
             f == [r \in AllRules |-> Settle(r, arms[m][r])]
  <2>1. f \in [AllRules -> Arm]
    BY <1>1, <1>2
  <2>2. /\ Begun(m, f, {})
        /\ UNCHANGED <<countVars, posVars, orderVars, historyVars>>
    BY <1>9 DEF FirstSlotSettled, BeginEvaluate, Begun
  <2>3. ASSUME NEW q \in AllRules PROVE SameArm(arms[m][q], f[q])
    <3>1. CASE arms[m][q].st = "PendingFirstSlot"
      <4>1. ~Holds(arms[m][q]) /\ (f[q] = arms[m][q] \/ ~Holds(f[q]))
        BY <1>3, <3>1 DEF Holds
      <4> QED BY <4>1 DEF SameArm
    <3>2. CASE arms[m][q].st # "PendingFirstSlot"
      <4>1. f[q] = arms[m][q]
        BY <3>2
      <4> HIDE DEF f
      <4> QED BY <4>1, SameRefl
    <3> QED BY <3>1, <3>2
  <2> HIDE DEF f
  <2> QED BY <1>4, <2>1, <2>2, <2>3
<1>10. ASSUME NEW m \in Mints, NEW d \in BOOLEAN, Trade(m, d)
       PROVE  StillStep
  <2>1. /\ Begun(m, arms[m], {})
        /\ UNCHANGED <<countVars, posVars, orderVars, historyVars>>
    BY <1>10 DEF Trade, BeginEvaluate, Begun
  <2>2. \A q \in AllRules : SameArm(arms[m][q], arms[m][q])
    BY SameRefl
  <2> QED BY <1>1, <1>4, <2>1, <2>2
<1>11. ASSUME NEW m \in Mints, Migrated(m)
       PROVE  StillStep
  <2> DEFINE f == [r \in AllRules |-> IF LeftByMigration(arms[m][r])
                                      THEN Idle("Disarmed") ELSE arms[m][r]]
  <2>1. f \in [AllRules -> Arm]
    BY <1>1, <1>2
  <2>2. Store(m, f, episodes[m]) /\ UNCHANGED <<countVars, posVars, orderVars, abandoned>>
    BY <1>11 DEF Migrated
  <2>3. \A q \in AllRules : SameArm(arms[m][q], f[q])
    BY <1>3, SameRefl DEF SameArm, LeftByMigration, Holds
  <2> HIDE DEF f
  <2> QED BY <1>5, <2>1, <2>2, <2>3
<1>12. CASE Tick
  <2>1. \A m \in Mints, q \in AllRules : Same(m, q)
    BY <1>12, SameRefl DEF Tick, Same
  <2> QED BY <1>12, <2>1 DEF Tick, StillStep, Kept
<1> QED BY <1>6, <1>7, <1>8, <1>9, <1>10, <1>11, <1>12 DEF Market

\* The executor's answers move a position on or end it; a stale one does
\* neither.
LEMMA AnswerShape ==
    ASSUME TypeOK, NEW o \in Orders, AnswerOrder(o)
    PROVE  Shaped
<1> USE DEF countVars, posVars, orderVars, runVars, historyVars, tokenVars
<1> DEFINE m == o.mint
           r == o.rule
           a == arms[m][r]
<1>1. m \in Mints /\ r \in AllRules
  BY DEF Orders
<1>2. a \in Arm /\ outstanding \subseteq IntentIds
  <2>1. arms \in [Mints -> [AllRules -> Arm]] /\ outstanding \subseteq IntentIds
    BY DEF TypeOK
  <2> QED BY <1>1, <2>1, ArmsUpdate
<1>3. ArmOf(o) = a
  BY DEF ArmOf
<1>4. /\ Idle("Armed") \in Arm /\ Idle("Done") \in Arm /\ Idle("Cooldown") \in Arm
      /\ ~Holds(Idle("Armed")) /\ ~Holds(Idle("Done")) /\ ~Holds(Idle("Cooldown"))
  BY IdleTypes, IdleHoldsNothing DEF ArmTags
\* the order that is answered is the only one its arm waits for
<1>5. ASSUME Awaited(o), NEW x \in outstanding \ {o}, x.mint = m, x.rule = r
      PROVE  ~Awaited(x)
  <2>1. x \in IntentIds /\ o \in [mint : Mints, rule : AllRules, seq : Nat]
    BY <1>2 DEF Orders
  <2>2. x.seq # o.seq
    BY <1>5, <2>1 DEF IntentIds
  <2> QED BY <1>5, <2>2 DEF Awaited, ArmOf
<1> HIDE DEF m, r
<1>6. ASSUME NEW b, arms' = [arms EXCEPT ![m][r] = b], Awaited(o),
             Holds(a), Holds(b), b.pos = a.pos,
             \/ Answer({o})
             \/ Submit(m, r, {o}) /\ InFlight(b) /\ b.intent = intentSeq + 1,
             UNCHANGED <<open, positions, positionSeq, abandoned>>,
             \/ status' = [status EXCEPT ![a.pos] = StatusOf(b.st)] /\ b.st \in Onward(a.st)
             \/ /\ status' = status /\ b.st = a.st
                /\ a.st = "EntryPending" => (Loaded(r) => Enabled(r))
      PROVE  Shaped
  <2>1. arms'[m][r] = b /\ OthersSame(m, r)
    BY <1>1, <1>6, SetShape
  <2>2. \A x \in outstanding' :
          x \in outstanding \ {o} \/ (InFlight(b) /\ x = Intent(m, r, b.intent))
    BY <1>6 DEF Answer, Submit
  <2>3. \A x \in outstanding \ {o} : (x.mint = m /\ x.rule = r) => ~Awaited(x)
    BY <1>5, <1>6
  <2>4. \A x \in outstanding' \cap outstanding : (x.mint = m /\ x.rule = r) => ~Awaited(x)
    <3>1. intentSeq' \in Nat
      BY <1>6 DEF Answer, Submit, TypeOK
    <3>2. o \notin outstanding'
      <4>1. o.seq # intentSeq + 1
        BY DEF Orders, TypeOK
      <4>2. o # Intent(m, r, intentSeq + 1)
        BY <4>1 DEF Intent
      <4> QED BY <1>6, <4>2 DEF Answer, Submit
    <3> QED BY <2>3, <3>2
  <2>5. MoveStep(m, r)
    BY <1>6, <2>1, <2>2, <2>4 DEF MoveStep
  <2> QED BY <1>1, <2>5 DEF Shaped
<1>7. ASSUME NEW b \in Arm, ~Holds(b), NEW eps, Store(m, [arms[m] EXCEPT ![r] = b], eps),
             Awaited(o), Holds(a), Answer({o}), NEW s \in Endings(a.st), Report(a.pos, s),
             remove_position(a.pos), open' = [open EXCEPT ![r] = SaturatingDec(@)],
             UNCHANGED abandoned
      PROVE  Shaped
  <2>1. ~Holds(arms'[m][r]) /\ OthersSame(m, r)
    BY <1>1, <1>7, StoreLoses
  <2>2. outstanding' = outstanding \ {o}
    BY <1>7 DEF Answer
  <2>3. Cleared(m, r) /\ Kept
    BY <1>5, <1>7, <2>2 DEF Cleared, Kept
  <2>4. LoseStep(m, r)
    BY <1>7, <2>1, <2>2, <2>3 DEF LoseStep, remove_position, Report
  <2> QED BY <1>1, <2>4 DEF Shaped
<1>8. CASE StaleAnswer(o)
  <2>1. \A n \in Mints, q \in AllRules : Same(n, q)
    BY <1>8, SameRefl DEF StaleAnswer, Same
  <2> QED BY <1>8, <2>1 DEF StaleAnswer, Answer, Shaped, StillStep, Kept
<1>9. CASE BuyConfirmed(o)
  <2> DEFINE held == Entered(a.pos, 0, Bag)
             portion == IF a.owed = Bag THEN All ELSE [kind |-> "Remaining", bps |-> a.owed]
             b == IF a.owed > 0 THEN ExitPending(held, intentSeq + 1, 1, "Line", portion)
                                ELSE held
  <2>1. /\ b.pos = a.pos /\ Holds(b)
        /\ a.owed > 0 => b.st = "ExitPending" /\ InFlight(b) /\ b.intent = intentSeq + 1
        /\ ~(a.owed > 0) => b.st = "Entered"
    BY DEF Entered, ExitPending, Holds, InFlight
  <2>2. /\ arms' = [arms EXCEPT ![m][r] = b] /\ Awaited(o)
        /\ Report(a.pos, IF a.owed > 0 THEN "ExitPending" ELSE "Holding")
        /\ IF a.owed > 0 THEN Submit(m, r, {o}) ELSE Answer({o})
        /\ UNCHANGED <<open, positions, positionSeq, abandoned>>
    BY <1>3, <1>9 DEF BuyConfirmed, m, r
  <2>3. Holds(a) /\ a.st = "EntryPending"
    BY <1>3, <1>9 DEF BuyConfirmed, Holds
  <2> HIDE DEF b, a
  <2>4. status' = [status EXCEPT ![a.pos] = StatusOf(b.st)] /\ b.st \in Onward(a.st)
    BY <2>1, <2>2, <2>3 DEF Report, StatusOf, Onward
  <2> USE DEF a
  <2> QED BY <1>6, <2>1, <2>2, <2>3, <2>4
<1>10. CASE PartialSellConfirmed(o)
  <2> DEFINE b == Entered(a.pos, a.sold + portion_sold_bps(a.portion, a.sold),
                          a.left - token_amount(a.portion, a.left))
  <2>1. b.pos = a.pos /\ Holds(b) /\ b.st = "Entered"
    BY DEF Entered, Holds
  <2>2. /\ arms' = [arms EXCEPT ![m][r] = b] /\ Awaited(o)
        /\ Report(a.pos, "Holding") /\ Answer({o})
        /\ UNCHANGED <<open, positions, positionSeq, abandoned>>
    BY <1>3, <1>10 DEF PartialSellConfirmed, m, r
  <2>3. Holds(a) /\ a.st = "ExitPending"
    BY <1>3, <1>10 DEF PartialSellConfirmed, Holds
  <2> HIDE DEF b
  <2>4. status' = [status EXCEPT ![a.pos] = StatusOf(b.st)] /\ b.st \in Onward(a.st)
    BY <2>1, <2>2, <2>3 DEF Report, StatusOf, Onward
  <2> QED BY <1>6, <2>1, <2>2, <2>3, <2>4
<1>11. CASE SellConfirmed(o)
  <2> DEFINE b == ArmAfterClose(m, r, a.reason)
             eps == EpisodesAfter(m, r, a.reason)
  <2>1. b \in Arm /\ ~Holds(b)
    BY <1>4 DEF ArmAfterClose
  <2>2. /\ Store(m, [arms[m] EXCEPT ![r] = b], eps) /\ Awaited(o) /\ Answer({o})
        /\ decrement_open(r) /\ remove_position(a.pos) /\ Report(a.pos, "End")
        /\ UNCHANGED abandoned
    BY <1>3, <1>11 DEF SellConfirmed, m, r
  <2>3. Holds(a) /\ "End" \in Endings(a.st)
    BY <1>3, <1>11 DEF SellConfirmed, Holds, Endings
  <2>4. open' = [open EXCEPT ![r] = SaturatingDec(@)]
    BY <2>2 DEF decrement_open
  <2> HIDE DEF b, eps
  <2> QED BY <1>7, <2>1, <2>2, <2>3, <2>4
<1>12. ASSUME arms' = [arms EXCEPT ![m][r] = Resent(a, intentSeq + 1)], Submit(m, r, {o}),
              Awaited(o), UNCHANGED <<open, posVars, abandoned>>,
              a.st = "EntryPending" => (Loaded(r) => Enabled(r))
       PROVE  Shaped
  <2> DEFINE b == Resent(a, intentSeq + 1)
  <2>1. b.st = a.st /\ b.pos = a.pos /\ b.intent = intentSeq + 1
    BY <1>2 DEF Resent, Arm
  <2>2. InFlight(a) /\ Holds(a)
    BY <1>3, <1>12 DEF Awaited, InFlight, Holds
  <2>3. InFlight(b) /\ Holds(b)
    BY <2>1, <2>2 DEF InFlight, Holds
  <2>4. arms' = [arms EXCEPT ![m][r] = b]
    BY <1>12
  <2> HIDE DEF b
  <2> QED BY <1>6, <1>12, <2>1, <2>2, <2>3, <2>4
<1>13. ASSUME NEW why \in FailReasons, NEW q \in BOOLEAN, BuyRetried(o, why, q)
       PROVE  Shaped
  BY <1>3, <1>12, <1>13 DEF BuyRetried, Retries, m, r
<1>14. ASSUME NEW why \in FailReasons, SellRetried(o, why)
       PROVE  Shaped
  BY <1>3, <1>12, <1>14 DEF SellRetried, m, r
<1>15. ASSUME NEW why \in FailReasons, NEW q \in BOOLEAN, BuyGivenUp(o, why, q)
       PROVE  Shaped
  <2>1. PICK b \in {Idle("Armed"), Idle("Done")} :
        /\ StoreArm(m, r, b) /\ Awaited(o) /\ Answer({o})
        /\ rollback_entry(r) /\ remove_position(a.pos) /\ Report(a.pos, "EntryFailed")
        /\ UNCHANGED abandoned
    BY <1>3, <1>15 DEF BuyGivenUp, m, r
  <2>2. Holds(a) /\ "EntryFailed" \in Endings(a.st)
    BY <1>3, <1>15 DEF BuyGivenUp, Holds, Endings
  <2>3. open' = [open EXCEPT ![r] = SaturatingDec(@)]
    BY <2>1 DEF rollback_entry
  <2>4. Store(m, [arms[m] EXCEPT ![r] = b], episodes[m])
    BY <2>1 DEF StoreArm
  <2> QED BY <1>4, <1>7, <2>1, <2>2, <2>3, <2>4
<1>16. ASSUME NEW why \in FailReasons, SellGivenUp(o, why)
       PROVE  Shaped
  <2>0. Holds(a) /\ Endings(a.st) = {"End", "ExitStuck", "ExitUnconfirmed"}
    BY <1>3, <1>16 DEF SellGivenUp, Holds, Endings
  <2>1. PICK s \in Endings(a.st) :
        /\ StoreArm(m, r, Idle("Done")) /\ Awaited(o) /\ Answer({o})
        /\ decrement_open(r) /\ remove_position(a.pos) /\ Report(a.pos, s)
        /\ UNCHANGED abandoned
    BY <1>3, <1>16, <2>0 DEF SellGivenUp, m, r
  <2>3. open' = [open EXCEPT ![r] = SaturatingDec(@)]
    BY <2>1 DEF decrement_open
  <2>4. Store(m, [arms[m] EXCEPT ![r] = Idle("Done")], episodes[m])
    BY <2>1 DEF StoreArm
  <2> QED BY <1>4, <1>7, <2>0, <2>1, <2>3, <2>4
<1> QED BY <1>8, <1>9, <1>10, <1>11, <1>13, <1>14, <1>15, <1>16 DEF AnswerOrder

\* The operator's commands.
LEMMA OperatorShape == ASSUME TypeOK, Operator PROVE Shaped
<1> USE DEF countVars, posVars, orderVars, runVars, historyVars, tokenVars
<1>1. arms \in [Mints -> [AllRules -> Arm]] /\ outstanding \subseteq IntentIds
  BY DEF TypeOK
<1>2. /\ Idle("Disarmed") \in Arm /\ Idle("Done") \in Arm
      /\ ~Holds(Idle("Disarmed")) /\ ~Holds(Idle("Done"))
  BY IdleTypes, IdleHoldsNothing DEF ArmTags
<1>3. ASSUME NEW new \in [Rules -> ReloadStates], RulesReloaded(new)
      PROVE  Shaped
  <2>1. ASSUME NEW m \in Mints, NEW q \in AllRules PROVE Same(m, q)
    <3>1. arms'[m][q] = IF DisarmedBy(new, q, arms[m][q]) THEN Idle("Disarmed") ELSE arms[m][q]
      BY <1>3 DEF RulesReloaded
    <3>2. CASE DisarmedBy(new, q, arms[m][q])
      BY <1>2, <3>1, <3>2 DEF DisarmedBy, Same, SameArm
    <3>3. CASE ~DisarmedBy(new, q, arms[m][q])
      BY <3>1, <3>3, SameRefl DEF Same
    <3> QED BY <3>2, <3>3
  <2> QED BY <1>3, <2>1 DEF RulesReloaded, Shaped, StillStep, Kept
<1>4. ASSUME NEW m \in Mints, NEW r \in Manual, NEW exit \in BOOLEAN, ManualBuy(m, r, exit)
      PROVE  Shaped
  <2> DEFINE a == EntryPending(positionSeq + 1, intentSeq + 1, 1)
  <2>1. a.st = "EntryPending" /\ a.pos = positionSeq + 1 /\ a.intent = intentSeq + 1
    BY DEF EntryPending, NoArm
  <2>0. r \in AllRules /\ r \notin Exclusive
    BY ConstantsAssumption DEF AllRules
  <2>2. arms'[m][r] = a /\ OthersSame(m, r)
    <3>1. arms' = [arms EXCEPT ![m][r] = a]
      BY <1>4 DEF ManualBuy
    <3> HIDE DEF a
    <3> QED BY <2>0, <3>1, SetShape
  <2>3. ~Holds(arms[m][r])
    BY <1>4 DEF ManualBuy, Holds
  <2> HIDE DEF a
  <2>4. GainStep(m, r)
    BY <1>4, <2>0, <2>1, <2>2, <2>3 DEF ManualBuy, GainStep, Report, Submit
  <2> QED BY <2>0, <2>4 DEF Shaped
<1>5. ASSUME NEW p \in DOMAIN positions
      PROVE  positions[p].mint \in Mints /\ positions[p].rule \in AllRules
  BY DEF TypeOK
<1>6. ASSUME NEW p \in DOMAIN positions, NEW exit \in BOOLEAN, SetManualExit(p, exit)
      PROVE  Shaped
  <2>1. \A m \in Mints, q \in AllRules : Same(m, q)
    BY <1>6, SameRefl DEF SetManualExit, Same
  <2> QED BY <1>6, <2>1 DEF SetManualExit, Shaped, StillStep, Kept
<1>7. ASSUME NEW p \in DOMAIN positions, ManualCloseBuy(p)
      PROVE  Shaped
  <2> DEFINE m == positions[p].mint
             r == positions[p].rule
  <2>1. m \in Mints /\ r \in AllRules
    BY <1>5
  <2>2. arms[m][r].st = "EntryPending" /\ arms[m][r].pos = p /\ Holds(arms[m][r])
    BY <1>7 DEF ManualCloseBuy, OwnerArm, Holds
  <2>3. /\ rollback_entry(r) /\ Store(m, [arms[m] EXCEPT ![r] = Idle("Done")], episodes[m])
        /\ remove_position(p) /\ Report(p, "EntryFailed")
        /\ abandoned' = abandoned \cup {Intent(m, r, arms[m][r].intent)}
        /\ UNCHANGED <<intentSeq, outstanding>>
    BY <1>7 DEF ManualCloseBuy, StoreArm, OwnerOrder, OwnerArm
  <2> HIDE DEF m, r
  <2>4. ~Holds(arms'[m][r]) /\ OthersSame(m, r)
    BY <1>2, <2>1, <2>3, StoreLoses
  <2>5. Cleared(m, r)
    <3>1. ASSUME NEW o \in outstanding', o.mint = m, o.rule = r, Awaited(o)
          PROVE  o = Intent(m, r, arms[m][r].intent)
      <4>1. o \in IntentIds
        BY <1>1, <2>3
      <4>2. o.seq = arms[m][r].intent
        BY <3>1 DEF Awaited, ArmOf
      <4> QED BY <3>1, <4>1, <4>2 DEF IntentIds, Intent
    <3> QED BY <2>3, <3>1 DEF Cleared
  <2>6. open' = [open EXCEPT ![r] = SaturatingDec(@)] /\ "EntryFailed" \in Endings(arms[m][r].st)
    BY <2>2, <2>3 DEF rollback_entry, Endings
  <2>7. LoseStep(m, r)
    BY <2>2, <2>3, <2>4, <2>5, <2>6 DEF LoseStep, remove_position, Report, Kept
  <2> QED BY <2>1, <2>7 DEF Shaped
<1>8. ASSUME NEW p \in DOMAIN positions, NEW portion \in ManualPortions,
             ManualCloseBag(p, portion)
      PROVE  Shaped
  <2> DEFINE m == positions[p].mint
             r == positions[p].rule
             a == ExitPending(arms[m][r], intentSeq + 1, 1, "Manual", portion)
  <2>1. m \in Mints /\ r \in AllRules
    BY <1>5
  <2>2. arms[m][r].st = "Entered" /\ arms[m][r].pos = p
    BY <1>8 DEF ManualCloseBag, CanClose, OwnerArm
  <2>3. Holds(arms[m][r]) /\ ~InFlight(arms[m][r])
    BY <2>2 DEF Holds, InFlight
  <2>4. /\ a.st = "ExitPending" /\ a.pos = arms[m][r].pos /\ a.intent = intentSeq + 1
        /\ Holds(a) /\ InFlight(a)
    BY DEF ExitPending, Holds, InFlight
  <2>5. /\ arms' = [arms EXCEPT ![m][r] = a] /\ Submit(m, r, {})
        /\ Report(p, "ExitPending")
        /\ UNCHANGED <<open, positions, positionSeq, abandoned>>
    BY <1>8 DEF ManualCloseBag
  <2> HIDE DEF m, r, a
  <2>6. arms'[m][r] = a /\ OthersSame(m, r)
    BY <2>1, <2>5, SetShape
  <2>7. outstanding' = outstanding \cup {Intent(m, r, a.intent)}
    BY <2>4, <2>5 DEF Submit
  <2>8. \A o \in outstanding : (o.mint = m /\ o.rule = r) => ~Awaited(o)
    BY <2>3 DEF Awaited, ArmOf
  <2>9. a.st \in Onward(arms[m][r].st)
    BY <2>2, <2>4 DEF Onward
  <2>10. MoveStep(m, r)
    BY <2>2, <2>3, <2>4, <2>5, <2>6, <2>7, <2>8, <2>9 DEF MoveStep, Report, StatusOf
  <2> QED BY <2>1, <2>10 DEF Shaped
<1>9. ASSUME NEW p \in DOMAIN positions, ExternallyCleared(p)
      PROVE  Shaped
  <2> DEFINE m == positions[p].mint
             r == positions[p].rule
  <2>1. m \in Mints /\ r \in AllRules
    BY <1>5
  <2>2. arms[m][r].st = "Entered" /\ arms[m][r].pos = p
    BY <1>9 DEF ExternallyCleared, CanClose, OwnerArm
  <2>3. Holds(arms[m][r]) /\ ~InFlight(arms[m][r])
    BY <2>2 DEF Holds, InFlight
  <2>4. /\ decrement_open(r) /\ Store(m, [arms[m] EXCEPT ![r] = Idle("Done")], episodes[m])
        /\ remove_position(p) /\ Report(p, "End")
        /\ UNCHANGED <<outstanding, abandoned>>
    BY <1>9 DEF ExternallyCleared, StoreArm
  <2> HIDE DEF m, r
  <2>5. ~Holds(arms'[m][r]) /\ OthersSame(m, r)
    BY <1>2, <2>1, <2>4, StoreLoses
  <2>6. Cleared(m, r)
    BY <2>3 DEF Cleared, Awaited, ArmOf
  <2>7. open' = [open EXCEPT ![r] = SaturatingDec(@)] /\ "End" \in Endings(arms[m][r].st)
    BY <2>2, <2>4 DEF decrement_open, Endings
  <2>8. LoseStep(m, r)
    BY <2>2, <2>3, <2>4, <2>5, <2>6, <2>7 DEF LoseStep, remove_position, Report, Kept
  <2> QED BY <2>1, <2>8 DEF Shaped
<1> QED BY <1>3, <1>4, <1>6, <1>7, <1>8, <1>9 DEF Operator

\* Every step of the fold is of one of the four kinds.
LEMMA StepShape == ASSUME TypeOK, [Next]_vars PROVE Shaped
<1>1. CASE Next
  <2>1. CASE Decide
    BY <2>1, DecideShape DEF Decide
  <2>2. CASE Evaluation \/ Market \/ Tick
    BY <2>1, <2>2, MarketShape DEF Evaluation, Shaped
  <2>3. CASE Operator
    BY <2>3, OperatorShape
  <2>4. CASE \E o \in Orders : AnswerOrder(o)
    BY <2>4, AnswerShape
  <2> QED BY <1>1, <2>2, <2>3, <2>4 DEF Next
<1>2. CASE UNCHANGED vars
  <2>1. \A m \in Mints, q \in AllRules : Same(m, q)
    BY <1>2, SameRefl DEF vars, tokenVars, Same
  <2> QED BY <1>2, <2>1 DEF vars, countVars, posVars, orderVars, historyVars, Shaped, StillStep, Kept
<1> QED BY <1>1, <1>2

-----------------------------------------------------------------------------
(* Exclusive rules.                                                        *)

\* Two exclusive rules never hold the same token: a step that makes one hold
\* it saw no sibling holding it, and no step but a submitted buy makes an arm
\* hold a position.
THEOREM ExclusiveCorrect == Spec => []ExclusiveNeverShare
<1>1. Init => ExclusiveNeverShare
  <2>1. Init => \A m \in Mints, r \in AllRules : ~Holds(arms[m][r])
    BY IdleHoldsNothing DEF Init, NoArms
  <2>2. Exclusive \subseteq AllRules
    BY ConstantsAssumption DEF AllRules
  <2> QED BY <2>1, <2>2 DEF ExclusiveNeverShare
<1>2. TypeOK /\ ExclusiveNeverShare /\ [Next]_vars => ExclusiveNeverShare'
  <2> SUFFICES ASSUME TypeOK, ExclusiveNeverShare, [Next]_vars,
                      NEW n \in Mints, NEW x \in Exclusive, NEW y \in Exclusive, x # y,
                      Holds(arms'[n][x]), Holds(arms'[n][y])
               PROVE  FALSE
    BY DEF ExclusiveNeverShare, Holds
  <2>0. Exclusive \subseteq AllRules
    BY ConstantsAssumption DEF AllRules
  <2>1. ASSUME NEW m \in Mints, NEW r \in AllRules, GainStep(m, r) \/ MoveStep(m, r) \/ LoseStep(m, r)
        PROVE  FALSE
    <3>1. OthersSame(m, r)
      BY <2>1 DEF GainStep, MoveStep, LoseStep
    <3>2. \A q \in Exclusive : (n # m \/ q # r) /\ Holds(arms'[n][q]) => Holds(arms[n][q])
      BY <2>0, <3>1 DEF OthersSame, Same, SameArm
    <3>3. CASE GainStep(m, r)
      BY <2>0, <3>2, <3>3 DEF GainStep, ExclusiveNeverShare
    <3>4. CASE MoveStep(m, r) \/ LoseStep(m, r)
      BY <3>2, <3>4 DEF MoveStep, LoseStep, ExclusiveNeverShare
    <3> QED BY <2>1, <3>3, <3>4
  <2>2. CASE StillStep
    <3>1. Holds(arms[n][x]) /\ Holds(arms[n][y])
      BY <2>0, <2>2 DEF StillStep, Same, SameArm
    <3> QED BY <3>1 DEF ExclusiveNeverShare
  <2> QED BY <2>1, <2>2, StepShape DEF Shaped
<1> QED BY <1>1, <1>2, TypeCorrect, PTL DEF Spec

-----------------------------------------------------------------------------
(* Orders in flight.                                                       *)

\* No order is lost: every outstanding order is the one its arm waits for,
\* unless the operator closed that buy in flight.
THEOREM OrdersCorrect == Spec => []OutstandingAwaited
<1>1. Init => OutstandingAwaited
  BY DEF Init, OutstandingAwaited
<1>2. TypeOK /\ OutstandingAwaited /\ [Next]_vars => OutstandingAwaited'
  <2> SUFFICES ASSUME TypeOK, OutstandingAwaited, [Next]_vars,
                      NEW o \in outstanding'
               PROVE  Awaited(o)' \/ o \in abandoned'
    BY DEF OutstandingAwaited
  <2>1. o \in IntentIds /\ o.mint \in Mints /\ o.rule \in AllRules
    <3>1. TypeOK'
      BY StepType
    <3> QED BY <3>1 DEF TypeOK, IntentIds
  \* an order of an arm the step does not touch
  <2>2. ASSUME o \in outstanding, Same(o.mint, o.rule), Kept
        PROVE  Awaited(o)' \/ o \in abandoned'
    <3>1. CASE Awaited(o)
      BY <2>2, <3>1 DEF Awaited, ArmOf, InFlight, Same, SameArm, Holds
    <3>2. CASE o \in abandoned
      BY <2>2, <3>2 DEF Kept
    <3> QED BY <2>2, <3>1, <3>2 DEF OutstandingAwaited
  <2>3. CASE StillStep
    BY <2>1, <2>2, <2>3 DEF StillStep
  <2>4. ASSUME NEW m \in Mints, NEW r \in AllRules, GainStep(m, r)
        PROVE  Awaited(o)' \/ o \in abandoned'
    <3>1. CASE o = Intent(m, r, intentSeq + 1)
      BY <2>4, <3>1 DEF GainStep, Intent, Awaited, ArmOf, InFlight
    <3>2. CASE o \in outstanding /\ (o.mint # m \/ o.rule # r)
      BY <2>1, <2>2, <2>4, <3>2 DEF GainStep, OthersSame, Kept
    <3>3. CASE o \in outstanding /\ o.mint = m /\ o.rule = r
      <4>1. ~Awaited(o)
        BY <2>4, <3>3 DEF GainStep, Awaited, ArmOf, InFlight, Holds
      <4> QED BY <2>4, <3>3, <4>1 DEF GainStep, OutstandingAwaited
    <3> QED BY <2>4, <3>1, <3>2, <3>3 DEF GainStep
  <2>5. ASSUME NEW m \in Mints, NEW r \in AllRules, MoveStep(m, r)
        PROVE  Awaited(o)' \/ o \in abandoned'
    <3>1. CASE InFlight(arms'[m][r]) /\ o = Intent(m, r, arms'[m][r].intent)
      BY <3>1 DEF Intent, Awaited, ArmOf, InFlight
    <3>2. CASE o \in outstanding /\ (o.mint # m \/ o.rule # r)
      BY <2>1, <2>2, <2>5, <3>2 DEF MoveStep, OthersSame, Kept
    <3>3. CASE o \in outstanding /\ o.mint = m /\ o.rule = r
      <4>1. ~Awaited(o)
        BY <2>5, <3>3 DEF MoveStep
      <4> QED BY <2>5, <3>3, <4>1 DEF MoveStep, OutstandingAwaited
    <3> QED BY <2>5, <3>1, <3>2, <3>3 DEF MoveStep
  <2>6. ASSUME NEW m \in Mints, NEW r \in AllRules, LoseStep(m, r)
        PROVE  Awaited(o)' \/ o \in abandoned'
    <3>1. o \in outstanding /\ Kept /\ OthersSame(m, r) /\ Cleared(m, r)
      BY <2>6 DEF LoseStep
    <3>2. CASE o.mint # m \/ o.rule # r
      BY <2>1, <2>2, <3>1, <3>2 DEF OthersSame
    <3>3. CASE o.mint = m /\ o.rule = r
      BY <3>1, <3>3 DEF Cleared, Kept, OutstandingAwaited
    <3> QED BY <3>2, <3>3
  <2> QED BY <2>3, <2>4, <2>5, <2>6, StepShape DEF Shaped
<1> QED BY <1>1, <1>2, TypeCorrect, PTL DEF Spec

-----------------------------------------------------------------------------
(* The owner map.                                                          *)

\* What the owner map says of one holding arm.
Owned(m, r) ==
    Holds(arms[m][r]) =>
        /\ arms[m][r].pos \in DOMAIN positions
        /\ positions[arms[m][r].pos] = [mint |-> m, rule |-> r]
        /\ status[arms[m][r].pos] = StatusOf(arms[m][r].st)
Owns(p) == Holds(OwnerArm(p)) /\ OwnerArm(p).pos = p

\* OwnersMatchArms in these terms.
LEMMA OwnersParts ==
    OwnersMatchArms <=> /\ \A p \in DOMAIN positions : Owns(p)
                        /\ \A m \in Mints, r \in AllRules : Owned(m, r)
BY DEF OwnersMatchArms, Owned, Owns

\* The owner map names a position exactly while one arm holds it, and names
\* that arm, and the last status reported for it is the arm's.
THEOREM OwnersCorrect == Spec => []OwnersMatchArms
<1>1. Init => OwnersMatchArms
  BY IdleHoldsNothing DEF Init, OwnersMatchArms, NoArms
<1>2. TypeOK /\ OwnersMatchArms /\ [Next]_vars => OwnersMatchArms'
  <2> SUFFICES ASSUME TypeOK, OwnersMatchArms, [Next]_vars PROVE OwnersMatchArms'
    OBVIOUS
  <2>1. /\ \A p \in DOMAIN positions : Owns(p)
        /\ \A m \in Mints, r \in AllRules : Owned(m, r)
    BY OwnersParts
  <2>2. \A p \in DOMAIN positions :
           positions[p].mint \in Mints /\ positions[p].rule \in AllRules /\ p \in 1 .. positionSeq
    BY DEF TypeOK
  <2>3. /\ status \in [1 .. MaxPositions -> Statuses] /\ positionSeq \in 0 .. MaxPositions
        /\ MaxPositions \in Nat
    BY ConstantsAssumption DEF TypeOK
  \* two arms never hold the same position
  <2>4. ASSUME NEW m \in Mints, NEW r \in AllRules, NEW n \in Mints, NEW q \in AllRules,
               Holds(arms[m][r]), Holds(arms[n][q]), arms[m][r].pos = arms[n][q].pos
        PROVE  m = n /\ r = q
    <3>1. [mint |-> m, rule |-> r] = [mint |-> n, rule |-> q]
      BY <2>1, <2>4 DEF Owned
    <3>2. [mint |-> m, rule |-> r].mint = [mint |-> n, rule |-> q].mint
          /\ [mint |-> m, rule |-> r].rule = [mint |-> n, rule |-> q].rule
      BY <3>1
    <3> QED BY <3>2
  <2>5. CASE StillStep
    <3>1. \A p \in DOMAIN positions : Owns(p)'
      BY <2>1, <2>2, <2>5 DEF StillStep, Owns, OwnerArm, Same, SameArm, Holds
    <3>2. \A m \in Mints, r \in AllRules : Owned(m, r)'
      BY <2>1, <2>5 DEF StillStep, Owned, Same, SameArm, Holds
    <3> QED BY <2>5, <3>1, <3>2 DEF StillStep, OwnersMatchArms, Owned, Owns
  <2>6. ASSUME NEW m \in Mints, NEW r \in AllRules, GainStep(m, r)
        PROVE  OwnersMatchArms'
    <3> DEFINE p0 == positionSeq + 1
    <3>1. p0 \notin DOMAIN positions /\ p0 \in 1 .. MaxPositions
      BY <2>2, <2>3, <2>6 DEF GainStep
    <3>2. /\ DOMAIN positions' = DOMAIN positions \cup {p0}
          /\ positions'[p0] = [mint |-> m, rule |-> r]
          /\ \A p \in DOMAIN positions : positions'[p] = positions[p]
      BY <2>6, <3>1 DEF GainStep
    <3>3. status'[p0] = "BuySubmitted" /\ \A p \in DOMAIN positions : status'[p] = status[p]
      <4>1. status' = [status EXCEPT ![p0] = "BuySubmitted"]
        BY <2>6 DEF GainStep
      <4>2. DOMAIN positions \subseteq 1 .. MaxPositions
        BY <2>2, <2>3
      <4> QED BY <2>3, <3>1, <4>1, <4>2
    <3> HIDE DEF p0
    <3>4. ASSUME NEW p \in DOMAIN positions' PROVE Owns(p)'
      <4>1. CASE p = p0
        BY <2>6, <3>2, <4>1 DEF GainStep, Owns, OwnerArm, Holds, p0
      <4>2. CASE p \in DOMAIN positions
        <5>1. positions[p].mint # m \/ positions[p].rule # r
          BY <2>1, <2>6, <4>2 DEF GainStep, Owns, OwnerArm
        <5>2. Same(positions[p].mint, positions[p].rule)
          BY <2>2, <2>6, <4>2, <5>1 DEF GainStep, OthersSame
        <5> QED BY <2>1, <3>2, <4>2, <5>2 DEF Owns, OwnerArm, Same, SameArm, Holds
      <4> QED BY <3>2, <4>1, <4>2
    <3>5. ASSUME NEW n \in Mints, NEW q \in AllRules PROVE Owned(n, q)'
      <4>1. CASE n = m /\ q = r
        BY <2>6, <3>2, <3>3, <4>1 DEF GainStep, Owned, StatusOf, p0
      <4>2. CASE n # m \/ q # r
        <5>1. Same(n, q) /\ Owned(n, q)
          BY <2>1, <2>6, <4>2 DEF GainStep, OthersSame
        <5> QED BY <3>2, <3>3, <5>1 DEF Owned, Same, SameArm, Holds
      <4> QED BY <4>1, <4>2
    <3> QED BY <3>4, <3>5 DEF OwnersMatchArms, Owned, Owns
  <2>7. ASSUME NEW m \in Mints, NEW r \in AllRules, MoveStep(m, r)
        PROVE  OwnersMatchArms'
    <3> DEFINE p0 == arms[m][r].pos
    <3>1. /\ Holds(arms[m][r]) /\ Holds(arms'[m][r]) /\ arms'[m][r].pos = p0
          /\ positions' = positions /\ OthersSame(m, r)
      BY <2>7 DEF MoveStep
    <3>2. /\ p0 \in DOMAIN positions /\ positions[p0] = [mint |-> m, rule |-> r]
          /\ status[p0] = StatusOf(arms[m][r].st) /\ p0 \in 1 .. MaxPositions
      BY <2>1, <2>2, <2>3, <3>1 DEF Owned
    <3>3. /\ status'[p0] = StatusOf(arms'[m][r].st)
          /\ \A p \in DOMAIN positions \ {p0} : status'[p] = status[p]
      <4>1. CASE status' = [status EXCEPT ![p0] = StatusOf(arms'[m][r].st)]
        <5>1. DOMAIN positions \subseteq 1 .. MaxPositions
          BY <2>2, <2>3
        <5> QED BY <2>3, <3>2, <4>1, <5>1
      <4>2. CASE status' = status /\ arms'[m][r].st = arms[m][r].st
        BY <3>2, <4>2
      <4> QED BY <2>7, <4>1, <4>2 DEF MoveStep
    <3> HIDE DEF p0
    <3>4. ASSUME NEW p \in DOMAIN positions' PROVE Owns(p)'
      <4>1. CASE positions[p].mint = m /\ positions[p].rule = r
        BY <2>1, <3>1, <4>1 DEF Owns, OwnerArm, p0
      <4>2. CASE positions[p].mint # m \/ positions[p].rule # r
        <5>1. Same(positions[p].mint, positions[p].rule)
          BY <2>2, <3>1, <4>2 DEF OthersSame
        <5> QED BY <2>1, <3>1, <5>1 DEF Owns, OwnerArm, Same, SameArm, Holds
      <4> QED BY <4>1, <4>2
    <3>5. ASSUME NEW n \in Mints, NEW q \in AllRules PROVE Owned(n, q)'
      <4>1. CASE n = m /\ q = r
        BY <3>1, <3>2, <3>3, <4>1 DEF Owned
      <4>2. CASE (n # m \/ q # r) /\ Holds(arms[n][q])
        <5>1. Same(n, q) /\ Owned(n, q) /\ arms[n][q].pos # p0
          BY <2>1, <2>4, <3>1, <4>2 DEF OthersSame, p0
        <5> QED BY <3>1, <3>3, <4>2, <5>1 DEF Owned, Same, SameArm, Holds
      <4>3. CASE (n # m \/ q # r) /\ ~Holds(arms[n][q])
        BY <3>1, <4>3 DEF OthersSame, Owned, Same, SameArm, Holds
      <4> QED BY <4>1, <4>2, <4>3
    <3> QED BY <3>4, <3>5 DEF OwnersMatchArms, Owned, Owns
  <2>8. ASSUME NEW m \in Mints, NEW r \in AllRules, LoseStep(m, r)
        PROVE  OwnersMatchArms'
    <3> DEFINE p0 == arms[m][r].pos
    <3>1. /\ Holds(arms[m][r]) /\ ~Holds(arms'[m][r]) /\ OthersSame(m, r)
          /\ positions' = [p \in DOMAIN positions \ {p0} |-> positions[p]]
      BY <2>8 DEF LoseStep
    <3>2. \A p \in DOMAIN positions \ {p0} : status'[p] = status[p]
      <4>1. PICK s : status' = [status EXCEPT ![p0] = s]
        BY <2>8 DEF LoseStep
      <4>2. DOMAIN positions \subseteq 1 .. MaxPositions
        BY <2>2, <2>3
      <4> QED BY <2>3, <4>1, <4>2
    <3>3. /\ DOMAIN positions' = DOMAIN positions \ {p0}
          /\ \A p \in DOMAIN positions' : positions'[p] = positions[p]
      BY <3>1
    <3> HIDE DEF p0
    <3>4. ASSUME NEW p \in DOMAIN positions' PROVE Owns(p)'
      <4>1. p \in DOMAIN positions /\ p # p0 /\ positions'[p] = positions[p]
        BY <3>3
      <4>2. positions[p].mint # m \/ positions[p].rule # r
        BY <2>1, <4>1 DEF Owns, OwnerArm, p0
      <4>3. Same(positions[p].mint, positions[p].rule)
        BY <2>2, <3>1, <4>1, <4>2 DEF OthersSame
      <4> QED BY <2>1, <4>1, <4>3 DEF Owns, OwnerArm, Same, SameArm, Holds
    <3>5. ASSUME NEW n \in Mints, NEW q \in AllRules PROVE Owned(n, q)'
      <4>1. CASE n = m /\ q = r
        BY <3>1, <4>1 DEF Owned, Holds
      <4>2. CASE (n # m \/ q # r) /\ Holds(arms[n][q])
        <5>1. Same(n, q) /\ Owned(n, q) /\ arms[n][q].pos # p0
          BY <2>1, <2>4, <3>1, <4>2 DEF OthersSame, p0
        <5> QED BY <3>2, <3>3, <4>2, <5>1 DEF Owned, Same, SameArm, Holds
      <4>3. CASE (n # m \/ q # r) /\ ~Holds(arms[n][q])
        BY <3>1, <4>3 DEF OthersSame, Owned, Same, SameArm, Holds
      <4> QED BY <4>1, <4>2, <4>3
    <3> QED BY <3>4, <3>5 DEF OwnersMatchArms, Owned, Owns
  <2> QED BY <2>5, <2>6, <2>7, <2>8, StepShape DEF Shaped
<1> QED BY <1>1, <1>2, TypeCorrect, PTL DEF Spec

-----------------------------------------------------------------------------
(* The concurrency counter.                                                *)

\* The holders of a rule are finitely many.
LEMMA HoldersFinite == \A r : IsFiniteSet(Holders(r))
<1>1. IsFiniteSet(Mints) /\ \A r : Holders(r) \subseteq Mints
  BY ConstantsAssumption DEF Holders
<1> QED BY <1>1, FS_Subset

\* The invariant that carries both: the counter is exact, so the cap checked
\* when a buy is submitted bounds the holders.
CountInv == OpenCountsHolders /\ ConcurrencyCapped

\* The concurrency counter of every rule counts exactly the tokens it holds,
\* and never exceeds its cap.
THEOREM CountCorrect == Spec => [](OpenCountsHolders /\ ConcurrencyCapped)
<1>1. Init => CountInv
  <2> SUFFICES ASSUME Init, NEW r \in Rules
               PROVE  open[r] = Cardinality(Holders(r)) /\ Cardinality(Holders(r)) <= ConcurrentCap[r]
    BY DEF CountInv, OpenCountsHolders, ConcurrencyCapped
  <2>1. r \in AllRules /\ ConcurrentCap[r] \in Nat
    BY ConstantsAssumption DEF AllRules
  <2>2. Holders(r) = {}
    BY <2>1, IdleHoldsNothing DEF Init, NoArms, Holders
  <2>3. Cardinality(Holders(r)) = 0
    BY <2>2, FS_EmptySet
  <2> QED BY <2>1, <2>3 DEF Init
<1>2. TypeOK /\ CountInv /\ [Next]_vars => CountInv'
  <2> SUFFICES ASSUME TypeOK, CountInv, [Next]_vars, NEW x \in Rules
               PROVE  /\ open'[x] = Cardinality(Holders(x)')
                      /\ Cardinality(Holders(x)') <= ConcurrentCap[x]
    BY DEF CountInv, OpenCountsHolders, ConcurrencyCapped
  <2>1. /\ x \in AllRules /\ ConcurrentCap[x] \in Nat
        /\ open[x] = Cardinality(Holders(x)) /\ open[x] <= ConcurrentCap[x]
        /\ open \in [AllRules -> Nat]
    BY ConstantsAssumption DEF AllRules, TypeOK, CountInv, OpenCountsHolders, ConcurrencyCapped
  \* a step that leaves the arms of x alone leaves its holders alone
  <2>2. ASSUME \A n \in Mints : Same(n, x), open'[x] = open[x]
        PROVE  /\ open'[x] = Cardinality(Holders(x)')
               /\ Cardinality(Holders(x)') <= ConcurrentCap[x]
    <3>1. Holders(x)' = Holders(x)
      BY <2>2 DEF Holders, Same, SameArm, Holds
    <3> QED BY <2>1, <2>2, <3>1
  <2>3. CASE StillStep
    BY <2>1, <2>2, <2>3 DEF StillStep
  <2>4. ASSUME NEW m \in Mints, NEW r \in AllRules, OthersSame(m, r), r # x, open'[x] = open[x]
        PROVE  /\ open'[x] = Cardinality(Holders(x)')
               /\ Cardinality(Holders(x)') <= ConcurrentCap[x]
    BY <2>1, <2>2, <2>4 DEF OthersSame
  <2>5. ASSUME NEW m \in Mints, NEW r \in AllRules, GainStep(m, r)
        PROVE  /\ open'[x] = Cardinality(Holders(x)')
               /\ Cardinality(Holders(x)') <= ConcurrentCap[x]
    <3>1. CASE r # x
      <4>1. open'[x] = open[x]
        BY <2>1, <2>5, <3>1 DEF GainStep
      <4> QED BY <2>4, <2>5, <3>1, <4>1 DEF GainStep
    <3>2. CASE r = x
      <4>1. Holders(x)' = Holders(x) \cup {m} /\ m \notin Holders(x)
        BY <2>1, <2>5, <3>2 DEF GainStep, OthersSame, Same, SameArm, Holders, Holds
      <4>2. Cardinality(Holders(x)') = Cardinality(Holders(x)) + 1
        BY <4>1, HoldersFinite, FS_AddElement
      <4>3. open'[x] = open[x] + 1 /\ open[x] < ConcurrentCap[x]
        BY <2>1, <2>5, <3>2, ConstantsAssumption DEF GainStep, CapsAllow
      <4> QED BY <2>1, <4>2, <4>3
    <3> QED BY <3>1, <3>2
  <2>6. ASSUME NEW m \in Mints, NEW r \in AllRules, MoveStep(m, r)
        PROVE  /\ open'[x] = Cardinality(Holders(x)')
               /\ Cardinality(Holders(x)') <= ConcurrentCap[x]
    <3>1. Holders(x)' = Holders(x)
      BY <2>1, <2>6 DEF MoveStep, OthersSame, Same, SameArm, Holders, Holds
    <3> QED BY <2>1, <2>6, <3>1 DEF MoveStep
  <2>7. ASSUME NEW m \in Mints, NEW r \in AllRules, LoseStep(m, r)
        PROVE  /\ open'[x] = Cardinality(Holders(x)')
               /\ Cardinality(Holders(x)') <= ConcurrentCap[x]
    <3>1. CASE r # x
      <4>1. open'[x] = open[x]
        BY <2>1, <2>7, <3>1 DEF LoseStep
      <4> QED BY <2>4, <2>7, <3>1, <4>1 DEF LoseStep
    <3>2. CASE r = x
      <4>1. Holders(x)' = Holders(x) \ {m} /\ m \in Holders(x)
        BY <2>1, <2>7, <3>2 DEF LoseStep, OthersSame, Same, SameArm, Holders, Holds
      <4>2. Cardinality(Holders(x)') = Cardinality(Holders(x)) - 1
        BY <4>1, HoldersFinite, FS_RemoveElement
      <4>3. Cardinality(Holders(x)') \in Nat
        <5>1. IsFiniteSet(Holders(x)')
          BY <4>1, HoldersFinite, FS_Subset
        <5> QED BY <5>1, FS_CardinalityType
      <4>4. open'[x] = open[x] - 1
        BY <2>1, <2>7, <3>2, <4>2, <4>3 DEF LoseStep, SaturatingDec
      <4> QED BY <2>1, <4>2, <4>4
    <3> QED BY <3>1, <3>2
  <2> QED BY <2>3, <2>5, <2>6, <2>7, StepShape DEF Shaped
<1>3. CountInv => OpenCountsHolders /\ ConcurrencyCapped
  BY DEF CountInv
<1> QED BY <1>1, <1>2, <1>3, TypeCorrect, PTL DEF Spec

\* A rule never holds more tokens at once than its concurrency cap allows.
THEOREM CapCorrect == Spec => []ConcurrencyCapped
BY CountCorrect, PTL

-----------------------------------------------------------------------------
(* Stopped rules.                                                          *)

\* A rule that only drains buys nothing more: a buy is first submitted by an
\* enabled rule only, and is retried by a loaded rule only while enabled.
THEOREM DrainCorrect == Spec => DrainingRuleNeverBuys
<1>1. TypeOK /\ [Next]_vars => [\A o \in NewBuys : o.rule \in Rules => rules[o.rule] # "drain"]_vars
  <2> SUFFICES ASSUME TypeOK, [Next]_vars, NEW o \in outstanding' \ outstanding,
                      ArmOf(o)'.st = "EntryPending", o.rule \in Rules
               PROVE  rules[o.rule] # "drain"
    BY DEF NewBuys
  <2>1. ~StillStep /\ \A m \in Mints, r \in AllRules : ~LoseStep(m, r)
    BY DEF StillStep, LoseStep
  <2>2. ASSUME NEW m \in Mints, NEW r \in AllRules, GainStep(m, r)
        PROVE  rules[o.rule] # "drain"
    <3>1. o = Intent(m, r, intentSeq + 1)
      BY <2>2 DEF GainStep
    <3>2. o.rule = r
      BY <3>1 DEF Intent
    <3> QED BY <2>2, <3>2, ConstantsAssumption DEF GainStep, Enabled
  <2>3. ASSUME NEW m \in Mints, NEW r \in AllRules, MoveStep(m, r)
        PROVE  rules[o.rule] # "drain"
    <3>1. o = Intent(m, r, arms'[m][r].intent)
      BY <2>3 DEF MoveStep
    <3>2. o.mint = m /\ o.rule = r
      BY <3>1 DEF Intent
    <3>3. arms'[m][r].st = "EntryPending"
      BY <3>2 DEF ArmOf
    <3>4. \A tag : "EntryPending" \notin Onward(tag)
      BY DEF Onward
    <3>5. Loaded(r) => Enabled(r)
      BY <2>3, <3>3, <3>4 DEF MoveStep
    <3> QED BY <3>2, <3>5 DEF Loaded, Enabled
  <2> QED BY <2>1, <2>2, <2>3, StepShape DEF Shaped
<1> QED BY <1>1, TypeCorrect, PTL DEF Spec, DrainingRuleNeverBuys

-----------------------------------------------------------------------------
(* The position lifecycle.                                                 *)

\* Position ids are used in order: the ones not reported yet are the ones not
\* minted yet.
Born == \A p \in 1 .. MaxPositions : status[p] = "Unborn" <=> p > positionSeq


\* The arm that holds a position is known by its position id.
LEMMA HeldPosition ==
    ASSUME TypeOK, OwnersMatchArms, NEW m \in Mints, NEW r \in AllRules, Holds(arms[m][r])
    PROVE  /\ arms[m][r].pos \in DOMAIN positions
           /\ arms[m][r].pos \in 1 .. positionSeq /\ arms[m][r].pos \in 1 .. MaxPositions
           /\ status[arms[m][r].pos] = StatusOf(arms[m][r].st)
<1>1. arms[m][r].pos \in DOMAIN positions /\ status[arms[m][r].pos] = StatusOf(arms[m][r].st)
  BY DEF OwnersMatchArms
<1>2. arms[m][r].pos \in 1 .. positionSeq /\ positionSeq \in 0 .. MaxPositions
  BY <1>1 DEF TypeOK
<1> QED BY <1>1, <1>2, ConstantsAssumption

\* A status reported on the way is not the initial one, nor is a final one.
LEMMA ReportedStatuses ==
    /\ \A tag \in {"EntryPending", "Entered", "ExitPending"} : StatusOf(tag) # "Unborn"
    /\ \A tag \in {"EntryPending", "Entered", "ExitPending"} : "Unborn" \notin Endings(tag)
BY DEF StatusOf, Endings

\* Ids are used in order.
LEMMA BornStep == ASSUME TypeOK, OwnersMatchArms, Born, [Next]_vars PROVE Born'
<1>0. /\ status \in [1 .. MaxPositions -> Statuses] /\ positionSeq \in 0 .. MaxPositions
      /\ MaxPositions \in Nat
  BY ConstantsAssumption DEF TypeOK
<1>1. CASE StillStep
  BY <1>1 DEF StillStep, Born
<1>2. ASSUME NEW m \in Mints, NEW r \in AllRules, GainStep(m, r)
      PROVE  Born'
  <2>1. /\ positionSeq < MaxPositions /\ positionSeq' = positionSeq + 1
        /\ status' = [status EXCEPT ![positionSeq + 1] = "BuySubmitted"]
    BY <1>2 DEF GainStep
  <2> QED BY <1>0, <2>1 DEF Born
<1>3. ASSUME NEW m \in Mints, NEW r \in AllRules, Holds(arms[m][r]), positionSeq' = positionSeq,
             NEW s, s # "Unborn", status' = [status EXCEPT ![arms[m][r].pos] = s]
      PROVE  Born'
  <2>1. arms[m][r].pos \in 1 .. positionSeq
    BY <1>3, HeldPosition
  <2> QED BY <1>0, <1>3, <2>1 DEF Born
<1>4. ASSUME NEW m \in Mints, NEW r \in AllRules, MoveStep(m, r)
      PROVE  Born'
  <2>1. CASE status' = status
    BY <1>4, <2>1 DEF MoveStep, Born
  <2>2. CASE status' = [status EXCEPT ![arms[m][r].pos] = StatusOf(arms'[m][r].st)]
    <3>1. Holds(arms[m][r]) /\ Holds(arms'[m][r]) /\ positionSeq' = positionSeq
      BY <1>4 DEF MoveStep
    <3>2. StatusOf(arms'[m][r].st) # "Unborn"
      BY <3>1, ReportedStatuses DEF Holds
    <3> QED BY <1>3, <2>2, <3>1, <3>2
  <2> QED BY <1>4, <2>1, <2>2 DEF MoveStep
<1>5. ASSUME NEW m \in Mints, NEW r \in AllRules, LoseStep(m, r)
      PROVE  Born'
  <2>1. PICK s \in Endings(arms[m][r].st) : status' = [status EXCEPT ![arms[m][r].pos] = s]
    BY <1>5 DEF LoseStep
  <2>2. Holds(arms[m][r]) /\ positionSeq' = positionSeq
    BY <1>5 DEF LoseStep
  <2>3. s # "Unborn"
    BY <2>1, <2>2, ReportedStatuses DEF Holds
  <2> QED BY <1>3, <2>1, <2>2, <2>3
<1> QED BY <1>1, <1>2, <1>4, <1>5, StepShape DEF Shaped

\* A rule has no more open positions than tokens it holds: two positions of
\* one rule are never on the same token.
OpenPositions(r) == {p \in DOMAIN positions : positions[p].rule = r}
LEMMA OpenPositionsCounted ==
    ASSUME TypeOK, OwnersMatchArms, NEW r \in AllRules
    PROVE  /\ Cardinality(OpenPositions(r)) \in Nat
           /\ Cardinality(OpenPositions(r)) <= Cardinality(Holders(r))
<1> DEFINE f == [p \in OpenPositions(r) |-> positions[p].mint]
<1>1. ASSUME NEW p \in OpenPositions(r)
      PROVE  /\ positions[p].mint \in Mints /\ Holds(arms[positions[p].mint][r])
             /\ arms[positions[p].mint][r].pos = p
  BY DEF OpenPositions, OwnersMatchArms, OwnerArm, TypeOK
<1>2. f \in [OpenPositions(r) -> Holders(r)]
  BY <1>1 DEF Holders
<1>3. \A p, q \in OpenPositions(r) : f[p] = f[q] => p = q
  BY <1>1
<1>4. f \in Injection(OpenPositions(r), Holders(r))
  BY <1>2, <1>3 DEF Injection, IsInjective
<1>5. IsFiniteSet(OpenPositions(r)) /\ Cardinality(OpenPositions(r)) <= Cardinality(Holders(r))
  BY <1>4, HoldersFinite, FS_Injection
<1> QED BY <1>5, FS_CardinalityType

\* The fold implements the lifecycle the position table and the console rely
\* on: a step that leaves the held positions alone is a stutter, a buy
\* submitted is Submit, a position that ends is Finish, and one that goes on
\* is Fill, StartExit or PartialFill, or a stutter when it is a retry.
THEOREM LifecycleImplemented == Spec => ImplementsLifecycle
<1> DEFINE own == [p \in DOMAIN positions |-> positions[p].rule]
<1>1. Init => Lifecycle!Init
  BY DEF Init, Lifecycle!Init, Lifecycle!Ids
<1>2. Init => Born
  BY ConstantsAssumption DEF Init, Born
<1>3. TypeOK /\ OwnersMatchArms /\ CountInv /\ Born /\ [Next]_vars
         => [Lifecycle!Next]_<<status, own>>
  <2> SUFFICES ASSUME TypeOK, OwnersMatchArms, CountInv, Born, [Next]_vars
               PROVE  [Lifecycle!Next]_<<status, own>>
    OBVIOUS
  <2>0. /\ status \in [1 .. MaxPositions -> Statuses] /\ positionSeq \in 0 .. MaxPositions
        /\ MaxPositions \in Nat /\ positionSeq \in Nat
    BY ConstantsAssumption DEF TypeOK
  <2>1. CASE StillStep
    BY <2>1 DEF StillStep
  <2>2. ASSUME NEW m \in Mints, NEW r \in AllRules, GainStep(m, r)
        PROVE  [Lifecycle!Next]_<<status, own>>
    <3>0. PICK p0 \in 1 .. MaxPositions : p0 = positionSeq + 1
      BY <2>0, <2>2 DEF GainStep
    <3>1. p0 \in 1 .. MaxPositions /\ status[p0] = "Unborn"
          /\ \A q \in 1 .. (p0 - 1) : status[q] # "Unborn"
      BY <2>0, <3>0 DEF Born
    <3>2. r \in Rules => Lifecycle!Cardinality(Lifecycle!OpenOf(r)) < ConcurrentCap[r]
      <4> SUFFICES ASSUME r \in Rules PROVE Lifecycle!Cardinality(Lifecycle!OpenOf(r)) < ConcurrentCap[r]
        OBVIOUS
      <4>0. \A S : Lifecycle!Cardinality(S) = Cardinality(S)
        BY DEF Lifecycle!Cardinality, Cardinality
      <4>1. Lifecycle!OpenOf(r) = OpenPositions(r)
        BY DEF Lifecycle!OpenOf, OpenPositions
      <4>2. open[r] < ConcurrentCap[r] /\ open[r] = Cardinality(Holders(r))
        BY <2>2, ConstantsAssumption DEF GainStep, CapsAllow, CountInv, OpenCountsHolders
      <4>3. open[r] \in Nat /\ ConcurrentCap[r] \in Nat
        BY ConstantsAssumption DEF TypeOK
      <4> QED BY <4>0, <4>1, <4>2, <4>3, OpenPositionsCounted
    <3>3. /\ positions' = [q \in DOMAIN positions \cup {p0} |->
                             IF q = p0 THEN [mint |-> m, rule |-> r] ELSE positions[q]]
          /\ status' = [status EXCEPT ![p0] = "BuySubmitted"]
      BY <2>2, <3>0 DEF GainStep
    <3>4. own' = [q \in DOMAIN own \cup {p0} |-> IF q = p0 THEN r ELSE own[q]]
      BY <3>3
    <3>5. Lifecycle!Submit(p0, r)
      BY <3>1, <3>2, <3>3, <3>4 DEF Lifecycle!Submit
    <3> QED BY <3>1, <3>5 DEF Lifecycle!Next, Lifecycle!Ids, AllRules
  <2>3. ASSUME NEW m \in Mints, NEW r \in AllRules, MoveStep(m, r)
        PROVE  [Lifecycle!Next]_<<status, own>>
    <3>a. Holds(arms[m][r])
      BY <2>3 DEF MoveStep
    <3>b. PICK p0 \in 1 .. MaxPositions : p0 = arms[m][r].pos
      BY <3>a, HeldPosition
    <3>1. /\ Holds(arms[m][r]) /\ Holds(arms'[m][r]) /\ positions' = positions
      BY <2>3, <3>b DEF MoveStep
    <3>2. p0 \in 1 .. MaxPositions /\ status[p0] = StatusOf(arms[m][r].st)
      BY <3>a, <3>b, HeldPosition
    <3>3. own' = own
      BY <3>1
    <3>4. CASE status' = status
      BY <3>3, <3>4
    <3>5. CASE /\ status' = [status EXCEPT ![p0] = StatusOf(arms'[m][r].st)]
               /\ arms'[m][r].st \in Onward(arms[m][r].st)
      <4>1. CASE arms[m][r].st = "EntryPending"
        <5>1. Lifecycle!Fill(p0)
          BY <3>2, <3>3, <3>5, <4>1 DEF Lifecycle!Fill, Onward, StatusOf
        <5> QED BY <3>2, <5>1 DEF Lifecycle!Next, Lifecycle!Ids
      <4>2. CASE arms[m][r].st = "Entered"
        <5>1. Lifecycle!StartExit(p0)
          BY <3>2, <3>3, <3>5, <4>2 DEF Lifecycle!StartExit, Onward, StatusOf
        <5> QED BY <3>2, <5>1 DEF Lifecycle!Next, Lifecycle!Ids
      <4>3. CASE arms[m][r].st = "ExitPending"
        <5>1. Lifecycle!PartialFill(p0)
          BY <3>2, <3>3, <3>5, <4>3 DEF Lifecycle!PartialFill, Onward, StatusOf
        <5> QED BY <3>2, <5>1 DEF Lifecycle!Next, Lifecycle!Ids
      <4> QED BY <3>1, <4>1, <4>2, <4>3 DEF Holds
    <3> QED BY <2>3, <3>b, <3>4, <3>5 DEF MoveStep
  <2>4. ASSUME NEW m \in Mints, NEW r \in AllRules, LoseStep(m, r)
        PROVE  [Lifecycle!Next]_<<status, own>>
    <3>a. Holds(arms[m][r])
      BY <2>4 DEF LoseStep
    <3>b. PICK p0 \in 1 .. MaxPositions : p0 = arms[m][r].pos
      BY <3>a, HeldPosition
    <3>1. /\ Holds(arms[m][r])
          /\ positions' = [q \in DOMAIN positions \ {p0} |-> positions[q]]
          /\ \E s \in Endings(arms[m][r].st) : status' = [status EXCEPT ![p0] = s]
      BY <2>4, <3>b DEF LoseStep
    <3>2. p0 \in 1 .. MaxPositions /\ status[p0] = StatusOf(arms[m][r].st)
      BY <3>a, <3>b, HeldPosition
    <3>3. own' = [q \in DOMAIN own \ {p0} |-> own[q]]
      BY <3>1
    <3>4. Endings(arms[m][r].st) = Lifecycle!Outcomes(status[p0])
      BY <3>1, <3>2 DEF Holds, Endings, StatusOf, Lifecycle!Outcomes
    <3>5. Lifecycle!Finish(p0)
      BY <3>1, <3>3, <3>4 DEF Lifecycle!Finish
    <3> QED BY <3>2, <3>5 DEF Lifecycle!Next, Lifecycle!Ids
  <2> QED BY <2>1, <2>2, <2>3, <2>4, StepShape DEF Shaped
<1>4. TypeOK /\ OwnersMatchArms /\ Born /\ [Next]_vars => Born'
  BY BornStep
<1>5. Spec => [](OwnersMatchArms /\ CountInv)
  BY OwnersCorrect, CountCorrect, PTL DEF CountInv
<1> QED BY <1>1, <1>2, <1>3, <1>4, <1>5, TypeCorrect, PTL
        DEF Spec, ImplementsLifecycle, Lifecycle!Spec

-----------------------------------------------------------------------------
(* What a step may do to one arm, its episode count and its fills.         *)

\* The count of a rule; manual episodes keep none.
At(g, q) == IF q \in Rules THEN g[q] ELSE 0

\* The arm of r goes from state s to t, its episode count from e to d and
\* its fills from f to g.
ArmMove(r, s, t, e, d, f, g) ==
    \/ t = s /\ d = e /\ g = f
    \/ t = "None" /\ d = 0 /\ g = 0
    \/ t \in {"Done", "Disarmed"} /\ g = f
    \/ /\ s \in {"None", "PendingFirstSlot"} /\ t \in {"None", "PendingFirstSlot"}
       /\ t = "PendingFirstSlot" => Enabled(r)
       /\ d = e /\ g = f
    \/ /\ s \in {"None", "PendingFirstSlot", "Cooldown", "EntryPending"} /\ t = "Armed"
       /\ Loaded(r) /\ d = e /\ g = f
    \/ s = "Armed" /\ t = "EntryPending" /\ d = e /\ g = f
    \/ s = "None" /\ t = "EntryPending" /\ r \in Manual
    \/ /\ s = "EntryPending" /\ t \in {"Entered", "ExitPending"} /\ d = e
       /\ r \in Rules => g = f + 1
    \/ s \in {"Entered", "ExitPending"} /\ t \in {"Entered", "ExitPending"} /\ d = e /\ g = f
    \/ /\ s = "ExitPending" /\ t = "Cooldown" /\ Loaded(r)
       /\ d = e + 1 /\ e + 1 < MaxPerCoin[r] /\ g = f
ArmStep(m, r) ==
    ArmMove(r, arms[m][r].st, arms'[m][r].st, At(episodes[m], r), At(episodes'[m], r),
            At(fills[m], r), At(fills'[m], r))
ArmSteps == rules' = rules /\ \A m \in Mints, r \in AllRules : ArmStep(m, r)

\* A reload leaves an arm alone or disarms it, and leaves waiting the arms of
\* active rules only.
ReloadStep ==
    /\ UNCHANGED <<episodes, fills>>
    /\ \A m \in Mints, r \in AllRules :
         \/ arms'[m][r] = arms[m][r] /\ (~Holds(arms[m][r]) /\ arms[m][r].st # "None" => Enabled(r)')
         \/ arms'[m][r].st = "Disarmed"

\* Arms that hold no position have the state they are given.
LEMMA IdleTag == \A tag : Idle(tag).st = tag
BY DEF Idle, NoArm

\* A step that changes one arm and no count.
LEMMA SetMove ==
    ASSUME TypeOK, NEW m \in Mints, NEW r \in AllRules, NEW a,
           arms' = [arms EXCEPT ![m][r] = a], UNCHANGED <<rules, episodes, fills>>,
           \A e, f : ArmMove(r, arms[m][r].st, a.st, e, e, f, f)
    PROVE  ArmSteps
<1>0. arms \in [Mints -> [AllRules -> Arm]]
  BY DEF TypeOK
<1>1. arms'[m][r] = a /\ \A n \in Mints, q \in AllRules : (n # m \/ q # r) => arms'[n][q] = arms[n][q]
  BY <1>0
<1>2. \A n \in Mints, q \in AllRules : (n # m \/ q # r) => ArmStep(n, q)
  BY <1>1 DEF ArmStep, ArmMove
<1>3. ArmStep(m, r)
  BY <1>1 DEF ArmStep
<1> QED BY <1>2, <1>3 DEF ArmSteps

\* A step that leaves arms and counts alone.
LEMMA NoMove == ASSUME UNCHANGED <<rules, arms, episodes, fills>> PROVE ArmSteps
BY DEF ArmSteps, ArmStep, ArmMove

\* A token put back with the arms f and the counts eps.
LEMMA StoreMove ==
    ASSUME TypeOK, NEW m \in Mints, NEW f \in [AllRules -> Arm], NEW eps, Store(m, f, eps),
           rules' = rules,
           \A q \in AllRules : ArmMove(q, arms[m][q].st, f[q].st, At(episodes[m], q), At(eps, q),
                                       At(fills[m], q), At(fills[m], q))
    PROVE  ArmSteps
<1>0. /\ arms \in [Mints -> [AllRules -> Arm]] /\ episodes \in [Mints -> [Rules -> Nat]]
      /\ fills \in [Mints -> [Rules -> Nat]]
  BY DEF TypeOK
<1> DEFINE keep == \E r \in AllRules : IsActive(f[r])
<1>1. /\ arms' = [arms EXCEPT ![m] = IF keep THEN f ELSE NoArms]
      /\ episodes' = [episodes EXCEPT ![m] = IF keep THEN eps ELSE NoEpisodes]
      /\ fills' = [fills EXCEPT ![m] = IF keep THEN fills[m] ELSE NoEpisodes]
  BY DEF Store
<1> HIDE DEF keep
<1>2. ASSUME NEW n \in Mints, n # m, NEW q \in AllRules PROVE ArmStep(n, q)
  <2>1. arms'[n] = arms[n] /\ episodes'[n] = episodes[n] /\ fills'[n] = fills[n]
    BY <1>0, <1>1, <1>2
  <2> QED BY <2>1 DEF ArmStep, ArmMove
<1>3. CASE keep
  <2>1. arms'[m] = f /\ episodes'[m] = eps /\ fills'[m] = fills[m]
    BY <1>0, <1>1, <1>3
  <2>2. \A q \in AllRules : ArmStep(m, q)
    BY <2>1 DEF ArmStep
  <2> QED BY <1>2, <2>2 DEF ArmSteps
<1>4. CASE ~keep
  <2>1. arms'[m] = NoArms /\ episodes'[m] = NoEpisodes /\ fills'[m] = NoEpisodes
    BY <1>0, <1>1, <1>4
  <2>2. \A q \in AllRules : arms'[m][q].st = "None" /\ At(episodes'[m], q) = 0 /\ At(fills'[m], q) = 0
    BY <2>1 DEF NoArms, NoArm, NoEpisodes, At
  <2>3. \A q \in AllRules : ArmStep(m, q)
    BY <2>2 DEF ArmStep, ArmMove
  <2> QED BY <1>2, <2>3 DEF ArmSteps
<1> QED BY <1>3, <1>4

\* An evaluation that starts with the arms f.
LEMMA BegunMove ==
    ASSUME TypeOK, NEW m \in Mints, NEW f \in [AllRules -> Arm], NEW others, Begun(m, f, others),
           UNCHANGED <<rules, episodes, fills>>,
           \A q \in AllRules :
             /\ f[q].st = "Cooldown" => arms[m][q].st = "Cooldown"
             /\ \A e, x : ArmMove(q, arms[m][q].st, f[q].st, e, e, x, x)
    PROVE  ArmSteps
<1>0. arms \in [Mints -> [AllRules -> Arm]]
  BY DEF TypeOK
<1> PICK elapsed \in SUBSET {r \in Rules : f[r].st = "Cooldown" /\ Enabled(r)} :
        arms' = [arms EXCEPT ![m] =
              [r \in AllRules |-> IF r \in elapsed THEN Idle("Armed") ELSE f[r]]]
  BY DEF Begun
<1>1. \A n \in Mints \ {m} : arms'[n] = arms[n]
  BY <1>0
<1>2. arms'[m] = [r \in AllRules |-> IF r \in elapsed THEN Idle("Armed") ELSE f[r]]
  BY <1>0
<1>3. ASSUME NEW n \in Mints, n # m, NEW q \in AllRules PROVE ArmStep(n, q)
  BY <1>1, <1>3 DEF ArmStep, ArmMove
<1>4. ASSUME NEW q \in AllRules PROVE ArmStep(m, q)
  <2>1. CASE q \in elapsed
    <3>1. arms'[m][q].st = "Armed" /\ arms[m][q].st = "Cooldown" /\ Enabled(q)
      BY <1>2, <2>1, IdleTag
    <3>2. Loaded(q)
      BY <3>1 DEF Loaded, Enabled
    <3> QED BY <3>1, <3>2 DEF ArmStep, ArmMove
  <2>2. CASE q \notin elapsed
    <3>1. arms'[m][q] = f[q]
      BY <1>2, <2>2
    <3> QED BY <3>1 DEF ArmStep
  <2> QED BY <2>1, <2>2
<1> QED BY <1>3, <1>4 DEF ArmSteps

\* The steps of evaluate_token's loop.
LEMMA DecideMoves ==
    ASSUME TypeOK, NEW r \in todo,
           \/ DecideDisarm(r) \/ DecideExhaust(r) \/ DecideEnter(r) \/ DecideExit(r)
           \/ DecidePartialExit(r) \/ DecideInflight(r) \/ DecideNothing(r)
    PROVE  ArmSteps
<1>1. cur \in Mints /\ r \in AllRules /\ arms[cur][r] \in Arm /\ UNCHANGED <<rules, episodes, fills>>
  <2>1. cur \in Mints /\ r \in AllRules
    BY DEF TypeOK, DecideDisarm, DecideExhaust, DecideEnter, DecideExit,
              DecidePartialExit, DecideInflight, DecideNothing, Deciding
  <2>2. UNCHANGED <<rules, episodes, fills>>
    BY DEF DecideDisarm, DecideExhaust, DecideEnter, DecideExit,
              DecidePartialExit, DecideInflight, DecideNothing, SubmitExit, Advance
  <2>3. arms \in [Mints -> [AllRules -> Arm]]
    BY DEF TypeOK
  <2> QED BY <2>1, <2>2, <2>3
<1>2. ASSUME NEW a, SetArm(r, a), \A e, f : ArmMove(r, arms[cur][r].st, a.st, e, e, f, f)
      PROVE  ArmSteps
  BY <1>1, <1>2, SetMove DEF SetArm
<1>3. CASE DecideDisarm(r) \/ DecideExhaust(r)
  <2>1. PICK tag \in {"Disarmed", "Done"} : SetArm(r, Idle(tag))
    BY <1>3 DEF DecideDisarm, DecideExhaust
  <2>2. \A e, f : ArmMove(r, arms[cur][r].st, Idle(tag).st, e, e, f, f)
    BY IdleTag DEF ArmMove
  <2> QED BY <1>2, <2>1, <2>2
<1>4. CASE DecideEnter(r)
  <2>1. /\ SetArm(r, EntryPending(positionSeq + 1, intentSeq + 1, 1)) /\ arms[cur][r].st = "Armed"
        /\ EntryPending(positionSeq + 1, intentSeq + 1, 1).st = "EntryPending"
    BY <1>4 DEF DecideEnter, Deciding, EntryPending, NoArm
  <2>2. \A e, f : ArmMove(r, "Armed", "EntryPending", e, e, f, f)
    BY DEF ArmMove
  <2> QED BY <1>2, <2>1, <2>2
<1>5. ASSUME NEW why, NEW portion, Deciding(r, "Entered"), SubmitExit(r, why, portion)
      PROVE  ArmSteps
  <2> DEFINE a == ExitPending(arms[cur][r], intentSeq + 1, 1, why, portion)
  <2>1. SetArm(r, a) /\ arms[cur][r].st = "Entered" /\ a.st = "ExitPending"
    BY <1>5 DEF SubmitExit, Deciding, ExitPending
  <2> HIDE DEF a
  <2>2. \A e, f : ArmMove(r, "Entered", "ExitPending", e, e, f, f)
    BY DEF ArmMove
  <2> QED BY <1>2, <2>1, <2>2
<1>6. CASE DecideExit(r) \/ DecidePartialExit(r)
  BY <1>5, <1>6 DEF DecideExit, DecidePartialExit
<1>7. CASE DecideInflight(r)
  <2>1. PICK b \in PartialBps \cup {Bag}, ofBag \in BOOLEAN :
            SetArm(r, [arms[cur][r] EXCEPT !.owed = AddOwed(@, b, ofBag)])
    BY <1>7 DEF DecideInflight
  <2> DEFINE a == [arms[cur][r] EXCEPT !.owed = AddOwed(@, b, ofBag)]
  <2>2. SetArm(r, a) /\ a.st = arms[cur][r].st
    BY <1>1, <2>1 DEF Arm
  <2> HIDE DEF a
  <2> QED BY <1>2, <2>2 DEF ArmMove
<1>8. CASE DecideNothing(r)
  BY <1>1, <1>8, NoMove DEF DecideNothing
<1> QED BY <1>3, <1>4, <1>6, <1>7, <1>8

\* The market's events, and the start and the end of an evaluation.
LEMMA MarketMoves ==
    ASSUME TypeOK, EndEvaluate \/ (\E m \in rest, d \in BOOLEAN : TickToken(m, d)) \/ Market \/ Tick
    PROVE  ArmSteps
<1> USE DEF countVars, posVars, orderVars, historyVars, tokenVars
<1>1. \A m \in Mints : arms[m] \in [AllRules -> Arm]
  BY DEF TypeOK
<1>2. /\ Idle("Armed") \in Arm /\ Idle("PendingFirstSlot") \in Arm /\ Idle("Disarmed") \in Arm
      /\ NoArm \in Arm /\ NoArm.st = "None"
  BY IdleTypes DEF ArmTags, NoArm
<1>3. \A q, s, e, f : ArmMove(q, s, s, e, e, f, f)
  BY DEF ArmMove
<1>4. CASE EndEvaluate
  <2>1. cur \in Mints /\ Store(cur, arms[cur], episodes[cur]) /\ rules' = rules
    BY <1>4 DEF EndEvaluate, TypeOK
  <2> QED BY <1>1, <1>3, <2>1, StoreMove
<1>5. ASSUME NEW m \in rest, NEW d \in BOOLEAN, TickToken(m, d)
      PROVE  ArmSteps
  <2>1. m \in Mints
    BY DEF TypeOK
  <2>2. Begun(m, arms[m], rest \ {m}) /\ UNCHANGED <<rules, episodes, fills>>
    BY <1>5 DEF TickToken, BeginEvaluate, Begun
  <2> QED BY <1>1, <1>3, <2>1, <2>2, BegunMove
<1>6. ASSUME NEW m \in Mints, NEW hits \in SUBSET Rules, TokenCreated(m, hits)
      PROVE  ArmSteps
  <2> DEFINE matched == {r \in hits : Enabled(r)}
             f == [r \in AllRules |->
                     CASE r \in matched \cap FirstSlot -> Idle("PendingFirstSlot")
                       [] r \in matched \ FirstSlot   -> Idle("Armed")
                       [] OTHER                       -> NoArm]
  <2>1. f \in [AllRules -> Arm]
    BY <1>2
  <2>2. ASSUME NEW q \in AllRules
        PROVE  \/ f[q].st = "PendingFirstSlot" /\ Enabled(q)
               \/ f[q].st = "Armed" /\ Enabled(q)
               \/ f[q].st = "None"
    BY <1>2, IdleTag
  <2>3. \A q \in AllRules : arms[m][q].st = "None"
    BY <1>6 DEF TokenCreated, Tracked
  <2>4. Begun(m, f, {}) /\ UNCHANGED <<rules, episodes, fills>>
    BY <1>6 DEF TokenCreated, BeginEvaluate, Begun
  <2> HIDE DEF f
  <2>5. ASSUME NEW q \in AllRules
        PROVE  /\ f[q].st = "Cooldown" => arms[m][q].st = "Cooldown"
               /\ \A e, x : ArmMove(q, arms[m][q].st, f[q].st, e, e, x, x)
    BY <2>2, <2>3 DEF ArmMove, Enabled, Loaded
  <2> QED BY <2>1, <2>4, <2>5, BegunMove
<1>7. ASSUME NEW m \in Mints, NEW hits \in SUBSET Rules, NEW d \in BOOLEAN,
             FirstSlotSettled(m, hits, d)
      PROVE  ArmSteps
  <2> DEFINE Settle(r, a) ==
              IF a.st # "PendingFirstSlot" \/ ~Enabled(r) THEN a
              ELSE IF r \in hits THEN Idle("Armed") ELSE NoArm
             f == [r \in AllRules |-> Settle(r, arms[m][r])]
  <2>1. f \in [AllRules -> Arm]
    BY <1>1, <1>2
  <2>2. Begun(m, f, {}) /\ UNCHANGED <<rules, episodes, fills>>
    BY <1>7 DEF FirstSlotSettled, BeginEvaluate, Begun
  <2>3. ASSUME NEW q \in AllRules
        PROVE  \/ f[q].st = arms[m][q].st
               \/ arms[m][q].st = "PendingFirstSlot" /\ Enabled(q) /\ f[q].st \in {"Armed", "None"}
    BY <1>2, IdleTag
  <2> HIDE DEF f
  <2>4. ASSUME NEW q \in AllRules
        PROVE  /\ f[q].st = "Cooldown" => arms[m][q].st = "Cooldown"
               /\ \A e, x : ArmMove(q, arms[m][q].st, f[q].st, e, e, x, x)
    BY <2>3 DEF ArmMove, Enabled, Loaded
  <2> QED BY <2>1, <2>2, <2>4, BegunMove
<1>8. ASSUME NEW m \in Mints, NEW d \in BOOLEAN, Trade(m, d)
      PROVE  ArmSteps
  <2>1. Begun(m, arms[m], {}) /\ UNCHANGED <<rules, episodes, fills>>
    BY <1>8 DEF Trade, BeginEvaluate, Begun
  <2> QED BY <1>1, <1>3, <2>1, BegunMove
<1>9. ASSUME NEW m \in Mints, Migrated(m)
      PROVE  ArmSteps
  <2> DEFINE f == [r \in AllRules |-> IF LeftByMigration(arms[m][r])
                                      THEN Idle("Disarmed") ELSE arms[m][r]]
  <2>1. f \in [AllRules -> Arm]
    BY <1>1, <1>2
  <2>2. Store(m, f, episodes[m]) /\ rules' = rules
    BY <1>9 DEF Migrated
  <2>3. \A q \in AllRules : f[q].st = arms[m][q].st \/ f[q].st = "Disarmed"
    BY IdleTag
  <2> HIDE DEF f
  <2>4. \A q \in AllRules : \A e, x : ArmMove(q, arms[m][q].st, f[q].st, e, e, x, x)
    BY <2>3 DEF ArmMove
  <2> QED BY <2>1, <2>2, <2>4, StoreMove
<1>10. CASE Tick
  BY <1>10, NoMove DEF Tick
<1> QED BY <1>4, <1>5, <1>6, <1>7, <1>8, <1>9, <1>10 DEF Market

\* The executor's answers.
LEMMA AnswerMoves ==
    ASSUME TypeOK, NEW o \in Orders, AnswerOrder(o)
    PROVE  ArmSteps
<1> USE DEF countVars, posVars, orderVars, runVars, historyVars, tokenVars
<1>0. /\ arms \in [Mints -> [AllRules -> Arm]] /\ episodes \in [Mints -> [Rules -> Nat]]
      /\ fills \in [Mints -> [Rules -> Nat]]
  BY DEF TypeOK
<1>1. PICK m \in Mints, r \in AllRules, a \in Arm : m = o.mint /\ r = o.rule /\ a = arms[m][r]
  BY <1>0 DEF Orders
<1>2. ArmOf(o) = a /\ arms[m] \in [AllRules -> Arm]
  BY <1>0, <1>1 DEF ArmOf
<1>3. /\ Idle("Armed") \in Arm /\ Idle("Done") \in Arm /\ Idle("Cooldown") \in Arm
  BY IdleTypes DEF ArmTags
<1>4. ASSUME NEW b, arms' = [arms EXCEPT ![m][r] = b], UNCHANGED <<rules, episodes, fills>>,
             \/ b.st = a.st
             \/ b.st \in {"Entered", "ExitPending"} /\ a.st \in {"Entered", "ExitPending"}
      PROVE  ArmSteps
  <2>1. \A e, f : ArmMove(r, arms[m][r].st, b.st, e, e, f, f)
    BY <1>1, <1>4 DEF ArmMove
  <2> QED BY <1>4, <2>1, SetMove
\* closing the arm with b, its episodes counted in eps
<1>5. ASSUME NEW b \in Arm, NEW eps, Store(m, [arms[m] EXCEPT ![r] = b], eps), rules' = rules,
             \A q \in Rules \ {r} : eps[q] = episodes[m][q],
             \A f : ArmMove(r, a.st, b.st, At(episodes[m], r), At(eps, r), f, f)
      PROVE  ArmSteps
  <2> DEFINE h == [arms[m] EXCEPT ![r] = b]
  <2>1. h \in [AllRules -> Arm] /\ h[r] = b /\ \A q \in AllRules \ {r} : h[q] = arms[m][q]
    BY <1>2
  <2>2. Store(m, h, eps)
    BY <1>5
  <2> HIDE DEF h
  <2>3. ASSUME NEW q \in AllRules
        PROVE  ArmMove(q, arms[m][q].st, h[q].st, At(episodes[m], q), At(eps, q),
                       At(fills[m], q), At(fills[m], q))
    <3>1. CASE q = r
      BY <1>1, <1>5, <2>1, <3>1
    <3>2. CASE q # r
      <4>1. h[q] = arms[m][q] /\ At(eps, q) = At(episodes[m], q)
        BY <1>5, <2>1, <3>2 DEF At
      <4> QED BY <4>1 DEF ArmMove
    <3> QED BY <3>1, <3>2
  <2> QED BY <1>5, <2>1, <2>2, <2>3, StoreMove
<1>6. CASE StaleAnswer(o)
  BY <1>6, NoMove DEF StaleAnswer
<1>7. CASE BuyConfirmed(o)
  <2> DEFINE held == Entered(a.pos, 0, Bag)
             portion == IF a.owed = Bag THEN All ELSE [kind |-> "Remaining", bps |-> a.owed]
             b == IF a.owed > 0 THEN ExitPending(held, intentSeq + 1, 1, "Line", portion)
                                ELSE held
  <2>1. b.st \in {"Entered", "ExitPending"}
    BY DEF Entered, ExitPending
  <2>2. /\ arms' = [arms EXCEPT ![m][r] = b] /\ a.st = "EntryPending"
        /\ UNCHANGED <<rules, episodes>>
        /\ fills' = IF r \in Rules THEN [fills EXCEPT ![m][r] = fills[m][r] + 1] ELSE fills
    BY <1>1, <1>2, <1>7 DEF BuyConfirmed
  <2> HIDE DEF b
  <2>3. /\ arms'[m][r] = b
        /\ \A n \in Mints, q \in AllRules : (n # m \/ q # r) => arms'[n][q] = arms[n][q]
    BY <1>0, <2>2
  <2>4. /\ \A n \in Mints, q \in AllRules : (n # m \/ q # r) => At(fills'[n], q) = At(fills[n], q)
        /\ r \in Rules => At(fills'[m], r) = At(fills[m], r) + 1
    BY <1>0, <2>2 DEF At
  <2>5. ASSUME NEW n \in Mints, NEW q \in AllRules PROVE ArmStep(n, q)
    <3>1. CASE n # m \/ q # r
      BY <2>2, <2>3, <2>4, <3>1 DEF ArmStep, ArmMove
    <3>2. CASE n = m /\ q = r
      BY <1>1, <2>1, <2>2, <2>3, <2>4, <3>2 DEF ArmStep, ArmMove
    <3> QED BY <3>1, <3>2
  <2> QED BY <2>2, <2>5 DEF ArmSteps
<1>8. CASE PartialSellConfirmed(o)
  <2> DEFINE b == Entered(a.pos, a.sold + portion_sold_bps(a.portion, a.sold),
                          a.left - token_amount(a.portion, a.left))
  <2>1. /\ arms' = [arms EXCEPT ![m][r] = b] /\ a.st = "ExitPending"
        /\ UNCHANGED <<rules, episodes, fills>>
    BY <1>1, <1>2, <1>8 DEF PartialSellConfirmed
  <2>2. b.st = "Entered"
    BY DEF Entered
  <2> HIDE DEF b
  <2> QED BY <1>4, <2>1, <2>2
<1>9. CASE SellConfirmed(o)
  <2> DEFINE b == ArmAfterClose(m, r, a.reason)
             eps == EpisodesAfter(m, r, a.reason)
  <2>1. /\ Store(m, [arms[m] EXCEPT ![r] = b], eps) /\ rules' = rules /\ a.st = "ExitPending"
    BY <1>1, <1>2, <1>9 DEF SellConfirmed
  <2>2. b \in Arm
    BY <1>3 DEF ArmAfterClose
  <2>3. \A q \in Rules \ {r} : eps[q] = episodes[m][q]
    BY <1>0 DEF EpisodesAfter
  <2>4. \A f : ArmMove(r, "ExitPending", b.st, At(episodes[m], r), At(eps, r), f, f)
    <3>1. CASE CountsEpisode(r, a.reason) /\ episodes[m][r] + 1 < MaxPerCoin[r]
      <4>1. b.st = "Cooldown" /\ r \in Rules /\ Loaded(r)
        BY <3>1, IdleTag DEF ArmAfterClose, CountsEpisode, Loaded
      <4>2. At(eps, r) = At(episodes[m], r) + 1 /\ At(episodes[m], r) = episodes[m][r]
        BY <1>0, <3>1, <4>1 DEF EpisodesAfter, At
      <4> HIDE DEF b, eps
      <4> QED BY <3>1, <4>1, <4>2 DEF ArmMove
    <3>2. CASE ~(CountsEpisode(r, a.reason) /\ episodes[m][r] + 1 < MaxPerCoin[r])
      <4>1. b.st = "Done"
        BY <3>2, IdleTag DEF ArmAfterClose
      <4> HIDE DEF b, eps
      <4> QED BY <4>1 DEF ArmMove
    <3> QED BY <3>1, <3>2
  <2> HIDE DEF b, eps
  <2> QED BY <1>5, <2>1, <2>2, <2>3, <2>4
<1>10. ASSUME arms' = [arms EXCEPT ![m][r] = Resent(a, intentSeq + 1)],
              UNCHANGED <<rules, episodes, fills>>
       PROVE  ArmSteps
  <2>1. Resent(a, intentSeq + 1).st = a.st
    BY DEF Resent, Arm
  <2> QED BY <1>4, <1>10, <2>1
<1>11. ASSUME NEW why \in FailReasons, NEW q \in BOOLEAN, BuyRetried(o, why, q)
       PROVE  ArmSteps
  BY <1>1, <1>2, <1>10, <1>11 DEF BuyRetried
<1>12. ASSUME NEW why \in FailReasons, SellRetried(o, why)
       PROVE  ArmSteps
  BY <1>1, <1>2, <1>10, <1>12 DEF SellRetried
<1>13. ASSUME NEW why \in FailReasons, NEW q \in BOOLEAN, BuyGivenUp(o, why, q)
       PROVE  ArmSteps
  <2>1. PICK tag \in {"Armed", "Done"} :
        /\ Store(m, [arms[m] EXCEPT ![r] = Idle(tag)], episodes[m]) /\ rules' = rules
        /\ a.st = "EntryPending" /\ (tag = "Armed" => Loaded(r))
    BY <1>1, <1>2, <1>13 DEF BuyGivenUp, StoreArm
  <2>2. \A e, f : ArmMove(r, a.st, Idle(tag).st, e, e, f, f)
    BY <2>1, IdleTag DEF ArmMove
  <2> QED BY <1>3, <1>5, <2>1, <2>2
<1>14. ASSUME NEW why \in FailReasons, SellGivenUp(o, why)
       PROVE  ArmSteps
  <2>1. Store(m, [arms[m] EXCEPT ![r] = Idle("Done")], episodes[m]) /\ rules' = rules
    BY <1>1, <1>2, <1>14 DEF SellGivenUp, StoreArm
  <2>2. \A e, f : ArmMove(r, a.st, Idle("Done").st, e, e, f, f)
    BY IdleTag DEF ArmMove
  <2> QED BY <1>3, <1>5, <2>1, <2>2
<1> QED BY <1>6, <1>7, <1>8, <1>9, <1>11, <1>12, <1>13, <1>14 DEF AnswerOrder

\* The operator's commands.
LEMMA OperatorMoves == ASSUME TypeOK, Operator PROVE ArmSteps \/ ReloadStep
<1> USE DEF countVars, posVars, orderVars, runVars, historyVars, tokenVars
<1>0. arms \in [Mints -> [AllRules -> Arm]] /\ episodes \in [Mints -> [Rules -> Nat]]
  BY DEF TypeOK
<1>1. ASSUME NEW p \in DOMAIN positions
      PROVE  positions[p].mint \in Mints /\ positions[p].rule \in AllRules
  BY DEF TypeOK
<1>2. ASSUME NEW new \in [Rules -> ReloadStates], RulesReloaded(new)
      PROVE  ReloadStep
  <2>1. ASSUME NEW m \in Mints, NEW q \in AllRules
        PROVE  \/ arms'[m][q] = arms[m][q] /\ (~Holds(arms[m][q]) /\ arms[m][q].st # "None" => Enabled(q)')
               \/ arms'[m][q].st = "Disarmed"
    <3>1. /\ arms'[m][q] = IF DisarmedBy(new, q, arms[m][q]) THEN Idle("Disarmed") ELSE arms[m][q]
          /\ rules' = new
      BY <1>2 DEF RulesReloaded
    <3> QED BY <3>1, IdleTag DEF DisarmedBy, Enabled
  <2> QED BY <1>2, <2>1 DEF RulesReloaded, ReloadStep
<1>3. ASSUME NEW m \in Mints, NEW r \in Manual, NEW exit \in BOOLEAN, ManualBuy(m, r, exit)
      PROVE  ArmSteps
  <2> DEFINE a == EntryPending(positionSeq + 1, intentSeq + 1, 1)
  <2>1. /\ arms' = [arms EXCEPT ![m][r] = a] /\ arms[m][r].st = "None"
        /\ UNCHANGED <<rules, episodes, fills>> /\ a.st = "EntryPending" /\ r \in AllRules
    BY <1>3 DEF ManualBuy, EntryPending, NoArm, AllRules
  <2> HIDE DEF a
  <2>2. \A e, f : ArmMove(r, arms[m][r].st, a.st, e, e, f, f)
    BY <2>1 DEF ArmMove
  <2> QED BY <2>1, <2>2, SetMove
<1>4. ASSUME NEW p \in DOMAIN positions, NEW exit \in BOOLEAN, SetManualExit(p, exit)
      PROVE  ArmSteps
  BY <1>4, NoMove DEF SetManualExit
\* an arm given up by the operator
<1>5. ASSUME NEW m \in Mints, NEW r \in AllRules, StoreArm(m, r, Idle("Done")), rules' = rules
      PROVE  ArmSteps
  <2> DEFINE h == [arms[m] EXCEPT ![r] = Idle("Done")]
  <2>1. Idle("Done") \in Arm /\ Idle("Done").st = "Done"
    BY IdleTypes, IdleTag DEF ArmTags
  <2>2. h \in [AllRules -> Arm] /\ \A q \in AllRules : h[q].st = arms[m][q].st \/ h[q].st = "Done"
    BY <1>0, <2>1
  <2>3. Store(m, h, episodes[m])
    BY <1>5 DEF StoreArm
  <2> HIDE DEF h
  <2>4. \A q \in AllRules : \A e, f : ArmMove(q, arms[m][q].st, h[q].st, e, e, f, f)
    BY <2>2 DEF ArmMove
  <2> QED BY <1>5, <2>2, <2>3, <2>4, StoreMove
<1>6. ASSUME NEW p \in DOMAIN positions, ManualCloseBuy(p) \/ ExternallyCleared(p)
      PROVE  ArmSteps
  BY <1>1, <1>5, <1>6 DEF ManualCloseBuy, ExternallyCleared
<1>7. ASSUME NEW p \in DOMAIN positions, NEW portion \in ManualPortions,
             ManualCloseBag(p, portion)
      PROVE  ArmSteps
  <2>1. PICK m \in Mints, r \in AllRules : m = positions[p].mint /\ r = positions[p].rule
    BY <1>1
  <2> DEFINE a == ExitPending(arms[m][r], intentSeq + 1, 1, "Manual", portion)
  <2>2. /\ arms' = [arms EXCEPT ![m][r] = a] /\ arms[m][r].st = "Entered"
        /\ UNCHANGED <<rules, episodes, fills>> /\ a.st = "ExitPending"
    BY <1>7, <2>1 DEF ManualCloseBag, CanClose, OwnerArm, ExitPending
  <2> HIDE DEF a
  <2>3. \A e, f : ArmMove(r, arms[m][r].st, a.st, e, e, f, f)
    BY <2>2 DEF ArmMove
  <2> QED BY <2>2, <2>3, SetMove
<1> QED BY <1>2, <1>3, <1>4, <1>6, <1>7 DEF Operator

\* Every step but a reload moves each arm along its own life.
LEMMA StepMoves == ASSUME TypeOK, [Next]_vars PROVE ArmSteps \/ ReloadStep
<1>1. CASE Next
  <2>1. CASE Decide
    BY <2>1, DecideMoves DEF Decide
  <2>2. CASE Evaluation \/ Market \/ Tick
    BY <2>1, <2>2, MarketMoves DEF Evaluation
  <2>3. CASE Operator
    BY <2>3, OperatorMoves
  <2>4. CASE \E o \in Orders : AnswerOrder(o)
    BY <2>4, AnswerMoves
  <2> QED BY <1>1, <2>2, <2>3, <2>4 DEF Next
<1>2. CASE UNCHANGED vars
  BY <1>2, NoMove DEF vars, tokenVars, historyVars
<1> QED BY <1>1, <1>2

-----------------------------------------------------------------------------
(* Waiting arms.                                                           *)

\* An arm waiting to enter always has a loaded rule, and one waiting for the
\* creation slot an enabled one: an arm starts to wait under such a rule only,
\* and the reload that takes the rule away disarms it in the same step.
THEOREM WaitingCorrect == Spec => []WaitingArmsHaveRules
<1>1. Init => WaitingArmsHaveRules
  BY DEF Init, WaitingArmsHaveRules, NoArms, NoArm
<1>2. TypeOK /\ WaitingArmsHaveRules /\ [Next]_vars => WaitingArmsHaveRules'
  <2> SUFFICES ASSUME TypeOK, WaitingArmsHaveRules, [Next]_vars, NEW m \in Mints, NEW r \in AllRules
               PROVE  /\ arms'[m][r].st \in {"Armed", "Cooldown"} => Loaded(r)'
                      /\ arms'[m][r].st = "PendingFirstSlot" => Enabled(r)'
    BY DEF WaitingArmsHaveRules
  <2>1. /\ arms[m][r].st \in {"Armed", "Cooldown"} => Loaded(r)
        /\ arms[m][r].st = "PendingFirstSlot" => Enabled(r)
    BY DEF WaitingArmsHaveRules
  <2>2. CASE ArmSteps
    <3>1. ArmStep(m, r) /\ (Loaded(r)' <=> Loaded(r)) /\ (Enabled(r)' <=> Enabled(r))
      BY <2>2 DEF ArmSteps, Loaded, Enabled
    <3> QED BY <2>1, <3>1 DEF ArmStep, ArmMove
  <2>3. CASE ReloadStep
    BY <2>3 DEF ReloadStep, Holds, Enabled, Loaded
  <2> QED BY <2>2, <2>3, StepMoves
<1> QED BY <1>1, <1>2, TypeCorrect, PTL DEF Spec

-----------------------------------------------------------------------------
(* Re-entries.                                                             *)

\* The invariant that carries the bound, by the arm's state: the fills of an
\* arm that may still buy are covered by its counted episodes, the fills of
\* one that holds a bag exceed them by one at most, and an arm is only ever
\* in play with episodes to spare.
ReentryBound(r) == IF MaxPerCoin[r] > 1 THEN MaxPerCoin[r] ELSE 1
Within(r, s, e, f) ==
    /\ f <= ReentryBound(r)
    /\ s \in {"None", "PendingFirstSlot"} => f = 0 /\ e = 0
    /\ s \in {"Armed", "Cooldown", "EntryPending"} => f <= e /\ (e = 0 \/ e < MaxPerCoin[r])
    /\ s \in {"Entered", "ExitPending"} => f <= e + 1 /\ (e = 0 \/ e < MaxPerCoin[r])
EpisodesInv ==
    \A m \in Mints, r \in Rules : Within(r, arms[m][r].st, episodes[m][r], fills[m][r])

\* One move of an arm keeps it within its bounds.
LEMMA MoveWithin ==
    ASSUME NEW r \in Rules, NEW s \in ArmTags, NEW t \in ArmTags, NEW e \in Nat, NEW d \in Nat,
           NEW f \in Nat, NEW g \in Nat, Within(r, s, e, f), ArmMove(r, s, t, e, d, f, g)
    PROVE  Within(r, t, d, g)
<1>0. MaxPerCoin[r] \in Nat /\ r \notin Manual
  BY ConstantsAssumption
<1>1. CASE t = s /\ d = e /\ g = f
  BY <1>1
<1>2. CASE t = "None" /\ d = 0 /\ g = 0
  BY <1>0, <1>2 DEF Within, ReentryBound
<1>3. CASE t \in {"Done", "Disarmed"} /\ g = f
  BY <1>3 DEF Within
<1>4. CASE s \in {"None", "PendingFirstSlot"} /\ t \in {"None", "PendingFirstSlot"} /\ d = e /\ g = f
  BY <1>4 DEF Within
<1>5. CASE /\ s \in {"None", "PendingFirstSlot", "Cooldown", "EntryPending"} /\ t = "Armed"
           /\ d = e /\ g = f
  BY <1>5 DEF Within
<1>6. CASE s = "Armed" /\ t = "EntryPending" /\ d = e /\ g = f
  BY <1>6 DEF Within
<1>7. CASE s = "EntryPending" /\ t \in {"Entered", "ExitPending"} /\ d = e /\ g = f + 1
  BY <1>0, <1>7 DEF Within, ReentryBound
<1>8. CASE s \in {"Entered", "ExitPending"} /\ t \in {"Entered", "ExitPending"} /\ d = e /\ g = f
  BY <1>8 DEF Within
<1>9. CASE s = "ExitPending" /\ t = "Cooldown" /\ d = e + 1 /\ e + 1 < MaxPerCoin[r] /\ g = f
  BY <1>0, <1>9 DEF Within
<1> QED BY <1>0, <1>1, <1>2, <1>3, <1>4, <1>5, <1>6, <1>7, <1>8, <1>9 DEF ArmMove

\* While a token is tracked a rule fills at most one buy on it, or
\* max_per_coin buys when it is configured to re-enter.
THEOREM ReentryCorrect == Spec => []ReentryBounded
<1>1. Init => EpisodesInv
  BY ConstantsAssumption DEF Init, EpisodesInv, Within, ReentryBound, NoArms, NoArm, NoEpisodes, AllRules
<1>2. TypeOK /\ TypeOK' /\ EpisodesInv /\ [Next]_vars => EpisodesInv'
  <2> SUFFICES ASSUME TypeOK, TypeOK', EpisodesInv, [Next]_vars, NEW m \in Mints, NEW r \in Rules
               PROVE  Within(r, arms'[m][r].st, episodes'[m][r], fills'[m][r])
    BY DEF EpisodesInv, Within
  <2>1. /\ r \in AllRules /\ Within(r, arms[m][r].st, episodes[m][r], fills[m][r])
        /\ arms[m][r].st \in ArmTags /\ episodes[m][r] \in Nat /\ fills[m][r] \in Nat
    <3>1. r \in AllRules /\ Within(r, arms[m][r].st, episodes[m][r], fills[m][r])
      BY DEF EpisodesInv, AllRules
    <3> QED BY <3>1 DEF TypeOK, Arm
  <2>2. arms'[m][r].st \in ArmTags /\ episodes'[m][r] \in Nat /\ fills'[m][r] \in Nat
    BY <2>1 DEF TypeOK, Arm
  <2>3. CASE ArmSteps
    <3>1. ArmMove(r, arms[m][r].st, arms'[m][r].st, episodes[m][r], episodes'[m][r],
                  fills[m][r], fills'[m][r])
      BY <2>1, <2>3 DEF ArmSteps, ArmStep, At
    <3> QED BY <2>1, <2>2, <3>1, MoveWithin
  <2>4. CASE ReloadStep
    <3>1. episodes' = episodes /\ fills' = fills /\ arms'[m][r].st \in {arms[m][r].st, "Disarmed"}
      BY <2>1, <2>4 DEF ReloadStep
    <3> QED BY <2>1, <3>1 DEF Within
  <2> QED BY <2>3, <2>4, StepMoves
<1>3. EpisodesInv => ReentryBounded
  BY DEF EpisodesInv, Within, ReentryBound, ReentryBounded
<1> QED BY <1>1, <1>2, <1>3, TypeCorrect, PTL DEF Spec

-----------------------------------------------------------------------------
(* The entries of a run.                                                   *)

\* What a step may do to the entry counter, the entries of the run and the
\* positions they opened.
RunStill == UNCHANGED <<total, runEntries, oldRun, positions>>
RunEnter(p, m, r) ==
    /\ positions' = [q \in DOMAIN positions \cup {p} |->
                       IF q = p THEN [mint |-> m, rule |-> r] ELSE positions[q]]
    /\ UNCHANGED oldRun
    /\ \/ /\ r \in Rules
          /\ total' = [total EXCEPT ![r] = total[r] + 1]
          /\ runEntries' = [runEntries EXCEPT ![r] = runEntries[r] + 1]
       \/ r \in Manual /\ UNCHANGED <<total, runEntries>>
RunClose(p) ==
    /\ positions' = [q \in DOMAIN positions \ {p} |-> positions[q]]
    /\ oldRun' = oldRun \ {p}
    /\ UNCHANGED <<total, runEntries>>
RunFail(p) ==
    /\ p \in DOMAIN positions
    /\ positions' = [q \in DOMAIN positions \ {p} |-> positions[q]]
    /\ total' = [total EXCEPT ![positions[p].rule] = SaturatingDec(total[positions[p].rule])]
    /\ ForgetEntry(p, positions[p].rule)
RunReload(new) ==
    /\ UNCHANGED positions
    /\ total' = [r \in AllRules |-> IF r \in Rules /\ NewRun(r, new) THEN 0 ELSE total[r]]
    /\ runEntries' = [r \in Rules |-> IF NewRun(r, new) THEN 0 ELSE runEntries[r]]
    /\ oldRun' = oldRun \cup {p \in DOMAIN positions :
                     positions[p].rule \in Rules /\ NewRun(positions[p].rule, new)}
RunStep ==
    \/ RunStill
    \/ \E m \in Mints, r \in AllRules : RunEnter(positionSeq + 1, m, r)
    \/ \E p \in Nat : RunClose(p) \/ RunFail(p)
    \/ \E new : RunReload(new)

\* Every step does one of these.
LEMMA RunShape == ASSUME TypeOK, OwnersMatchArms, [Next]_vars PROVE RunStep
<1> USE DEF countVars, posVars, orderVars, runVars, historyVars, tokenVars
<1>1. CASE Decide
  <2> PICK r \in todo :
        \/ DecideDisarm(r) \/ DecideExhaust(r) \/ DecideEnter(r) \/ DecideExit(r)
        \/ DecidePartialExit(r) \/ DecideInflight(r) \/ DecideNothing(r)
    BY <1>1 DEF Decide
  <2>1. CASE DecideEnter(r)
    <3>1. cur \in Mints /\ r \in AllRules /\ r \in Rules
      BY <2>1 DEF DecideEnter, Deciding, Enabled, TypeOK
    <3>2. RunEnter(positionSeq + 1, cur, r)
      BY <2>1, <3>1 DEF DecideEnter, RunEnter
    <3> QED BY <3>1, <3>2 DEF RunStep
  <2>2. CASE ~DecideEnter(r)
    <3>1. RunStill
      BY <2>2 DEF DecideDisarm, DecideExhaust, DecideExit, DecidePartialExit, SubmitExit,
                  DecideInflight, DecideNothing, RunStill
    <3> QED BY <3>1 DEF RunStep
  <2> QED BY <2>1, <2>2
<1>2. CASE EndEvaluate \/ (\E m \in rest, d \in BOOLEAN : TickToken(m, d)) \/ Market \/ Tick
  <2>1. RunStill
    BY <1>2 DEF EndEvaluate, TickToken, Market, TokenCreated, FirstSlotSettled, Trade, Migrated,
                Tick, RunStill
  <2> QED BY <2>1 DEF RunStep
<1>3. ASSUME NEW o \in Orders, AnswerOrder(o)
      PROVE  RunStep
  <2>0. o.mint \in Mints /\ o.rule \in AllRules
    BY DEF Orders
  <2>1. ASSUME Holds(ArmOf(o))
        PROVE  /\ ArmOf(o).pos \in DOMAIN positions /\ ArmOf(o).pos \in Nat
               /\ positions[ArmOf(o).pos].rule = o.rule
    <3>1. /\ ArmOf(o).pos \in DOMAIN positions
          /\ positions[ArmOf(o).pos] = [mint |-> o.mint, rule |-> o.rule]
      BY <2>0, <2>1 DEF OwnersMatchArms, ArmOf
    <3>2. DOMAIN positions \subseteq Nat
      BY DEF TypeOK
    <3> QED BY <3>1, <3>2
  <2>2. CASE StaleAnswer(o) \/ BuyConfirmed(o) \/ PartialSellConfirmed(o)
    <3>1. RunStill
      BY <2>2 DEF StaleAnswer, BuyConfirmed, PartialSellConfirmed, RunStill
    <3> QED BY <3>1 DEF RunStep
  <2>3. ASSUME NEW why \in FailReasons, SellRetried(o, why) \/ \E q \in BOOLEAN : BuyRetried(o, why, q)
        PROVE  RunStep
    <3>1. RunStill
      BY <2>3 DEF SellRetried, BuyRetried, RunStill
    <3> QED BY <3>1 DEF RunStep
  <2>4. ASSUME SellConfirmed(o) \/ \E why \in FailReasons : SellGivenUp(o, why)
        PROVE  RunStep
    <3>1. Holds(ArmOf(o))
      BY <2>4 DEF SellConfirmed, SellGivenUp, Holds
    <3>2. RunClose(ArmOf(o).pos)
      BY <2>4 DEF SellConfirmed, SellGivenUp, RunClose, remove_position, decrement_open
    <3> QED BY <2>1, <3>1, <3>2 DEF RunStep
  <2>5. ASSUME NEW why \in FailReasons, NEW q \in BOOLEAN, BuyGivenUp(o, why, q)
        PROVE  RunStep
    <3>1. Holds(ArmOf(o))
      BY <2>5 DEF BuyGivenUp, Holds
    <3>2. RunFail(ArmOf(o).pos)
      BY <2>1, <2>5, <3>1 DEF BuyGivenUp, RunFail, remove_position, rollback_entry
    <3> QED BY <2>1, <3>1, <3>2 DEF RunStep
  <2> QED BY <1>3, <2>2, <2>3, <2>4, <2>5 DEF AnswerOrder
<1>4. CASE Operator
  <2>0. DOMAIN positions \subseteq Nat
    BY DEF TypeOK
  <2>1. ASSUME NEW new \in [Rules -> ReloadStates], RulesReloaded(new)
        PROVE  RunStep
    <3>1. RunReload(new)
      BY <2>1 DEF RulesReloaded, RunReload
    <3> QED BY <3>1 DEF RunStep
  <2>2. ASSUME NEW m \in Mints, NEW r \in Manual, NEW exit \in BOOLEAN, ManualBuy(m, r, exit)
        PROVE  RunStep
    <3>1. r \in AllRules /\ RunEnter(positionSeq + 1, m, r)
      BY <2>2 DEF ManualBuy, RunEnter, AllRules
    <3> QED BY <3>1 DEF RunStep
  <2>3. ASSUME NEW p \in DOMAIN positions,
               \/ \E exit \in BOOLEAN : SetManualExit(p, exit)
               \/ \E portion \in ManualPortions : ManualCloseBag(p, portion)
        PROVE  RunStep
    <3>1. RunStill
      BY <2>3 DEF SetManualExit, ManualCloseBag, RunStill
    <3> QED BY <3>1 DEF RunStep
  <2>4. ASSUME NEW p \in DOMAIN positions, ManualCloseBuy(p)
        PROVE  RunStep
    <3>1. RunFail(p)
      BY <2>4 DEF ManualCloseBuy, RunFail, remove_position, rollback_entry
    <3> QED BY <2>0, <3>1 DEF RunStep
  <2>5. ASSUME NEW p \in DOMAIN positions, ExternallyCleared(p)
        PROVE  RunStep
    <3>1. RunClose(p)
      BY <2>5 DEF ExternallyCleared, RunClose, remove_position, decrement_open
    <3> QED BY <2>0, <3>1 DEF RunStep
  <2> QED BY <1>4, <2>1, <2>2, <2>3, <2>4, <2>5 DEF Operator
<1>5. CASE UNCHANGED vars
  BY <1>5 DEF vars, RunStill, RunStep
<1> QED BY <1>1, <1>2, <1>3, <1>4, <1>5 DEF Next, Evaluation

\* The open positions the current run of r entered, and the invariant: they
\* are entries of the run, and so is everything the counter counts.  Without
\* the first part a failed buy could take the run's entries below a counter
\* that already stands at zero.
FreshOf(r) == {p \in DOMAIN positions : positions[p].rule = r /\ p \notin oldRun}
RunInv == \A r \in Rules :
            total[r] <= runEntries[r] /\ Cardinality(FreshOf(r)) <= runEntries[r]

\* A rule's fresh positions are finitely many.
LEMMA FreshFinite ==
    ASSUME TypeOK, NEW r
    PROVE  IsFiniteSet(FreshOf(r)) /\ Cardinality(FreshOf(r)) \in Nat
<1>1. FreshOf(r) \subseteq 1 .. positionSeq /\ positionSeq \in Int
  BY DEF FreshOf, TypeOK
<1>2. IsFiniteSet(1 .. positionSeq)
  BY <1>1, FS_Interval
<1> QED BY <1>1, <1>2, FS_Subset, FS_CardinalityType

\* The run's entry counter never overcounts: it never refuses an entry the
\* run still has.
THEOREM TotalCorrect == Spec => []TotalNeverOvercounts
<1>1. Init => RunInv
  <2> SUFFICES ASSUME Init, NEW r \in Rules
               PROVE  total[r] <= runEntries[r] /\ Cardinality(FreshOf(r)) <= runEntries[r]
    BY DEF RunInv
  <2>1. FreshOf(r) = {}
    BY DEF Init, FreshOf
  <2>2. Cardinality(FreshOf(r)) = 0
    BY <2>1, FS_EmptySet
  <2> QED BY <2>2 DEF Init, AllRules
<1>2. TypeOK /\ TypeOK' /\ OwnersMatchArms /\ RunInv /\ [Next]_vars => RunInv'
  <2> SUFFICES ASSUME TypeOK, TypeOK', OwnersMatchArms, RunInv, [Next]_vars, NEW x \in Rules
               PROVE  total'[x] <= runEntries'[x] /\ Cardinality(FreshOf(x)') <= runEntries'[x]
    BY DEF RunInv
  <2>1. /\ total[x] <= runEntries[x] /\ Cardinality(FreshOf(x)) <= runEntries[x]
        /\ x \in AllRules
    BY DEF RunInv, AllRules
  <2>2. /\ total \in [AllRules -> Nat] /\ runEntries \in [Rules -> Int]
        /\ \A p \in DOMAIN positions : positions[p].rule \in AllRules
    BY DEF TypeOK
  <2>3. IsFiniteSet(FreshOf(x)) /\ Cardinality(FreshOf(x)) \in Nat
    BY FreshFinite
  <2>4. IsFiniteSet(FreshOf(x)') /\ Cardinality(FreshOf(x)') \in Nat
    <3>1. /\ FreshOf(x)' \subseteq 1 .. positionSeq' /\ positionSeq' \in Int
      BY DEF FreshOf, TypeOK
    <3>2. IsFiniteSet(1 .. positionSeq')
      BY <3>1, FS_Interval
    <3> QED BY <3>1, <3>2, FS_Subset, FS_CardinalityType
  \* fewer fresh positions, the same entries
  <2>5. ASSUME FreshOf(x)' \subseteq FreshOf(x), total'[x] <= total[x], total'[x] \in Nat,
               runEntries'[x] = runEntries[x]
        PROVE  total'[x] <= runEntries'[x] /\ Cardinality(FreshOf(x)') <= runEntries'[x]
    <3>1. Cardinality(FreshOf(x)') <= Cardinality(FreshOf(x))
      BY <2>3, <2>5, FS_Subset
    <3> QED BY <2>1, <2>2, <2>3, <2>4, <2>5, <3>1
  <2>6. CASE RunStill
    <3>1. FreshOf(x)' = FreshOf(x)
      BY <2>6 DEF RunStill, FreshOf
    <3> QED BY <2>1, <2>6, <3>1 DEF RunStill
  <2>7. ASSUME NEW m \in Mints, NEW r \in AllRules, RunEnter(positionSeq + 1, m, r)
        PROVE  total'[x] <= runEntries'[x] /\ Cardinality(FreshOf(x)') <= runEntries'[x]
    <3>1. PICK p : p = positionSeq + 1
      OBVIOUS
    <3>2. /\ DOMAIN positions' = DOMAIN positions \cup {p} /\ oldRun' = oldRun
          /\ \A q \in DOMAIN positions' :
               positions'[q] = IF q = p THEN [mint |-> m, rule |-> r] ELSE positions[q]
      BY <2>7, <3>1 DEF RunEnter
    <3>3. CASE r = x
      <4>1. FreshOf(x)' \subseteq FreshOf(x) \cup {p}
        BY <3>2 DEF FreshOf
      <4>2. /\ IsFiniteSet(FreshOf(x) \cup {p})
            /\ Cardinality(FreshOf(x) \cup {p}) <= Cardinality(FreshOf(x)) + 1
            /\ Cardinality(FreshOf(x) \cup {p}) \in Nat
        <5>1. IsFiniteSet(FreshOf(x) \cup {p})
          BY <2>3, FS_AddElement
        <5>2. CASE p \in FreshOf(x)
          <6>1. FreshOf(x) \cup {p} = FreshOf(x)
            BY <5>2
          <6> QED BY <2>3, <6>1
        <5>3. CASE p \notin FreshOf(x)
          BY <2>3, <5>1, <5>3, FS_AddElement
        <5> QED BY <5>1, <5>2, <5>3
      <4>3. Cardinality(FreshOf(x)') <= Cardinality(FreshOf(x) \cup {p})
        BY <4>1, <4>2, FS_Subset
      <4>4. total'[x] = total[x] + 1 /\ runEntries'[x] = runEntries[x] + 1
        BY <2>1, <2>2, <2>7, <3>3, ConstantsAssumption DEF RunEnter
      <4> QED BY <2>1, <2>2, <2>3, <2>4, <4>2, <4>3, <4>4
    <3>4. CASE r # x
      <4>1. FreshOf(x)' \subseteq FreshOf(x)
        BY <3>2, <3>4 DEF FreshOf
      <4>2. total'[x] = total[x] /\ runEntries'[x] = runEntries[x]
        BY <2>1, <2>2, <2>7, <3>4 DEF RunEnter
      <4> QED BY <2>1, <2>2, <2>5, <4>1, <4>2
    <3> QED BY <3>3, <3>4
  <2>8. ASSUME NEW p \in Nat, RunClose(p)
        PROVE  total'[x] <= runEntries'[x] /\ Cardinality(FreshOf(x)') <= runEntries'[x]
    <3>1. FreshOf(x)' \subseteq FreshOf(x) /\ total' = total /\ runEntries' = runEntries
      BY <2>8 DEF RunClose, FreshOf
    <3> QED BY <2>1, <2>2, <2>5, <3>1
  <2>9. ASSUME NEW p \in Nat, RunFail(p)
        PROVE  total'[x] <= runEntries'[x] /\ Cardinality(FreshOf(x)') <= runEntries'[x]
    <3>1. /\ p \in DOMAIN positions
          /\ positions' = [q \in DOMAIN positions \ {p} |-> positions[q]]
          /\ oldRun' = oldRun \ {p}
          /\ total' = [total EXCEPT ![positions[p].rule] = SaturatingDec(total[positions[p].rule])]
          /\ runEntries' = IF positions[p].rule \in Rules /\ p \notin oldRun
                           THEN [runEntries EXCEPT ![positions[p].rule] = runEntries[positions[p].rule] - 1]
                           ELSE runEntries
      BY <2>9 DEF RunFail, ForgetEntry
    <3>2. FreshOf(x)' = FreshOf(x) \ {p}
      BY <3>1 DEF FreshOf
    <3>3. CASE positions[p].rule = x /\ p \notin oldRun
      <4>1. p \in FreshOf(x)
        BY <3>1, <3>3 DEF FreshOf
      <4>2. Cardinality(FreshOf(x)') = Cardinality(FreshOf(x)) - 1
        BY <2>3, <3>2, <4>1, FS_RemoveElement
      <4>3. total'[x] = SaturatingDec(total[x]) /\ runEntries'[x] = runEntries[x] - 1
        BY <2>1, <2>2, <3>1, <3>3
      <4> QED BY <2>1, <2>2, <2>3, <2>4, <4>2, <4>3 DEF SaturatingDec
    <3>4. CASE ~(positions[p].rule = x /\ p \notin oldRun)
      <4>1. total'[x] \in {total[x], SaturatingDec(total[x])} /\ runEntries'[x] = runEntries[x]
        BY <2>1, <2>2, <3>1, <3>4
      <4>2. total'[x] \in Nat /\ total'[x] <= total[x]
        BY <2>1, <2>2, <4>1 DEF SaturatingDec
      <4> QED BY <2>5, <3>2, <4>1, <4>2
    <3> QED BY <3>3, <3>4
  <2>10. ASSUME NEW new, RunReload(new)
         PROVE  total'[x] <= runEntries'[x] /\ Cardinality(FreshOf(x)') <= runEntries'[x]
    <3>1. CASE NewRun(x, new)
      <4>1. FreshOf(x)' = {}
        BY <2>10, <3>1 DEF RunReload, FreshOf
      <4>2. total'[x] = 0 /\ runEntries'[x] = 0
        BY <2>1, <2>10, <3>1 DEF RunReload
      <4> QED BY <4>1, <4>2, FS_EmptySet
    <3>2. CASE ~NewRun(x, new)
      <4>1. FreshOf(x)' \subseteq FreshOf(x) /\ total'[x] = total[x] /\ runEntries'[x] = runEntries[x]
        BY <2>1, <2>10, <3>2 DEF RunReload, FreshOf
      <4> QED BY <2>1, <2>2, <2>5, <4>1
    <3> QED BY <3>1, <3>2
  <2> QED BY <2>6, <2>7, <2>8, <2>9, <2>10, RunShape DEF RunStep
<1>3. RunInv => TotalNeverOvercounts
  BY DEF RunInv, TotalNeverOvercounts
<1> QED BY <1>1, <1>2, <1>3, TypeCorrect, OwnersCorrect, PTL DEF Spec

-----------------------------------------------------------------------------
(* Partial sells.                                                          *)

\* A share smaller than the whole of a positive amount is smaller than it,
\* rounded down or not.
LEMMA ShareBelow ==
    ASSUME NEW x \in Nat \ {0}, NEW y \in Nat \ {0}, NEW b \in 0 .. (y - 1)
    PROVE  (x * b) \div y \in Nat /\ (x * b) \div y < x
<1> DEFINE k == (x * b) \div y
<1>1. x * b \in Nat /\ x * y \in Nat
  OBVIOUS
<1>2. x * b < x * y
  OBVIOUS
<1>3. k \in Nat /\ y * k <= x * b
  BY <1>1
<1>4. y * k < x * y
  BY <1>1, <1>2, <1>3
<1> HIDE DEF k
<1>5. k < x
  BY <1>3, <1>4
<1> QED BY <1>3, <1>5 DEF k

\* The invariant: a held bag has a share left by the engine's book, and still
\* has one once the partial sell in flight is booked.
StubLeft(a) ==
    /\ a.st \in {"Entered", "ExitPending"} => a.sold < Bag
    /\ a.st = "ExitPending" /\ IsPartial(a.portion) =>
         a.sold + portion_sold_bps(a.portion, a.sold) < Bag
StubsLeft == \A m \in Mints, r \in AllRules : StubLeft(arms[m][r])

\* A partial sell that is less than the whole leaves a share.
LEMMA PartialLeavesStub ==
    ASSUME NEW a \in Arm, a.sold < Bag, NEW portion \in [kind : {"Initial", "Remaining"}, bps : 0 .. (Bag - 1)],
           LeavesStub(a, portion)
    PROVE  a.sold + portion_sold_bps(portion, a.sold) < Bag
<1>0. Bag \in Nat \ {0}
  BY ConstantsAssumption
<1>1. a.sold \in Nat /\ Bag - a.sold \in Nat \ {0} /\ portion.bps \in 0 .. (Bag - 1)
  BY <1>0 DEF Arm
<1>2. CASE portion.kind = "Initial"
  BY <1>1, <1>2 DEF LeavesStub, portion_sold_bps
<1>3. CASE portion.kind = "Remaining"
  <2>1. portion_sold_bps(portion, a.sold) = ((Bag - a.sold) * portion.bps) \div Bag
    BY <1>3 DEF portion_sold_bps
  <2>2. /\ ((Bag - a.sold) * portion.bps) \div Bag \in Nat
        /\ ((Bag - a.sold) * portion.bps) \div Bag < Bag - a.sold
    BY <1>0, <1>1, ShareBelow
  <2> QED BY <1>0, <1>1, <2>1, <2>2
<1> QED BY <1>2, <1>3

\* Arms without a position, and a submitted buy, satisfy it.
LEMMA IdleStubs ==
    /\ StubLeft(NoArm)
    /\ \A tag \in ArmTags \ {"Entered", "ExitPending"} : StubLeft(Idle(tag))
    /\ \A p, i, n : StubLeft(EntryPending(p, i, n))
BY DEF StubLeft, NoArm, Idle, EntryPending

\* Setting one arm keeps it when the new arm satisfies it.
LEMMA SetStub ==
    ASSUME TypeOK, StubsLeft, NEW m \in Mints, NEW r \in AllRules, NEW a, StubLeft(a),
           arms' = [arms EXCEPT ![m][r] = a]
    PROVE  StubsLeft'
<1>0. arms \in [Mints -> [AllRules -> Arm]]
  BY DEF TypeOK
<1>1. \A n \in Mints, q \in AllRules : arms'[n][q] = a \/ arms'[n][q] = arms[n][q]
  BY <1>0
<1>2. \A n \in Mints, q \in AllRules : StubLeft(arms'[n][q])
  BY <1>1 DEF StubsLeft
<1> QED BY <1>2 DEF StubsLeft, StubLeft

\* So does putting a token back, for the arms it is put back with.
LEMMA StoreStub ==
    ASSUME TypeOK, StubsLeft, NEW m \in Mints, NEW f, \A q \in AllRules : StubLeft(f[q]),
           NEW eps, Store(m, f, eps)
    PROVE  StubsLeft'
<1>0. arms \in [Mints -> [AllRules -> Arm]]
  BY DEF TypeOK
<1>1. \A n \in Mints : arms'[n] = f \/ arms'[n] = NoArms \/ arms'[n] = arms[n]
  BY <1>0 DEF Store
<1>2. \A q \in AllRules : StubLeft(NoArms[q])
  BY IdleStubs DEF NoArms
<1>3. \A n \in Mints, q \in AllRules : StubLeft(arms'[n][q])
  BY <1>1, <1>2 DEF StubsLeft
<1> QED BY <1>3 DEF StubsLeft, StubLeft

\* So does starting an evaluation, for the arms it starts with.
LEMMA BegunStub ==
    ASSUME TypeOK, StubsLeft, NEW m \in Mints, NEW f \in [AllRules -> Arm],
           \A q \in AllRules : StubLeft(f[q]), NEW others, Begun(m, f, others)
    PROVE  StubsLeft'
<1>0. arms \in [Mints -> [AllRules -> Arm]]
  BY DEF TypeOK
<1>1. \A n \in Mints, q \in AllRules :
        arms'[n][q] = f[q] \/ arms'[n][q] = Idle("Armed") \/ arms'[n][q] = arms[n][q]
  BY <1>0 DEF Begun
<1>2. StubLeft(Idle("Armed"))
  BY IdleStubs DEF ArmTags
<1>3. \A n \in Mints, q \in AllRules : StubLeft(arms'[n][q])
  BY <1>1, <1>2 DEF StubsLeft
<1> QED BY <1>3 DEF StubsLeft, StubLeft

\* The steps of evaluate_token's loop keep a share of every bag.
LEMMA DecideStubs ==
    ASSUME TypeOK, StubsLeft, NEW r \in todo,
           \/ DecideDisarm(r) \/ DecideExhaust(r) \/ DecideEnter(r) \/ DecideExit(r)
           \/ DecidePartialExit(r) \/ DecideInflight(r) \/ DecideNothing(r)
    PROVE  StubsLeft'
<1>1. cur \in Mints /\ r \in AllRules
  BY DEF TypeOK, DecideDisarm, DecideExhaust, DecideEnter, DecideExit,
         DecidePartialExit, DecideInflight, DecideNothing, Deciding
<1>2. PICK a \in Arm : a = arms[cur][r]
  <2>1. arms \in [Mints -> [AllRules -> Arm]]
    BY DEF TypeOK
  <2> QED BY <1>1, <2>1
<1>3. StubLeft(a)
  BY <1>1, <1>2 DEF StubsLeft
<1>4. ASSUME NEW b, SetArm(r, b), StubLeft(b)
      PROVE  StubsLeft'
  BY <1>1, <1>4, SetStub DEF SetArm
<1>5. CASE DecideDisarm(r) \/ DecideExhaust(r)
  <2>1. StubLeft(Idle("Disarmed")) /\ StubLeft(Idle("Done"))
    BY IdleStubs DEF ArmTags
  <2> QED BY <1>4, <1>5, <2>1 DEF DecideDisarm, DecideExhaust
<1>6. CASE DecideEnter(r)
  BY <1>4, <1>6, IdleStubs DEF DecideEnter
<1>7. CASE DecideExit(r)
  <2>1. PICK why : SetArm(r, ExitPending(a, intentSeq + 1, 1, why, All))
    BY <1>2, <1>7 DEF DecideExit, SubmitExit
  <2>2. a.sold < Bag
    BY <1>2, <1>3, <1>7 DEF DecideExit, Deciding, StubLeft
  <2>3. StubLeft(ExitPending(a, intentSeq + 1, 1, why, All))
    BY <2>2 DEF StubLeft, ExitPending, IsPartial, All
  <2> QED BY <1>4, <2>1, <2>3
<1>8. CASE DecidePartialExit(r)
  <2>1. PICK portion \in [kind : {"Initial", "Remaining"}, bps : PartialBps] :
          /\ a.st = "Entered" /\ LeavesStub(a, portion)
          /\ SetArm(r, ExitPending(a, intentSeq + 1, 1, "Line", portion))
    BY <1>2, <1>8 DEF DecidePartialExit, Deciding, SubmitExit
  <2>2. a.sold < Bag
    BY <1>3, <2>1 DEF StubLeft
  <2>3. portion \in [kind : {"Initial", "Remaining"}, bps : 0 .. (Bag - 1)]
    <3>1. \A b \in PartialBps : b \in 0 .. (Bag - 1)
      BY ConstantsAssumption
    <3> QED BY <3>1
  <2>4. a.sold + portion_sold_bps(portion, a.sold) < Bag
    BY <2>1, <2>2, <2>3, PartialLeavesStub
  <2>5. StubLeft(ExitPending(a, intentSeq + 1, 1, "Line", portion))
    BY <2>2, <2>4 DEF StubLeft, ExitPending
  <2> QED BY <1>4, <2>1, <2>5
<1>9. CASE DecideInflight(r)
  <2>1. PICK b \in PartialBps \cup {Bag}, ofBag \in BOOLEAN :
            /\ SetArm(r, [a EXCEPT !.owed = AddOwed(@, b, ofBag)]) /\ a.st = "EntryPending"
    BY <1>2, <1>9 DEF DecideInflight, Deciding
  <2>2. StubLeft([a EXCEPT !.owed = AddOwed(@, b, ofBag)])
    BY <2>1 DEF StubLeft, Arm
  <2> QED BY <1>4, <2>1, <2>2
<1>10. CASE DecideNothing(r)
  BY <1>10 DEF DecideNothing, StubsLeft, StubLeft
<1> QED BY <1>5, <1>6, <1>7, <1>8, <1>9, <1>10

\* The market's events, and the start and the end of an evaluation, do.
LEMMA MarketStubs ==
    ASSUME TypeOK, StubsLeft,
           EndEvaluate \/ (\E m \in rest, d \in BOOLEAN : TickToken(m, d)) \/ Market \/ Tick
    PROVE  StubsLeft'
<1> USE DEF tokenVars
<1>1. \A m \in Mints : arms[m] \in [AllRules -> Arm] /\ \A q \in AllRules : StubLeft(arms[m][q])
  BY DEF TypeOK, StubsLeft
<1>2. /\ Idle("Armed") \in Arm /\ Idle("PendingFirstSlot") \in Arm /\ NoArm \in Arm
      /\ StubLeft(Idle("Armed")) /\ StubLeft(Idle("PendingFirstSlot")) /\ StubLeft(NoArm)
      /\ StubLeft(Idle("Disarmed"))
  BY IdleTypes, IdleStubs DEF ArmTags
<1>3. CASE EndEvaluate
  <2>1. cur \in Mints /\ Store(cur, arms[cur], episodes[cur])
    BY <1>3 DEF EndEvaluate, TypeOK
  <2> QED BY <1>1, <2>1, StoreStub
<1>4. ASSUME NEW m \in rest, NEW d \in BOOLEAN, TickToken(m, d)
      PROVE  StubsLeft'
  <2>1. m \in Mints /\ Begun(m, arms[m], rest \ {m})
    BY <1>4 DEF TickToken, BeginEvaluate, Begun, TypeOK
  <2> QED BY <1>1, <2>1, BegunStub
<1>5. ASSUME NEW m \in Mints, NEW hits \in SUBSET Rules, TokenCreated(m, hits)
      PROVE  StubsLeft'
  <2> DEFINE matched == {r \in hits : Enabled(r)}
             f == [r \in AllRules |->
                     CASE r \in matched \cap FirstSlot -> Idle("PendingFirstSlot")
                       [] r \in matched \ FirstSlot   -> Idle("Armed")
                       [] OTHER                       -> NoArm]
  <2>1. f \in [AllRules -> Arm]
    BY <1>2
  <2>2. \A q \in AllRules : StubLeft(f[q])
    BY <1>2
  <2>3. Begun(m, f, {})
    BY <1>5 DEF TokenCreated, BeginEvaluate, Begun
  <2> HIDE DEF f
  <2> QED BY <2>1, <2>2, <2>3, BegunStub
<1>6. ASSUME NEW m \in Mints, NEW hits \in SUBSET Rules, NEW d \in BOOLEAN,
             FirstSlotSettled(m, hits, d)
      PROVE  StubsLeft'
  <2> DEFINE Settle(r, a) ==
              IF a.st # "PendingFirstSlot" \/ ~Enabled(r) THEN a
              ELSE IF r \in hits THEN Idle("Armed") ELSE NoArm
             f == [r \in AllRules |-> Settle(r, arms[m][r])]
  <2>1. f \in [AllRules -> Arm]
    BY <1>1, <1>2
  <2>2. \A q \in AllRules : StubLeft(f[q])
    BY <1>1, <1>2
  <2>3. Begun(m, f, {})
    BY <1>6 DEF FirstSlotSettled, BeginEvaluate, Begun
  <2> HIDE DEF f
  <2> QED BY <2>1, <2>2, <2>3, BegunStub
<1>7. ASSUME NEW m \in Mints, NEW d \in BOOLEAN, Trade(m, d)
      PROVE  StubsLeft'
  <2>1. Begun(m, arms[m], {})
    BY <1>7 DEF Trade, BeginEvaluate, Begun
  <2> QED BY <1>1, <2>1, BegunStub
<1>8. ASSUME NEW m \in Mints, Migrated(m)
      PROVE  StubsLeft'
  <2> DEFINE f == [r \in AllRules |-> IF LeftByMigration(arms[m][r])
                                      THEN Idle("Disarmed") ELSE arms[m][r]]
  <2>1. \A q \in AllRules : StubLeft(f[q])
    BY <1>1, <1>2
  <2>2. Store(m, f, episodes[m])
    BY <1>8 DEF Migrated
  <2> HIDE DEF f
  <2> QED BY <2>1, <2>2, StoreStub
<1>9. CASE Tick
  BY <1>9 DEF Tick, StubsLeft, StubLeft
<1> QED BY <1>3, <1>4, <1>5, <1>6, <1>7, <1>8, <1>9 DEF Market

\* The executor's answers do: a fill sells less than the bag of what is owed,
\* and a booked partial sell was checked when it was submitted.
LEMMA AnswerStubs ==
    ASSUME TypeOK, StubsLeft, NEW o \in Orders, AnswerOrder(o)
    PROVE  StubsLeft'
<1> USE DEF tokenVars
<1>0. arms \in [Mints -> [AllRules -> Arm]]
  BY DEF TypeOK
<1>1. PICK m \in Mints, r \in AllRules, a \in Arm : m = o.mint /\ r = o.rule /\ a = arms[m][r]
  BY <1>0 DEF Orders
<1>2. ArmOf(o) = a /\ StubLeft(a) /\ \A q \in AllRules : StubLeft(arms[m][q])
  BY <1>1 DEF ArmOf, StubsLeft
<1>3. StubLeft(Idle("Armed")) /\ StubLeft(Idle("Done")) /\ StubLeft(Idle("Cooldown"))
  BY IdleStubs DEF ArmTags
<1>4. ASSUME NEW b, StubLeft(b), NEW eps, Store(m, [arms[m] EXCEPT ![r] = b], eps)
      PROVE  StubsLeft'
  <2> DEFINE f == [arms[m] EXCEPT ![r] = b]
  <2>1. \A q \in AllRules : StubLeft(f[q])
    BY <1>0, <1>2, <1>4
  <2>2. Store(m, f, eps)
    BY <1>4
  <2> HIDE DEF f
  <2> QED BY <2>1, <2>2, StoreStub
<1>5. CASE StaleAnswer(o)
  BY <1>5 DEF StaleAnswer, StubsLeft, StubLeft
<1>6. CASE BuyConfirmed(o)
  <2> DEFINE held == Entered(a.pos, 0, Bag)
             portion == IF a.owed = Bag THEN All ELSE [kind |-> "Remaining", bps |-> a.owed]
             b == IF a.owed > 0 THEN ExitPending(held, intentSeq + 1, 1, "Line", portion)
                                ELSE held
  <2>1. arms' = [arms EXCEPT ![m][r] = b]
    BY <1>1, <1>2, <1>6 DEF BuyConfirmed
  <2>2. a.owed \in 0 .. Bag /\ held \in Arm /\ held.sold = 0 /\ held.st = "Entered"
    <3>1. a.pos \in Nat /\ a.owed \in 0 .. Bag
      BY DEF Arm
    <3>2. held \in Arm
      <4>1. 0 \in Nat /\ Bag \in 0 .. Bag
        BY ConstantsAssumption
      <4> QED BY <3>1, <4>1, EnteredType
    <3>3. held.sold = 0 /\ held.st = "Entered"
      BY DEF Entered
    <3> HIDE DEF held
    <3> QED BY <3>1, <3>2, <3>3
  <2> HIDE DEF held
  <2>3. CASE a.owed \in 1 .. (Bag - 1)
    <3>1. portion = [kind |-> "Remaining", bps |-> a.owed]
      BY <2>3, ConstantsAssumption
    <3>2. portion \in [kind : {"Initial", "Remaining"}, bps : 0 .. (Bag - 1)]
      BY <2>3, <3>1, ConstantsAssumption
    <3>3. LeavesStub(held, portion)
      BY <3>1 DEF LeavesStub
    <3> HIDE DEF portion
    <3>4. 0 + portion_sold_bps(portion, 0) < Bag
      BY <2>2, <3>2, <3>3, PartialLeavesStub, ConstantsAssumption
    <3>5. b = ExitPending(held, intentSeq + 1, 1, "Line", portion)
      BY <2>3, ConstantsAssumption
    <3>6. StubLeft(b)
      BY <2>2, <3>4, <3>5, ConstantsAssumption DEF StubLeft, ExitPending
    <3> HIDE DEF b
    <3> QED BY <2>1, <3>6, SetStub
  <2>4. CASE a.owed = Bag
    <3>1. b = ExitPending(held, intentSeq + 1, 1, "Line", All)
      BY <2>4, ConstantsAssumption
    <3>2. StubLeft(b)
      BY <2>2, <3>1, ConstantsAssumption DEF StubLeft, ExitPending, IsPartial, All
    <3> HIDE DEF b
    <3> QED BY <2>1, <3>2, SetStub
  <2>5. CASE a.owed = 0
    <3>1. b = held
      BY <2>5
    <3>2. StubLeft(b)
      BY <2>2, <3>1, ConstantsAssumption DEF StubLeft
    <3> HIDE DEF b
    <3> QED BY <2>1, <3>2, SetStub
  <2> QED BY <2>2, <2>3, <2>4, <2>5, ConstantsAssumption
<1>7. CASE PartialSellConfirmed(o)
  <2> DEFINE b == Entered(a.pos, a.sold + portion_sold_bps(a.portion, a.sold),
                          a.left - token_amount(a.portion, a.left))
  <2>1. arms' = [arms EXCEPT ![m][r] = b] /\ a.st = "ExitPending" /\ IsPartial(a.portion)
    BY <1>1, <1>2, <1>7 DEF PartialSellConfirmed
  <2>2. StubLeft(b)
    BY <1>2, <2>1 DEF StubLeft, Entered
  <2> HIDE DEF b
  <2> QED BY <2>1, <2>2, SetStub
<1>8. CASE SellConfirmed(o)
  <2>1. PICK eps : Store(m, [arms[m] EXCEPT ![r] = ArmAfterClose(m, r, a.reason)], eps)
    BY <1>1, <1>2, <1>8 DEF SellConfirmed
  <2>2. StubLeft(ArmAfterClose(m, r, a.reason))
    BY <1>3 DEF ArmAfterClose
  <2> QED BY <1>4, <2>1, <2>2
<1>9. ASSUME arms' = [arms EXCEPT ![m][r] = Resent(a, intentSeq + 1)]
      PROVE  StubsLeft'
  <2>1. StubLeft(Resent(a, intentSeq + 1))
    BY <1>2 DEF StubLeft, Resent, Arm
  <2> QED BY <1>9, <2>1, SetStub
<1>10. ASSUME NEW why \in FailReasons, SellRetried(o, why) \/ \E q \in BOOLEAN : BuyRetried(o, why, q)
       PROVE  StubsLeft'
  BY <1>1, <1>2, <1>9, <1>10 DEF SellRetried, BuyRetried
<1>11. ASSUME NEW why \in FailReasons, SellGivenUp(o, why) \/ \E q \in BOOLEAN : BuyGivenUp(o, why, q)
       PROVE  StubsLeft'
  <2>1. PICK tag \in {"Armed", "Done"} : Store(m, [arms[m] EXCEPT ![r] = Idle(tag)], episodes[m])
    BY <1>1, <1>2, <1>11 DEF SellGivenUp, BuyGivenUp, StoreArm
  <2> QED BY <1>3, <1>4, <2>1
<1> QED BY <1>5, <1>6, <1>7, <1>8, <1>10, <1>11 DEF AnswerOrder

\* The operator's commands do, as long as the console sells whole bags only.
LEMMA OperatorStubs ==
    ASSUME ManualBps = {}, TypeOK, StubsLeft, Operator PROVE StubsLeft'
<1> USE DEF tokenVars
<1>0. arms \in [Mints -> [AllRules -> Arm]]
  BY DEF TypeOK
<1>1. ASSUME NEW p \in DOMAIN positions
      PROVE  positions[p].mint \in Mints /\ positions[p].rule \in AllRules
  BY DEF TypeOK
<1>2. StubLeft(Idle("Disarmed")) /\ StubLeft(Idle("Done"))
  BY IdleStubs DEF ArmTags
<1>3. ASSUME NEW new \in [Rules -> ReloadStates], RulesReloaded(new)
      PROVE  StubsLeft'
  <2>1. \A m \in Mints, q \in AllRules : arms'[m][q] \in {Idle("Disarmed"), arms[m][q]}
    BY <1>3 DEF RulesReloaded
  <2>2. \A m \in Mints, q \in AllRules : StubLeft(arms'[m][q])
    BY <1>2, <2>1 DEF StubsLeft
  <2> QED BY <2>2 DEF StubsLeft, StubLeft
<1>4. ASSUME NEW m \in Mints, NEW r \in Manual, NEW exit \in BOOLEAN, ManualBuy(m, r, exit)
      PROVE  StubsLeft'
  <2>1. arms' = [arms EXCEPT ![m][r] = EntryPending(positionSeq + 1, intentSeq + 1, 1)] /\ r \in AllRules
    BY <1>4 DEF ManualBuy, AllRules
  <2> QED BY <2>1, IdleStubs, SetStub
<1>5. ASSUME NEW p \in DOMAIN positions, NEW exit \in BOOLEAN, SetManualExit(p, exit)
      PROVE  StubsLeft'
  BY <1>5 DEF SetManualExit, StubsLeft, StubLeft
<1>6. ASSUME NEW p \in DOMAIN positions, ManualCloseBuy(p) \/ ExternallyCleared(p)
      PROVE  StubsLeft'
  <2>1. PICK m \in Mints, r \in AllRules : m = positions[p].mint /\ r = positions[p].rule
    BY <1>1
  <2> DEFINE f == [arms[m] EXCEPT ![r] = Idle("Done")]
  <2>2. Store(m, f, episodes[m])
    BY <1>6, <2>1 DEF ManualCloseBuy, ExternallyCleared, StoreArm
  <2>3. \A q \in AllRules : StubLeft(f[q])
    BY <1>0, <1>2 DEF StubsLeft
  <2> HIDE DEF f
  <2> QED BY <2>2, <2>3, StoreStub
<1>7. ASSUME NEW p \in DOMAIN positions, NEW portion \in ManualPortions,
             ManualCloseBag(p, portion)
      PROVE  StubsLeft'
  <2>1. PICK m \in Mints, r \in AllRules : m = positions[p].mint /\ r = positions[p].rule
    BY <1>1
  <2>2. portion = All
    BY DEF ManualPortions
  <2>3. /\ arms' = [arms EXCEPT ![m][r] = ExitPending(arms[m][r], intentSeq + 1, 1, "Manual", All)]
        /\ arms[m][r].st = "Entered"
    BY <1>7, <2>1, <2>2 DEF ManualCloseBag, CanClose, OwnerArm
  <2>4. arms[m][r].sold < Bag
    BY <2>3 DEF StubsLeft, StubLeft
  <2>5. StubLeft(ExitPending(arms[m][r], intentSeq + 1, 1, "Manual", All))
    BY <2>4 DEF StubLeft, ExitPending, IsPartial, All
  <2> QED BY <2>3, <2>5, SetStub
<1> QED BY <1>3, <1>4, <1>5, <1>6, <1>7 DEF Operator

\* A plan's partial sells, and the ones owed at the fill, never add up to the
\* whole bag, however they follow each other.  The console's "Sell N%" skips
\* the check that decide_arm makes, hence the hypothesis.
THEOREM SharesCorrect == ManualBps = {} => (Spec => []ShareLeftWhileHolding)
<1> SUFFICES ASSUME ManualBps = {} PROVE Spec => []ShareLeftWhileHolding
  OBVIOUS
<1>1. Init => StubsLeft
  BY IdleStubs DEF Init, StubsLeft, NoArms
<1>2. TypeOK /\ StubsLeft /\ [Next]_vars => StubsLeft'
  <2> SUFFICES ASSUME TypeOK, StubsLeft, [Next]_vars PROVE StubsLeft'
    OBVIOUS
  <2>1. CASE Decide
    BY <2>1, DecideStubs DEF Decide
  <2>2. CASE Evaluation \/ Market \/ Tick
    BY <2>1, <2>2, MarketStubs DEF Evaluation
  <2>3. CASE Operator
    BY <2>3, OperatorStubs
  <2>4. CASE \E o \in Orders : AnswerOrder(o)
    BY <2>4, AnswerStubs
  <2>5. CASE UNCHANGED vars
    BY <2>5 DEF vars, tokenVars, StubsLeft, StubLeft
  <2> QED BY <2>2, <2>3, <2>4, <2>5 DEF Next
<1>3. StubsLeft => ShareLeftWhileHolding
  BY DEF StubsLeft, StubLeft, ShareLeftWhileHolding
<1> QED BY <1>1, <1>2, <1>3, TypeCorrect, PTL DEF Spec
=============================================================================
