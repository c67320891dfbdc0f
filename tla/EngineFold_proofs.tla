-------------------------- MODULE EngineFold_proofs --------------------------
(***************************************************************************)
(* Proofs about EngineFold for every set of mints and rules and every cap. *)
(***************************************************************************)
EXTENDS EngineFold, FiniteSetTheorems, TLAPS

USE ConstantsAssumption DEF AllRules, NoMint

-----------------------------------------------------------------------------
(* Types of the helpers.                                                   *)

\* All and the portions a plan or the console names are portions.
LEMMA PortionTypes ==
    /\ All \in Portions
    /\ \A b \in 0 .. Bag, k \in {"Initial", "Remaining"} : [kind |-> k, bps |-> b] \in Portions
BY DEF All, Portions

\* Arms without a position are arms.
LEMMA IdleTypes == NoArm \in Arm /\ \A tag \in ArmTags : Idle(tag) \in Arm
BY PortionTypes DEF NoArm, Idle, Arm, ArmTags

\* A submitted buy is an arm.
LEMMA EntryPendingType ==
    ASSUME NEW p \in Nat, NEW i \in Nat, NEW n \in Nat
    PROVE  EntryPending(p, i, n) \in Arm
<1>1. NoArm \in Arm
  BY IdleTypes
<1> QED BY <1>1 DEF EntryPending, Arm, ArmTags

\* A held bag whose sell is submitted is an arm.
LEMMA ExitPendingType ==
    ASSUME NEW a \in Arm, NEW i \in Nat, NEW n \in Nat,
           NEW why \in {"None", "Line", "Dead", "Manual"}, NEW portion \in Portions
    PROVE  ExitPending(a, i, n, why, portion) \in Arm
BY DEF ExitPending, Arm, ArmTags

\* A held bag is an arm.
LEMMA EnteredType ==
    ASSUME NEW p \in Nat, NEW sold \in Nat, NEW left \in 0 .. Bag
    PROVE  Entered(p, sold, left) \in Arm
BY PortionTypes DEF Entered, Arm, ArmTags

\* A retried order is an arm.
LEMMA ResentType == ASSUME NEW a \in Arm, NEW i \in Nat PROVE Resent(a, i) \in Arm
<1>1. a.att + 1 \in Nat
  BY DEF Arm
<1> QED BY <1>1 DEF Resent, Arm

\* A quotient of naturals is a natural.
LEMMA DivNat == ASSUME NEW a \in Nat, NEW b \in Nat \ {0} PROVE a \div b \in Nat
OBVIOUS

\* A product of naturals is a natural.
LEMMA MulNat == ASSUME NEW a \in Nat, NEW b \in Nat PROVE a * b \in Nat
OBVIOUS

\* The share owed at the fill never exceeds the bag (note_inflight).
LEMMA AddOwedType ==
    ASSUME NEW owed \in 0 .. Bag, NEW b \in 0 .. Bag, NEW ofBag \in BOOLEAN
    PROVE  AddOwed(owed, b, ofBag) \in 0 .. Bag
<1>1. (Bag - owed) * b \in Nat
  BY MulNat
<1>2. ((Bag - owed) * b) \div Bag \in Nat
  BY <1>1, DivNat
<1> QED BY <1>2 DEF AddOwed

\* A sell never takes more than the bag that is left (Portion::token_amount).
LEMMA TokenAmountType ==
    ASSUME NEW p \in Portions, NEW left \in 0 .. Bag
    PROVE  token_amount(p, left) \in 0 .. left
<1>1. left * p.bps \in Nat
  BY MulNat DEF Portions
<1>2. (left * p.bps) \div Bag \in Nat
  BY <1>1, DivNat
<1>3. p.bps \in Nat /\ p.kind \in {"All", "Initial", "Remaining"}
  BY DEF Portions
<1>4. wanted(p, left) \in Nat
  BY <1>1, <1>2, <1>3 DEF wanted
<1> QED BY <1>4 DEF token_amount

\* What a partial sell books is a natural (portion_sold_bps).
LEMMA PortionSoldType ==
    ASSUME NEW p \in Portions, NEW sold \in Nat
    PROVE  portion_sold_bps(p, sold) \in Nat
<1> DEFINE rest0 == IF sold < Bag THEN Bag - sold ELSE 0
<1>1. rest0 \in Nat /\ p.bps \in Nat /\ p.kind \in {"All", "Initial", "Remaining"}
  BY DEF Portions
<1>2. rest0 * p.bps \in Nat
  BY <1>1, MulNat
<1>3. (rest0 * p.bps) \div Bag \in Nat
  BY <1>2, DivNat
<1> QED BY <1>1, <1>3 DEF portion_sold_bps

-----------------------------------------------------------------------------
(* The type invariant, in the groups the actions change together.          *)

TokenTypes == /\ arms \in [Mints -> [AllRules -> Arm]]
              /\ slotSettled \subseteq Mints
              /\ episodes \in [Mints -> [Rules -> Nat]]
              /\ fills \in [Mints -> [Rules -> Nat]]
CountTypes == open \in [AllRules -> Nat] /\ total \in [AllRules -> Nat]
PosTypes == /\ DOMAIN positions \subseteq 1 .. positionSeq
            /\ \A p \in DOMAIN positions : positions[p] \in [mint : Mints, rule : AllRules]
            /\ manualRules \subseteq Nat
            /\ positionSeq \in 0 .. MaxPositions
            /\ status \in [1 .. MaxPositions -> Statuses]
OrderTypes == intentSeq \in Nat /\ outstanding \subseteq IntentIds
SweepTypes == /\ cur \in Mints \cup {NoMint} /\ todo \subseteq AllRules
              /\ rest \subseteq Mints /\ dead \in BOOLEAN /\ print \in BOOLEAN
RunTypes == runEntries \in [Rules -> Int] /\ oldRun \subseteq Nat
Groups == /\ rules \in [Rules -> RuleStates] /\ TokenTypes /\ CountTypes /\ PosTypes
          /\ OrderTypes /\ SweepTypes /\ RunTypes /\ abandoned \subseteq IntentIds

\* The groups are the type invariant.
LEMMA GroupsTypeOK == (Groups <=> TypeOK) /\ (Groups' <=> TypeOK')
BY DEF Groups, TypeOK, TokenTypes, CountTypes, PosTypes, OrderTypes, SweepTypes, RunTypes

\* Replacing one token's arms, or one arm, keeps the type of arms.
LEMMA ArmsUpdate ==
    ASSUME arms \in [Mints -> [AllRules -> Arm]], NEW m \in Mints
    PROVE  /\ arms[m] \in [AllRules -> Arm]
           /\ \A f \in [AllRules -> Arm] : [arms EXCEPT ![m] = f] \in [Mints -> [AllRules -> Arm]]
           /\ \A r \in AllRules, a \in Arm :
                /\ arms[m][r] \in Arm
                /\ [arms[m] EXCEPT ![r] = a] \in [AllRules -> Arm]
                /\ [arms EXCEPT ![m][r] = a] \in [Mints -> [AllRules -> Arm]]
<1>1. arms[m] \in [AllRules -> Arm]
  OBVIOUS
<1>2. ASSUME NEW f \in [AllRules -> Arm]
      PROVE  [arms EXCEPT ![m] = f] \in [Mints -> [AllRules -> Arm]]
  OBVIOUS
<1>3. ASSUME NEW r \in AllRules, NEW a \in Arm
      PROVE  /\ arms[m][r] \in Arm
             /\ [arms[m] EXCEPT ![r] = a] \in [AllRules -> Arm]
             /\ [arms EXCEPT ![m][r] = a] \in [Mints -> [AllRules -> Arm]]
  <2>1. arms[m][r] \in Arm
    BY <1>1
  <2>2. [arms[m] EXCEPT ![r] = a] \in [AllRules -> Arm]
    BY <1>1
  <2>3. [arms EXCEPT ![m] = [arms[m] EXCEPT ![r] = a]] \in [Mints -> [AllRules -> Arm]]
    BY <1>2, <2>2
  <2> QED BY <2>1, <2>2, <2>3
<1> QED BY <1>1, <1>2, <1>3

\* Counting one up in a per-rule counter.
LEMMA CountUpOne ==
    ASSUME NEW f \in [Rules -> Nat], NEW r \in Rules
    PROVE  [f EXCEPT ![r] = @ + 1] \in [Rules -> Nat]
<1>1. f[r] + 1 \in Nat
  OBVIOUS
<1> QED BY <1>1

\* The same in a counter per token and rule.
LEMMA CountUp ==
    ASSUME NEW f \in [Mints -> [Rules -> Nat]], NEW m \in Mints, NEW r \in Rules
    PROVE  [f EXCEPT ![m][r] = @ + 1] \in [Mints -> [Rules -> Nat]]
<1>1. f[m] \in [Rules -> Nat]
  OBVIOUS
<1>2. [f[m] EXCEPT ![r] = @ + 1] \in [Rules -> Nat]
  BY <1>1, CountUpOne
<1>3. [f EXCEPT ![m] = [f[m] EXCEPT ![r] = @ + 1]] \in [Mints -> [Rules -> Nat]]
  BY <1>2
<1> QED BY <1>3

\* Putting a token back, or dropping it, keeps its types.
LEMMA StoreType ==
    ASSUME TokenTypes, NEW m \in Mints, NEW f \in [AllRules -> Arm],
           NEW eps \in [Rules -> Nat], Store(m, f, eps)
    PROVE  TokenTypes'
<1>1. NoArms \in [AllRules -> Arm] /\ NoEpisodes \in [Rules -> Nat]
  BY IdleTypes DEF NoArms, NoEpisodes
<1>2. arms' \in [Mints -> [AllRules -> Arm]]
  BY <1>1 DEF Store, TokenTypes
<1>3. episodes' \in [Mints -> [Rules -> Nat]] /\ fills' \in [Mints -> [Rules -> Nat]]
  BY <1>1 DEF Store, TokenTypes
<1>4. slotSettled' \subseteq Mints
  BY DEF Store, TokenTypes
<1> QED BY <1>2, <1>3, <1>4 DEF TokenTypes

\* The same for a single arm.
LEMMA StoreArmType ==
    ASSUME TokenTypes, NEW m \in Mints, NEW r \in AllRules, NEW a \in Arm, StoreArm(m, r, a)
    PROVE  TokenTypes'
<1>1. [arms[m] EXCEPT ![r] = a] \in [AllRules -> Arm] /\ episodes[m] \in [Rules -> Nat]
  BY ArmsUpdate DEF TokenTypes
<1> QED BY <1>1, StoreType DEF StoreArm

\* What starting an evaluation of m does, whatever the verdicts it is given.
Begun(m, f, others) ==
    /\ \E elapsed \in SUBSET {r \in Rules : f[r].st = "Cooldown" /\ Enabled(r)} :
         arms' = [arms EXCEPT ![m] =
                    [r \in AllRules |-> IF r \in elapsed THEN Idle("Armed") ELSE f[r]]]
    /\ cur' = m /\ rest' = others
    /\ todo' = {r \in AllRules : f[r].st # "None"}
    /\ dead' \in BOOLEAN /\ print' \in BOOLEAN

\* An evaluation starts in a well-typed state.
LEMMA BegunType ==
    ASSUME arms \in [Mints -> [AllRules -> Arm]], NEW m \in Mints,
           NEW f \in [AllRules -> Arm], NEW others \in SUBSET Mints, Begun(m, f, others)
    PROVE  arms' \in [Mints -> [AllRules -> Arm]] /\ SweepTypes'
<1> PICK elapsed \in SUBSET Rules :
        arms' = [arms EXCEPT ![m] =
              [r \in AllRules |-> IF r \in elapsed THEN Idle("Armed") ELSE f[r]]]
  BY DEF Begun
<1>1. Idle("Armed") \in Arm
  BY IdleTypes DEF ArmTags
<1>2. [r \in AllRules |-> IF r \in elapsed THEN Idle("Armed") ELSE f[r]] \in [AllRules -> Arm]
  BY <1>1
<1>3. arms' \in [Mints -> [AllRules -> Arm]]
  BY <1>2, ArmsUpdate
<1>4. SweepTypes'
  BY DEF SweepTypes, Begun
<1> QED BY <1>3, <1>4

\* Handing an order to the executor, or taking its answer, keeps the types.
LEMMA OrdersType ==
    ASSUME OrderTypes, NEW m \in Mints, NEW r \in AllRules, NEW done
    PROVE  /\ Submit(m, r, done) => OrderTypes'
           /\ Answer(done) => OrderTypes'
BY DEF OrderTypes, Submit, Answer, Intent, IntentIds

\* The counters stay natural numbers: decrements saturate.
LEMMA CountsType ==
    ASSUME CountTypes, NEW r \in AllRules
    PROVE  /\ decrement_open(r) => CountTypes'
           /\ rollback_entry(r) => CountTypes'
BY DEF CountTypes, decrement_open, rollback_entry, SaturatingDec

\* Closing a position keeps the types of the owner map.
LEMMA RemoveType ==
    ASSUME PosTypes, NEW p, NEW s \in Statuses, remove_position(p), Report(p, s)
    PROVE  PosTypes'
BY DEF PosTypes, remove_position, Report

\* The history of a run is well typed.
LEMMA ForgetType ==
    ASSUME RunTypes, NEW p, NEW r \in AllRules, ForgetEntry(p, r)
    PROVE  RunTypes'
<1>1. r \in Rules => [runEntries EXCEPT ![r] = @ - 1] \in [Rules -> Int]
  BY DEF RunTypes
<1>2. runEntries' \in [Rules -> Int]
  BY <1>1 DEF RunTypes, ForgetEntry
<1> QED BY <1>2 DEF RunTypes, ForgetEntry
-----------------------------------------------------------------------------
(* Every action preserves the type invariant.                              *)

\* The initial state is well typed.
LEMMA InitType == Init => TypeOK
<1> SUFFICES ASSUME Init PROVE TypeOK OBVIOUS
<1>1. NoArms \in [AllRules -> Arm] /\ NoEpisodes \in [Rules -> Nat]
  BY IdleTypes DEF NoArms, NoEpisodes
<1>2. TokenTypes
  BY <1>1 DEF Init, TokenTypes
<1>3. PosTypes
  BY DEF Init, PosTypes, Statuses
<1>4. CountTypes /\ OrderTypes /\ RunTypes
  BY DEF Init, CountTypes, OrderTypes, RunTypes
<1>6. SweepTypes
  BY DEF Init, SweepTypes
<1>5. rules \in [Rules -> RuleStates] /\ abandoned \subseteq IntentIds
  BY DEF Init, RuleStates
<1> QED BY <1>2, <1>3, <1>4, <1>5, <1>6, GroupsTypeOK DEF Groups

\* The steps of evaluate_token's loop.
LEMMA DecideType ==
    ASSUME TypeOK, NEW r \in todo,
           \/ DecideDisarm(r) \/ DecideExhaust(r) \/ DecideEnter(r) \/ DecideExit(r)
           \/ DecidePartialExit(r) \/ DecideInflight(r) \/ DecideNothing(r)
    PROVE  TypeOK'
<1> USE DEF countVars, posVars, orderVars, runVars
<1>1. Groups
  BY GroupsTypeOK
<1>2. cur \in Mints /\ r \in AllRules
  BY <1>1 DEF Groups, SweepTypes, DecideDisarm, DecideExhaust, DecideEnter, DecideExit,
              DecidePartialExit, DecideInflight, DecideNothing, Deciding
<1>3. arms[cur][r] \in Arm /\ \A a \in Arm : SetArm(r, a) => arms' \in [Mints -> [AllRules -> Arm]]
  <2>1. arms \in [Mints -> [AllRules -> Arm]]
    BY <1>1 DEF Groups, TokenTypes
  <2>2. arms[cur][r] \in Arm
    BY <1>2, <2>1, ArmsUpdate
  <2>3. ASSUME NEW a \in Arm, SetArm(r, a) PROVE arms' \in [Mints -> [AllRules -> Arm]]
    <3>1. [arms EXCEPT ![cur][r] = a] \in [Mints -> [AllRules -> Arm]]
      BY <1>2, <2>1, ArmsUpdate
    <3> QED BY <2>3, <3>1 DEF SetArm
  <2> QED BY <2>2, <2>3
<1>4. ASSUME Advance(r), arms' \in [Mints -> [AllRules -> Arm]]
      PROVE  rules' \in [Rules -> RuleStates] /\ TokenTypes' /\ SweepTypes'
  BY <1>1, <1>4 DEF Advance, Groups, TokenTypes, SweepTypes
<1>5. ASSUME NEW why \in {"Line", "Dead"}, NEW portion \in Portions, SubmitExit(r, why, portion)
      PROVE  Groups'
  <2>1. ExitPending(arms[cur][r], intentSeq + 1, 1, why, portion) \in Arm
    BY <1>1, <1>3, ExitPendingType DEF Groups, OrderTypes
  <2>2. rules' \in [Rules -> RuleStates] /\ TokenTypes' /\ SweepTypes'
    BY <1>3, <1>4, <1>5, <2>1 DEF SubmitExit
  <2>3. OrderTypes'
    BY <1>1, <1>2, <1>5, OrdersType DEF SubmitExit, Groups
  <2>4. PosTypes'
    BY <1>1, <1>5 DEF SubmitExit, Report, Groups, PosTypes, Statuses
  <2>5. CountTypes' /\ RunTypes' /\ abandoned' \subseteq IntentIds
    BY <1>1, <1>5 DEF SubmitExit, Groups, CountTypes, RunTypes
  <2> QED BY <2>2, <2>3, <2>4, <2>5 DEF Groups
<1>6. ASSUME NEW a \in Arm, SetArm(r, a), Advance(r),
             UNCHANGED <<countVars, posVars, orderVars, abandoned, runVars>>
      PROVE  Groups'
  <2>1. rules' \in [Rules -> RuleStates] /\ TokenTypes' /\ SweepTypes'
    BY <1>3, <1>4, <1>6
  <2> QED BY <1>1, <1>6, <2>1 DEF Groups, CountTypes, PosTypes, OrderTypes, RunTypes
<1>7. Idle("Disarmed") \in Arm /\ Idle("Done") \in Arm
  BY IdleTypes DEF ArmTags
<1>8. CASE DecideDisarm(r)
  BY <1>6, <1>7, <1>8, GroupsTypeOK DEF DecideDisarm
<1>9. CASE DecideExhaust(r)
  BY <1>6, <1>7, <1>9, GroupsTypeOK DEF DecideExhaust
<1>10. CASE DecideEnter(r)
  <2> DEFINE p == positionSeq + 1
  <2>1. EntryPending(p, intentSeq + 1, 1) \in Arm
    BY <1>1, EntryPendingType DEF Groups, OrderTypes, PosTypes
  <2>2. rules' \in [Rules -> RuleStates] /\ TokenTypes' /\ SweepTypes'
    BY <1>3, <1>4, <1>10, <2>1 DEF DecideEnter
  <2>3. OrderTypes'
    BY <1>1, <1>2, <1>10, OrdersType DEF DecideEnter, Groups
  <2>4. PosTypes'
    <3>1. DOMAIN positions' \subseteq 1 .. positionSeq' /\ positionSeq' \in 0 .. MaxPositions
      BY <1>1, <1>10 DEF DecideEnter, Groups, PosTypes
    <3>2. \A q \in DOMAIN positions' : positions'[q] \in [mint : Mints, rule : AllRules]
      BY <1>1, <1>2, <1>10 DEF DecideEnter, Groups, PosTypes
    <3>3. manualRules' \subseteq Nat /\ status' \in [1 .. MaxPositions -> Statuses]
      BY <1>1, <1>10 DEF DecideEnter, Groups, PosTypes, Report, Statuses
    <3> QED BY <3>1, <3>2, <3>3 DEF PosTypes
  <2>5. CountTypes'
    <3>1. /\ [open EXCEPT ![r] = @ + 1] \in [AllRules -> Nat]
          /\ [total EXCEPT ![r] = @ + 1] \in [AllRules -> Nat]
      BY <1>1, <1>2 DEF Groups, CountTypes
    <3> QED BY <1>10, <3>1 DEF DecideEnter, CountTypes
  <2>6. RunTypes'
    <3>1. r \in Rules
      BY <1>10 DEF DecideEnter, Enabled
    <3>2. [runEntries EXCEPT ![r] = @ + 1] \in [Rules -> Int]
      BY <1>1, <3>1 DEF Groups, RunTypes
    <3> QED BY <1>1, <1>10, <3>2 DEF DecideEnter, Groups, RunTypes
  <2>7. abandoned' \subseteq IntentIds
    BY <1>1, <1>10 DEF DecideEnter, Groups
  <2> QED BY <2>2, <2>3, <2>4, <2>5, <2>6, <2>7, GroupsTypeOK DEF Groups
<1>11. CASE DecideExit(r)
  BY <1>5, <1>11, PortionTypes, GroupsTypeOK DEF DecideExit
<1>12. CASE DecidePartialExit(r)
  <2> PICK portion \in [kind : {"Initial", "Remaining"}, bps : PartialBps] :
            SubmitExit(r, "Line", portion)
    BY <1>12 DEF DecidePartialExit
  <2>1. PartialBps \subseteq 0 .. Bag
    OBVIOUS
  <2>2. portion \in Portions
    BY <2>1 DEF Portions
  <2> QED BY <1>5, <2>2, GroupsTypeOK
<1>13. CASE DecideInflight(r)
  <2> PICK b \in PartialBps \cup {Bag}, ofBag \in BOOLEAN :
        /\ SetArm(r, [arms[cur][r] EXCEPT !.owed = AddOwed(@, b, ofBag)]) /\ Advance(r)
        /\ UNCHANGED <<countVars, posVars, orderVars, abandoned, runVars>>
    BY <1>13 DEF DecideInflight
  <2>1. AddOwed(arms[cur][r].owed, b, ofBag) \in 0 .. Bag
    <3>1. arms[cur][r].owed \in 0 .. Bag
      BY <1>3 DEF Arm
    <3>2. b \in 0 .. Bag
      OBVIOUS
    <3> QED BY <3>1, <3>2, AddOwedType
  <2>2. [arms[cur][r] EXCEPT !.owed = AddOwed(@, b, ofBag)] \in Arm
    BY <1>3, <2>1 DEF Arm
  <2> QED BY <1>6, <2>2, GroupsTypeOK
<1>14. CASE DecideNothing(r)
  <2>1. rules' \in [Rules -> RuleStates] /\ TokenTypes' /\ SweepTypes'
    BY <1>1, <1>4, <1>14 DEF DecideNothing, Groups, TokenTypes
  <2>2. Groups'
    BY <1>1, <1>14, <2>1 DEF DecideNothing, Groups, CountTypes, PosTypes, OrderTypes, RunTypes
  <2> QED BY <2>2, GroupsTypeOK
<1> QED BY <1>8, <1>9, <1>10, <1>11, <1>12, <1>13, <1>14
\* The market's events and the start and end of an evaluation.
LEMMA MarketType ==
    ASSUME TypeOK, EndEvaluate \/ (\E m \in rest, d \in BOOLEAN : TickToken(m, d)) \/ Market \/ Tick
    PROVE  TypeOK'
<1> USE DEF countVars, posVars, orderVars, runVars, historyVars, tokenVars, sweepVars
<1>1. Groups
  BY GroupsTypeOK
<1>2. \A m \in Mints : arms[m] \in [AllRules -> Arm] /\ episodes[m] \in [Rules -> Nat]
  BY <1>1 DEF Groups, TokenTypes
<1>3. Idle("Armed") \in Arm /\ Idle("PendingFirstSlot") \in Arm /\ Idle("Disarmed") \in Arm
      /\ NoArm \in Arm
  BY IdleTypes DEF ArmTags
<1>4. ASSUME NEW m \in Mints, NEW f \in [AllRules -> Arm], NEW others \in SUBSET Mints,
             Begun(m, f, others), slotSettled' \subseteq Mints,
             UNCHANGED <<rules, episodes, countVars, posVars, orderVars, historyVars>>
      PROVE  TypeOK'
  <2>0. arms \in [Mints -> [AllRules -> Arm]]
    BY <1>1 DEF Groups, TokenTypes
  <2>1. arms' \in [Mints -> [AllRules -> Arm]] /\ SweepTypes'
    BY <1>4, <2>0, BegunType
  <2>2. TokenTypes'
    BY <1>1, <1>4, <2>1 DEF Groups, TokenTypes
  <2>3. Groups'
    BY <1>1, <1>4, <2>1, <2>2 DEF Groups, CountTypes, PosTypes, OrderTypes, RunTypes
  <2> QED BY <2>3, GroupsTypeOK
<1>5. CASE EndEvaluate
  <2>1. cur \in Mints
    BY <1>1, <1>5 DEF EndEvaluate, Groups, SweepTypes
  <2>2. TokenTypes'
    BY <1>1, <1>2, <1>5, <2>1, StoreType DEF EndEvaluate, Groups
  <2>3. SweepTypes'
    BY <1>1, <1>5 DEF EndEvaluate, Groups, SweepTypes
  <2>4. Groups'
    BY <1>1, <1>5, <2>2, <2>3 DEF EndEvaluate, Groups, CountTypes, PosTypes, OrderTypes, RunTypes
  <2> QED BY <2>4, GroupsTypeOK
<1>6. ASSUME NEW m \in rest, NEW d \in BOOLEAN, TickToken(m, d)
      PROVE  TypeOK'
  <2>1. m \in Mints /\ rest \ {m} \in SUBSET Mints /\ slotSettled' \subseteq Mints
    BY <1>1, <1>6 DEF TickToken, Groups, SweepTypes, TokenTypes
  <2>2. /\ Begun(m, arms[m], rest \ {m})
        /\ UNCHANGED <<rules, episodes, countVars, posVars, orderVars, historyVars>>
    BY <1>6 DEF TickToken, BeginEvaluate, Begun
  <2>3. arms[m] \in [AllRules -> Arm]
    BY <1>2, <2>1
  <2> QED BY <1>4, <2>1, <2>2, <2>3
<1>7. ASSUME NEW m \in Mints, NEW hits \in SUBSET Rules, TokenCreated(m, hits)
      PROVE  TypeOK'
  <2> DEFINE matched == {r \in hits : Enabled(r)}
             f == [r \in AllRules |->
                     CASE r \in matched \cap FirstSlot -> Idle("PendingFirstSlot")
                       [] r \in matched \ FirstSlot   -> Idle("Armed")
                       [] OTHER                       -> NoArm]
  <2>1. f \in [AllRules -> Arm]
    BY <1>3
  <2>2. slotSettled' \subseteq Mints
    BY <1>1, <1>7 DEF TokenCreated, Groups, TokenTypes
  <2>3. /\ Begun(m, f, {})
        /\ UNCHANGED <<rules, episodes, countVars, posVars, orderVars, historyVars>>
    BY <1>7 DEF TokenCreated, BeginEvaluate, Begun
  <2> HIDE DEF f
  <2> QED BY <1>4, <2>1, <2>2, <2>3
<1>8. ASSUME NEW m \in Mints, NEW hits \in SUBSET Rules, NEW d \in BOOLEAN,
             FirstSlotSettled(m, hits, d)
      PROVE  TypeOK'
  <2> DEFINE Settle(r, a) ==
              IF a.st # "PendingFirstSlot" \/ ~Enabled(r) THEN a
              ELSE IF r \in hits THEN Idle("Armed") ELSE NoArm
             f == [r \in AllRules |-> Settle(r, arms[m][r])]
  <2>1. f \in [AllRules -> Arm]
    BY <1>2, <1>3
  <2>2. slotSettled' \subseteq Mints
    BY <1>1, <1>8 DEF FirstSlotSettled, Groups, TokenTypes
  <2>3. /\ Begun(m, f, {})
        /\ UNCHANGED <<rules, episodes, countVars, posVars, orderVars, historyVars>>
    BY <1>8 DEF FirstSlotSettled, BeginEvaluate, Begun
  <2> HIDE DEF f
  <2> QED BY <1>4, <2>1, <2>2, <2>3
<1>9. ASSUME NEW m \in Mints, NEW d \in BOOLEAN, Trade(m, d)
      PROVE  TypeOK'
  <2>1. slotSettled' \subseteq Mints
    BY <1>1, <1>9 DEF Trade, Groups, TokenTypes
  <2>2. /\ Begun(m, arms[m], {})
        /\ UNCHANGED <<rules, episodes, countVars, posVars, orderVars, historyVars>>
    BY <1>9 DEF Trade, BeginEvaluate, Begun
  <2>3. arms[m] \in [AllRules -> Arm]
    BY <1>2
  <2> QED BY <1>4, <2>1, <2>2, <2>3
<1>10. ASSUME NEW m \in Mints, Migrated(m)
       PROVE  TypeOK'
  <2> DEFINE f == [r \in AllRules |-> IF LeftByMigration(arms[m][r])
                                      THEN Idle("Disarmed") ELSE arms[m][r]]
  <2>1. f \in [AllRules -> Arm]
    BY <1>2, <1>3
  <2>2. Store(m, f, episodes[m])
    BY <1>10 DEF Migrated
  <2> HIDE DEF f
  <2>3. TokenTypes'
    BY <1>1, <1>2, <2>1, <2>2, StoreType DEF Groups
  <2>4. Groups'
    BY <1>1, <1>10, <2>3
       DEF Migrated, Groups, CountTypes, PosTypes, OrderTypes, SweepTypes, RunTypes
  <2> QED BY <2>4, GroupsTypeOK
<1>11. CASE Tick
  <2>1. SweepTypes'
    BY <1>1, <1>11 DEF Tick, Groups, SweepTypes
  <2>2. Groups'
    BY <1>1, <1>11, <2>1
       DEF Tick, Groups, TokenTypes, CountTypes, PosTypes, OrderTypes, RunTypes
  <2> QED BY <2>2, GroupsTypeOK
<1> QED BY <1>5, <1>6, <1>7, <1>8, <1>9, <1>10, <1>11 DEF Market
\* The executor's answers.
LEMMA AnswerType ==
    ASSUME TypeOK, NEW o \in Orders, AnswerOrder(o)
    PROVE  TypeOK'
<1> USE DEF countVars, posVars, orderVars, runVars, historyVars, tokenVars, sweepVars
<1> DEFINE a == ArmOf(o)
<1>1. Groups
  BY GroupsTypeOK
<1>2. o.mint \in Mints /\ o.rule \in AllRules /\ a \in Arm /\ intentSeq + 1 \in Nat
  <2>1. o.mint \in Mints /\ o.rule \in AllRules
    BY DEF Orders
  <2>2. a \in Arm
    <3>1. arms \in [Mints -> [AllRules -> Arm]]
      BY <1>1 DEF Groups, TokenTypes
    <3>2. arms[o.mint] \in [AllRules -> Arm]
      BY <2>1, <3>1
    <3> QED BY <2>1, <3>2 DEF ArmOf
  <2>3. intentSeq + 1 \in Nat
    BY <1>1 DEF Groups, OrderTypes
  <2> QED BY <2>1, <2>2, <2>3
<1>3. \A b \in Arm : [arms EXCEPT ![o.mint][o.rule] = b] \in [Mints -> [AllRules -> Arm]]
  <2>1. arms \in [Mints -> [AllRules -> Arm]]
    BY <1>1 DEF Groups, TokenTypes
  <2> QED BY <1>2, <2>1, ArmsUpdate
<1>4. Idle("Armed") \in Arm /\ Idle("Done") \in Arm /\ Idle("Cooldown") \in Arm
  BY IdleTypes DEF ArmTags
<1> HIDE DEF a
<1>5. CASE StaleAnswer(o)
  <2>1. OrderTypes' /\ abandoned' \subseteq IntentIds
    BY <1>1, <1>5 DEF StaleAnswer, Answer, Groups, OrderTypes
  <2>2. Groups'
    BY <1>1, <1>5, <2>1
       DEF StaleAnswer, Groups, TokenTypes, CountTypes, PosTypes, SweepTypes, RunTypes
  <2> QED BY <2>2, GroupsTypeOK
<1>6. CASE BuyConfirmed(o)
  <2> DEFINE held == Entered(a.pos, 0, Bag)
             portion == IF a.owed = Bag THEN All ELSE [kind |-> "Remaining", bps |-> a.owed]
  <2>1. a.pos \in Nat /\ a.owed \in 0 .. Bag
    BY <1>2 DEF Arm
  <2>2. portion \in Portions
    BY <2>1, PortionTypes
  <2>3. held \in Arm
    BY <2>1, EnteredType
  <2>4. ExitPending(held, intentSeq + 1, 1, "Line", portion) \in Arm
    BY <1>2, <2>2, <2>3, ExitPendingType
  <2>5. /\ arms' = [arms EXCEPT ![o.mint][o.rule] =
              IF a.owed > 0 THEN ExitPending(held, intentSeq + 1, 1, "Line", portion) ELSE held]
        /\ Report(a.pos, IF a.owed > 0 THEN "ExitPending" ELSE "Holding")
        /\ Submit(o.mint, o.rule, {o}) \/ Answer({o})
        /\ fills' = IF o.rule \in Rules THEN [fills EXCEPT ![o.mint][o.rule] = @ + 1] ELSE fills
        /\ UNCHANGED <<rules, slotSettled, episodes, countVars, positions, manualRules,
                       positionSeq, sweepVars, abandoned, runVars>>
    BY <1>6 DEF BuyConfirmed, a
  <2> HIDE DEF held, portion
  <2>6. arms' \in [Mints -> [AllRules -> Arm]]
    BY <1>3, <2>3, <2>4, <2>5
  <2>7. fills' \in [Mints -> [Rules -> Nat]]
    <3>1. o.rule \in Rules =>
            [fills EXCEPT ![o.mint][o.rule] = @ + 1] \in [Mints -> [Rules -> Nat]]
      <4>1. fills \in [Mints -> [Rules -> Nat]]
        BY <1>1 DEF Groups, TokenTypes
      <4> QED BY <1>2, <4>1, CountUp
    <3> QED BY <1>1, <2>5, <3>1 DEF Groups, TokenTypes
  <2>8. TokenTypes'
    BY <1>1, <2>5, <2>6, <2>7 DEF Groups, TokenTypes
  <2>9. OrderTypes'
    BY <1>1, <1>2, <2>5, OrdersType DEF Groups
  <2>10. PosTypes'
    BY <1>1, <2>5 DEF Groups, PosTypes, Report, Statuses
  <2>11. Groups'
    BY <1>1, <2>5, <2>8, <2>9, <2>10 DEF Groups, CountTypes, SweepTypes, RunTypes
  <2> QED BY <2>11, GroupsTypeOK
<1>7. CASE PartialSellConfirmed(o)
  <2> DEFINE left == a.left - token_amount(a.portion, a.left)
             sold == a.sold + portion_sold_bps(a.portion, a.sold)
             held == Entered(a.pos, sold, left)
  <2>1. a.pos \in Nat /\ a.sold \in Nat /\ a.left \in 0 .. Bag /\ a.portion \in Portions
    BY <1>2 DEF Arm
  <2>2. left \in 0 .. Bag
    <3>1. token_amount(a.portion, a.left) \in 0 .. a.left
      BY <2>1, TokenAmountType
    <3> QED BY <2>1, <3>1
  <2>3. sold \in Nat
    <3>1. portion_sold_bps(a.portion, a.sold) \in Nat
      BY <2>1, PortionSoldType
    <3> QED BY <2>1, <3>1
  <2>4. /\ arms' = [arms EXCEPT ![o.mint][o.rule] = held]
        /\ Report(a.pos, "Holding") /\ Answer({o})
        /\ UNCHANGED <<rules, slotSettled, episodes, countVars, positions, manualRules,
                       positionSeq, sweepVars, historyVars>>
    BY <1>7 DEF PartialSellConfirmed, a
  <2> HIDE DEF left, sold
  <2>5. held \in Arm
    BY <2>1, <2>2, <2>3, EnteredType
  <2> HIDE DEF held
  <2>6. arms' \in [Mints -> [AllRules -> Arm]]
    BY <1>3, <2>4, <2>5
  <2>7. TokenTypes'
    BY <1>1, <2>4, <2>6 DEF Groups, TokenTypes
  <2>8. OrderTypes'
    BY <1>1, <1>2, <2>4, OrdersType DEF Groups
  <2>9. PosTypes'
    BY <1>1, <2>4 DEF Groups, PosTypes, Report, Statuses
  <2>10. Groups'
    BY <1>1, <2>4, <2>7, <2>8, <2>9 DEF Groups, CountTypes, SweepTypes, RunTypes
  <2> QED BY <2>10, GroupsTypeOK
<1>8. CASE SellConfirmed(o)
  <2> DEFINE next == ArmAfterClose(o.mint, o.rule, a.reason)
             eps == EpisodesAfter(o.mint, o.rule, a.reason)
             f == [arms[o.mint] EXCEPT ![o.rule] = next]
  <2>1. next \in Arm
    BY <1>4 DEF ArmAfterClose
  <2>2. eps \in [Rules -> Nat]
    <3>1. episodes[o.mint] \in [Rules -> Nat]
      BY <1>1, <1>2 DEF Groups, TokenTypes
    <3>2. o.rule \in Rules => [episodes[o.mint] EXCEPT ![o.rule] = @ + 1] \in [Rules -> Nat]
      BY <3>1, CountUpOne
    <3> QED BY <3>1, <3>2 DEF EpisodesAfter, CountsEpisode, Loaded
  <2>3. f \in [AllRules -> Arm]
    <3>1. arms \in [Mints -> [AllRules -> Arm]]
      BY <1>1 DEF Groups, TokenTypes
    <3> HIDE DEF next
    <3> QED BY <1>2, <2>1, <3>1, ArmsUpdate
  <2>4. /\ decrement_open(o.rule) /\ remove_position(a.pos)
        /\ Store(o.mint, f, eps)
        /\ Report(a.pos, "End") /\ Answer({o})
        /\ oldRun' = oldRun \ {a.pos}
        /\ UNCHANGED <<rules, sweepVars, abandoned, runEntries>>
    BY <1>8 DEF SellConfirmed, a
  <2> HIDE DEF f, eps
  <2>5. TokenTypes'
    BY <1>1, <1>2, <2>2, <2>3, <2>4, StoreType DEF Groups
  <2>6. PosTypes'
    BY <1>1, <2>4, RemoveType DEF Groups, Statuses
  <2>7. OrderTypes' /\ CountTypes'
    BY <1>1, <1>2, <2>4, OrdersType, CountsType DEF Groups
  <2>8. Groups'
    BY <1>1, <2>4, <2>5, <2>6, <2>7 DEF Groups, SweepTypes, RunTypes
  <2> QED BY <2>8, GroupsTypeOK
<1>9. ASSUME NEW why \in FailReasons, NEW q \in BOOLEAN, BuyRetried(o, why, q)
      PROVE  TypeOK'
  <2>1. /\ arms' = [arms EXCEPT ![o.mint][o.rule] = Resent(a, intentSeq + 1)]
        /\ Submit(o.mint, o.rule, {o})
        /\ UNCHANGED <<rules, slotSettled, episodes, countVars, posVars, sweepVars, historyVars>>
    BY <1>9 DEF BuyRetried, a
  <2>2. Resent(a, intentSeq + 1) \in Arm
    BY <1>2, ResentType
  <2>3. arms' \in [Mints -> [AllRules -> Arm]]
    BY <1>3, <2>1, <2>2
  <2>4. TokenTypes' /\ OrderTypes'
    BY <1>1, <1>2, <2>1, <2>3, OrdersType DEF Groups, TokenTypes
  <2>5. Groups'
    BY <1>1, <2>1, <2>4 DEF Groups, CountTypes, PosTypes, SweepTypes, RunTypes
  <2> QED BY <2>5, GroupsTypeOK
<1>10. ASSUME NEW why \in FailReasons, SellRetried(o, why)
       PROVE  TypeOK'
  <2>1. /\ arms' = [arms EXCEPT ![o.mint][o.rule] = Resent(a, intentSeq + 1)]
        /\ Submit(o.mint, o.rule, {o})
        /\ UNCHANGED <<rules, slotSettled, episodes, countVars, posVars, sweepVars, historyVars>>
    BY <1>10 DEF SellRetried, a
  <2>2. Resent(a, intentSeq + 1) \in Arm
    BY <1>2, ResentType
  <2>3. arms' \in [Mints -> [AllRules -> Arm]]
    BY <1>3, <2>1, <2>2
  <2>4. TokenTypes' /\ OrderTypes'
    BY <1>1, <1>2, <2>1, <2>3, OrdersType DEF Groups, TokenTypes
  <2>5. Groups'
    BY <1>1, <2>1, <2>4 DEF Groups, CountTypes, PosTypes, SweepTypes, RunTypes
  <2> QED BY <2>5, GroupsTypeOK
<1>11. ASSUME NEW why \in FailReasons, NEW q \in BOOLEAN, BuyGivenUp(o, why, q)
       PROVE  TypeOK'
  <2>1. PICK b \in Arm :
        /\ rollback_entry(o.rule) /\ remove_position(a.pos)
        /\ StoreArm(o.mint, o.rule, b)
        /\ Report(a.pos, "EntryFailed") /\ Answer({o})
        /\ ForgetEntry(a.pos, o.rule)
        /\ UNCHANGED <<rules, sweepVars, abandoned>>
    BY <1>4, <1>11 DEF BuyGivenUp, a
  <2>2. TokenTypes'
    BY <1>1, <1>2, <2>1, StoreArmType DEF Groups
  <2>3. PosTypes'
    BY <1>1, <2>1, RemoveType DEF Groups, Statuses
  <2>4. OrderTypes' /\ CountTypes' /\ RunTypes'
    BY <1>1, <1>2, <2>1, OrdersType, CountsType, ForgetType DEF Groups
  <2>5. Groups'
    BY <1>1, <2>1, <2>2, <2>3, <2>4 DEF Groups, SweepTypes
  <2> QED BY <2>5, GroupsTypeOK
<1>12. ASSUME NEW why \in FailReasons, SellGivenUp(o, why)
       PROVE  TypeOK'
  <2>1. PICK s \in Statuses :
        /\ decrement_open(o.rule) /\ remove_position(a.pos)
        /\ StoreArm(o.mint, o.rule, Idle("Done"))
        /\ Report(a.pos, s) /\ Answer({o})
        /\ oldRun' = oldRun \ {a.pos}
        /\ UNCHANGED <<rules, sweepVars, abandoned, runEntries>>
    BY <1>12 DEF SellGivenUp, a, Statuses
  <2>2. TokenTypes'
    BY <1>1, <1>2, <1>4, <2>1, StoreArmType DEF Groups
  <2>3. PosTypes'
    BY <1>1, <2>1, RemoveType DEF Groups
  <2>4. OrderTypes' /\ CountTypes'
    BY <1>1, <1>2, <2>1, OrdersType, CountsType DEF Groups
  <2>5. Groups'
    BY <1>1, <2>1, <2>2, <2>3, <2>4 DEF Groups, SweepTypes, RunTypes
  <2> QED BY <2>5, GroupsTypeOK
<1> QED BY <1>5, <1>6, <1>7, <1>8, <1>9, <1>10, <1>11, <1>12 DEF AnswerOrder

\* The operator's commands.
LEMMA OperatorType == ASSUME TypeOK, Operator PROVE TypeOK'
<1> USE DEF countVars, posVars, orderVars, runVars, historyVars, tokenVars, sweepVars
<1>1. Groups
  BY GroupsTypeOK
<1>2. /\ arms \in [Mints -> [AllRules -> Arm]] /\ intentSeq + 1 \in Nat
      /\ Idle("Disarmed") \in Arm /\ Idle("Done") \in Arm
  <2>1. arms \in [Mints -> [AllRules -> Arm]]
    BY <1>1 DEF Groups, TokenTypes
  <2>3. intentSeq + 1 \in Nat
    BY <1>1 DEF Groups, OrderTypes
  <2>2. Idle("Disarmed") \in Arm /\ Idle("Done") \in Arm
    BY IdleTypes DEF ArmTags
  <2> QED BY <2>1, <2>2, <2>3
<1>3. ASSUME NEW new \in [Rules -> ReloadStates], RulesReloaded(new)
      PROVE  TypeOK'
  <2>1. arms' \in [Mints -> [AllRules -> Arm]]
    BY <1>2, <1>3 DEF RulesReloaded
  <2>2. rules' \in [Rules -> RuleStates]
    BY <1>3 DEF RulesReloaded
  <2>3. CountTypes'
    BY <1>1, <1>3 DEF RulesReloaded, Groups, CountTypes
  <2>4. oldRun' \subseteq Nat
    <3>1. DOMAIN positions \subseteq Nat /\ oldRun \subseteq Nat
      BY <1>1 DEF Groups, PosTypes, RunTypes
    <3>2. oldRun' \subseteq oldRun \cup DOMAIN positions
      BY <1>3 DEF RulesReloaded
    <3> QED BY <3>1, <3>2
  <2>5. runEntries' \in [Rules -> Int]
    BY <1>1, <1>3 DEF RulesReloaded, Groups, RunTypes
  <2>6. Groups'
    BY <1>1, <1>3, <2>1, <2>2, <2>3, <2>4, <2>5
       DEF RulesReloaded, Groups, TokenTypes, PosTypes, OrderTypes, SweepTypes, RunTypes
  <2> QED BY <2>6, GroupsTypeOK
<1>4. ASSUME NEW m \in Mints, NEW r \in Manual, NEW exit \in BOOLEAN, ManualBuy(m, r, exit)
      PROVE  TypeOK'
  <2>1. EntryPending(positionSeq + 1, intentSeq + 1, 1) \in Arm
    BY <1>1, <1>2, EntryPendingType DEF Groups, PosTypes
  <2>2. arms' \in [Mints -> [AllRules -> Arm]]
    BY <1>2, <1>4, <2>1, ArmsUpdate DEF ManualBuy
  <2>3. TokenTypes'
    BY <1>1, <1>4, <2>2 DEF ManualBuy, Groups, TokenTypes
  <2>4. PosTypes'
    <3>1. DOMAIN positions' \subseteq 1 .. positionSeq' /\ positionSeq' \in 0 .. MaxPositions
      BY <1>1, <1>4 DEF ManualBuy, Groups, PosTypes
    <3>2. \A q \in DOMAIN positions' : positions'[q] \in [mint : Mints, rule : AllRules]
      BY <1>1, <1>4 DEF ManualBuy, Groups, PosTypes
    <3>3. manualRules' \subseteq Nat /\ status' \in [1 .. MaxPositions -> Statuses]
      BY <1>1, <1>4 DEF ManualBuy, Groups, PosTypes, Report, Statuses
    <3> QED BY <3>1, <3>2, <3>3 DEF PosTypes
  <2>5. OrderTypes'
    BY <1>1, <1>4, OrdersType DEF ManualBuy, Groups
  <2>6. Groups'
    BY <1>1, <1>4, <2>3, <2>4, <2>5 DEF ManualBuy, Groups, CountTypes, SweepTypes, RunTypes
  <2> QED BY <2>6, GroupsTypeOK
<1>5. ASSUME NEW p \in DOMAIN positions
      PROVE  /\ p \in Nat /\ positions[p].mint \in Mints /\ positions[p].rule \in AllRules
             /\ OwnerArm(p) \in Arm
  <2>1. p \in Nat /\ positions[p].mint \in Mints /\ positions[p].rule \in AllRules
    BY <1>1 DEF Groups, PosTypes
  <2> QED BY <1>2, <2>1, ArmsUpdate DEF OwnerArm
<1>6. ASSUME NEW p \in DOMAIN positions, NEW exit \in BOOLEAN, SetManualExit(p, exit)
      PROVE  TypeOK'
  <2>1. PosTypes'
    BY <1>1, <1>5, <1>6 DEF SetManualExit, Groups, PosTypes
  <2>2. Groups'
    BY <1>1, <1>6, <2>1
       DEF SetManualExit, Groups, TokenTypes, CountTypes, OrderTypes, SweepTypes, RunTypes
  <2> QED BY <2>2, GroupsTypeOK
<1>7. ASSUME NEW p \in DOMAIN positions, ManualCloseBuy(p)
      PROVE  TypeOK'
  <2> DEFINE m == positions[p].mint
             r == positions[p].rule
  <2>1. /\ rollback_entry(r) /\ StoreArm(m, r, Idle("Done"))
        /\ remove_position(p) /\ Report(p, "EntryFailed")
        /\ abandoned' = abandoned \cup {OwnerOrder(p)}
        /\ ForgetEntry(p, r)
        /\ UNCHANGED <<rules, orderVars, sweepVars>>
    BY <1>7 DEF ManualCloseBuy
  <2>2. OwnerOrder(p) \in IntentIds
    <3>1. OwnerArm(p).intent \in Nat
      BY <1>5 DEF Arm
    <3> QED BY <1>5, <3>1 DEF OwnerOrder, Intent, IntentIds
  <2>3. m \in Mints /\ r \in AllRules
    BY <1>5
  <2> HIDE DEF m, r
  <2>4. TokenTypes'
    BY <1>1, <1>2, <2>1, <2>3, StoreArmType DEF Groups
  <2>5. PosTypes'
    BY <1>1, <2>1, RemoveType DEF Groups, Statuses
  <2>6. CountTypes' /\ RunTypes'
    BY <1>1, <2>1, <2>3, CountsType, ForgetType DEF Groups
  <2>7. Groups'
    BY <1>1, <2>1, <2>2, <2>4, <2>5, <2>6 DEF Groups, OrderTypes, SweepTypes
  <2> QED BY <2>7, GroupsTypeOK
<1>8. ASSUME NEW p \in DOMAIN positions, NEW portion \in ManualPortions,
             ManualCloseBag(p, portion)
      PROVE  TypeOK'
  <2> DEFINE m == positions[p].mint
             r == positions[p].rule
             a == ExitPending(arms[m][r], intentSeq + 1, 1, "Manual", portion)
  <2>1. portion \in Portions
    <3>1. ManualBps \subseteq 0 .. Bag
      OBVIOUS
    <3> QED BY <3>1, PortionTypes DEF ManualPortions
  <2>2. /\ arms' = [arms EXCEPT ![m][r] = a]
        /\ Submit(m, r, {}) /\ Report(p, "ExitPending")
        /\ UNCHANGED <<rules, slotSettled, episodes, countVars, positions, manualRules,
                       positionSeq, sweepVars, historyVars>>
    BY <1>8 DEF ManualCloseBag
  <2>3. m \in Mints /\ r \in AllRules
    BY <1>5
  <2>4. a \in Arm
    <3>1. arms[m][r] \in Arm
      BY <1>2, <2>3, ArmsUpdate
    <3> QED BY <1>2, <2>1, <3>1, ExitPendingType
  <2> HIDE DEF m, r, a
  <2>5. TokenTypes'
    <3>1. arms' \in [Mints -> [AllRules -> Arm]]
      BY <1>2, <2>2, <2>3, <2>4, ArmsUpdate
    <3> QED BY <1>1, <2>2, <3>1 DEF Groups, TokenTypes
  <2>6. OrderTypes'
    BY <1>1, <2>2, <2>3, OrdersType DEF Groups
  <2>7. PosTypes'
    BY <1>1, <2>2 DEF Groups, PosTypes, Report, Statuses
  <2>8. Groups'
    BY <1>1, <2>2, <2>5, <2>6, <2>7 DEF Groups, CountTypes, SweepTypes, RunTypes
  <2> QED BY <2>8, GroupsTypeOK
<1>9. ASSUME NEW p \in DOMAIN positions, ExternallyCleared(p)
      PROVE  TypeOK'
  <2> DEFINE m == positions[p].mint
             r == positions[p].rule
  <2>1. /\ decrement_open(r) /\ StoreArm(m, r, Idle("Done"))
        /\ remove_position(p) /\ Report(p, "End")
        /\ oldRun' = oldRun \ {p}
        /\ UNCHANGED <<rules, orderVars, sweepVars, abandoned, runEntries>>
    BY <1>9 DEF ExternallyCleared
  <2>2. m \in Mints /\ r \in AllRules
    BY <1>5
  <2> HIDE DEF m, r
  <2>3. TokenTypes'
    BY <1>1, <1>2, <2>1, <2>2, StoreArmType DEF Groups
  <2>4. PosTypes'
    BY <1>1, <2>1, RemoveType DEF Groups, Statuses
  <2>5. CountTypes'
    BY <1>1, <2>1, <2>2, CountsType DEF Groups
  <2>6. Groups'
    BY <1>1, <2>1, <2>3, <2>4, <2>5 DEF Groups, OrderTypes, SweepTypes, RunTypes
  <2> QED BY <2>6, GroupsTypeOK
<1> QED BY <1>3, <1>4, <1>6, <1>7, <1>8, <1>9 DEF Operator

\* Every step of the fold keeps the types.
LEMMA StepType == ASSUME TypeOK, [Next]_vars PROVE TypeOK'
<1>1. CASE Next
  <2>1. CASE Decide
    BY <2>1, DecideType DEF Decide
  <2>2. CASE Evaluation \/ Market \/ Tick
    BY <2>1, <2>2, MarketType DEF Evaluation
  <2>3. CASE Operator
    BY <2>3, OperatorType
  <2>4. CASE \E o \in Orders : AnswerOrder(o)
    BY <2>4, AnswerType
  <2> QED BY <1>1, <2>2, <2>3, <2>4 DEF Next
<1>2. CASE UNCHANGED vars
  BY <1>2 DEF vars, TypeOK, countVars, posVars, orderVars, runVars, historyVars, tokenVars,
              sweepVars
<1> QED BY <1>1, <1>2

\* The state of the fold has the types of EngineState in every reachable
\* state: no arithmetic on counters, shares or attempts leaves its range, and
\* a sell never takes more than the bag.
THEOREM TypeCorrect == Spec => []TypeOK
<1>1. Init => TypeOK
  BY InitType
<1>2. TypeOK /\ [Next]_vars => TypeOK'
  BY StepType
<1> QED BY <1>1, <1>2, PTL DEF Spec
=============================================================================
