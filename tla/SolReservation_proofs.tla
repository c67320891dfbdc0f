------------------------ MODULE SolReservation_proofs ------------------------
(***************************************************************************)
(* What SolReservation promises for every set of positions, every size of  *)
(* buy, balance, ceiling and number of rebuilds: its types; that an ended  *)
(* position holds no SOL back, unless two rebuilds overlap; that exposure  *)
(* stays within max_committed_sol, unless a dispatch meets an unfolded     *)
(* fill, a restart adopts a buy, or two rebuilds overlap; and that no SOL  *)
(* is promised twice, when balances are read in time.                      *)
(*                                                                         *)
(* The guards of dispatch_buy compare sums of sizes.  What SizeOf yields   *)
(* for every set is shown first, by taking a smallest set that would       *)
(* contradict it.                                                          *)
(***************************************************************************)
EXTENDS SolReservation, FiniteSetTheorems, WellFoundedInduction, TLAPS

-----------------------------------------------------------------------------
(* Sums over the buys.                                                     *)

\* A nonempty set of numbers has a least one.
LEMMA Least ==
    ASSUME NEW C \in SUBSET Nat, C # {}
    PROVE  \E n \in C : \A m \in C : n <= m
<1>1. IsWellFoundedOn(OpToRel(<, Nat), Nat)
  BY NatLessThanWellFounded
<1>2. PICK n \in C : \A m \in C : <<m, n>> \notin OpToRel(<, Nat)
  BY <1>1, WFMin
<1>3. \A m \in C : ~(m < n)
  BY <1>2 DEF OpToRel
<1> QED
  BY <1>3

\* A subset of Positions that has a property has a smallest one that has it.
LEMMA Smallest ==
    ASSUME NEW C \in SUBSET SUBSET Positions, C # {}
    PROVE  \E S \in C : \A T \in C : Cardinality(S) <= Cardinality(T)
<1> DEFINE Sizes == {Cardinality(S) : S \in C}
<1>1. \A S \in C : Cardinality(S) \in Nat
  BY SolReservationAssumption, FS_Subset, FS_CardinalityType
<1>2. Sizes \in SUBSET Nat /\ Sizes # {}
  BY <1>1
<1>3. PICK n \in Sizes : \A m \in Sizes : n <= m
  BY <1>2, Least
<1> QED
  BY <1>3

\* A subset loses an element.
LEMMA Remove ==
    ASSUME NEW S \in SUBSET Positions, NEW p \in S
    PROVE  /\ S \ {p} \in SUBSET Positions
           /\ Cardinality(S) \in Nat /\ Cardinality(S \ {p}) \in Nat
           /\ Cardinality(S \ {p}) < Cardinality(S)
  BY SolReservationAssumption, FS_Subset, FS_CardinalityType, FS_RemoveElement

Chosen(S) == CHOOSE p \in S : TRUE
StepOf(f, S) == IF S = {} THEN 0 ELSE Size[Chosen(S)] + f[S \ {Chosen(S)}]
SumOver(P, f) == f = [S \in SUBSET P |-> StepOf(f, S)]

LEMMA ChosenIn == ASSUME NEW S, S # {} PROVE Chosen(S) \in S
  BY DEF Chosen

LEMMA SizeOfIs ==
    ASSUME NEW S \in SUBSET Positions
    PROVE  SizeOf(S) = (CHOOSE f : SumOver(S, f))[S]
  BY Zenon DEF SizeOf, MapThenSumSet, MapThenFoldSet, SumOver, StepOf, Chosen

UpTo(P, n, f) ==
    /\ f = [S \in SUBSET P |-> f[S]]
    /\ \A S \in SUBSET P : Cardinality(S) <= n => f[S] = StepOf(f, S)

LEMMA PartialSums ==
    ASSUME NEW P \in SUBSET Positions, NEW n \in Nat
    PROVE  \E f : UpTo(P, n, f)
<1> DEFINE Bad == {m \in Nat : ~\E f : UpTo(P, m, f)}
<1> SUFFICES ASSUME Bad # {} PROVE FALSE
  OBVIOUS
<1>1. PICK m \in Bad : \A k \in Bad : m <= k
  BY Least
<1>2. CASE m = 0
  <2> DEFINE zero == [S \in SUBSET P |-> 0]
  <2>1. \A S \in SUBSET P : Cardinality(S) <= 0 => S = {}
    BY SolReservationAssumption, FS_Subset, FS_EmptySet, FS_CardinalityType
  <2>2. \A S \in SUBSET P : Cardinality(S) <= 0 => zero[S] = StepOf(zero, S)
    BY <2>1 DEF StepOf
  <2>3. UpTo(P, 0, zero)
    BY <2>2 DEF UpTo
  <2> QED
    BY <1>1, <1>2, <2>3
<1>3. CASE m # 0
  <2>1. m - 1 \in Nat /\ m - 1 \notin Bad
    BY <1>1, <1>3
  <2>2. PICK f : UpTo(P, m - 1, f)
    BY <2>1
  <2> DEFINE g == [S \in SUBSET P |-> StepOf(f, S)]
  <2>3. ASSUME NEW S \in SUBSET P, Cardinality(S) <= m
        PROVE  g[S] = StepOf(g, S)
    <3>1. CASE S = {}
      BY <3>1 DEF StepOf
    <3>2. CASE S # {}
      <4>1. Chosen(S) \in S
        BY <3>2, ChosenIn
      <4> DEFINE T == S \ {Chosen(S)}
      <4>2. T \in SUBSET P /\ Cardinality(T) <= m - 1
        BY <4>1, Remove, <2>3
      <4>3. f[T] = StepOf(f, T) /\ g[T] = StepOf(f, T)
        BY <2>2, <4>2 DEF UpTo
      <4>4. g[S] = StepOf(f, S)
        OBVIOUS
      <4> QED
        BY <3>2, <4>3, <4>4 DEF StepOf
    <3> QED
      BY <3>1, <3>2
  <2>4. UpTo(P, m, g)
    BY <2>3 DEF UpTo
  <2> QED
    BY <1>1, <2>4
<1> QED
  BY <1>2, <1>3

LEMMA SumExists ==
    ASSUME NEW P \in SUBSET Positions
    PROVE  SumOver(P, CHOOSE f : SumOver(P, f))
<1>1. Cardinality(P) \in Nat /\ \A S \in SUBSET P : Cardinality(S) <= Cardinality(P)
  BY SolReservationAssumption, FS_Subset, FS_CardinalityType
<1>2. PICK f : UpTo(P, Cardinality(P), f)
  BY <1>1, PartialSums
<1>3. \A S \in SUBSET P : f[S] = StepOf(f, S)
  BY <1>1, <1>2 DEF UpTo
<1>4. f = [S \in SUBSET P |-> f[S]]
  BY <1>2 DEF UpTo
<1>5. SumOver(P, f)
  BY <1>3, <1>4, Zenon DEF SumOver
<1> QED
  BY <1>5

\* Sums over two sets agree on the subsets of both.
LEMMA SumsAgree ==
    ASSUME NEW P \in SUBSET Positions, NEW Q \in SUBSET P,
           NEW f, SumOver(P, f), NEW g, SumOver(Q, g)
    PROVE  \A S \in SUBSET Q : f[S] = g[S]
<1> DEFINE Bad == {S \in SUBSET Q : f[S] # g[S]}
<1> SUFFICES ASSUME Bad # {} PROVE FALSE
  OBVIOUS
<1>1. PICK S \in Bad : \A T \in Bad : Cardinality(S) <= Cardinality(T)
  BY Smallest
<1>2. /\ \A T \in SUBSET P : f[T] = StepOf(f, T)
      /\ \A T \in SUBSET Q : g[T] = StepOf(g, T)
  <2>1. \A T \in SUBSET P : f[T] = [U \in SUBSET P |-> StepOf(f, U)][T]
    BY DEF SumOver
  <2>2. \A T \in SUBSET Q : g[T] = [U \in SUBSET Q |-> StepOf(g, U)][T]
    BY DEF SumOver
  <2> QED
    BY <2>1, <2>2
<1>3. S # {}
  BY <1>2 DEF StepOf
<1>4. Chosen(S) \in S
  BY <1>3, ChosenIn
<1> DEFINE T == S \ {Chosen(S)}
<1>5. T \in SUBSET Q /\ Cardinality(T) < Cardinality(S) /\ Cardinality(T) \in Nat /\ Cardinality(S) \in Nat
  BY <1>4, Remove
<1>6. f[T] = g[T]
  BY <1>1, <1>5
<1>7. f[S] = g[S]
  BY <1>2, <1>3, <1>6 DEF StepOf
<1> QED
  BY <1>7

LEMMA SizeOfStep ==
    ASSUME NEW S \in SUBSET Positions
    PROVE  SizeOf(S) = IF S = {} THEN 0 ELSE Size[Chosen(S)] + SizeOf(S \ {Chosen(S)})
<1> DEFINE f == CHOOSE f : SumOver(S, f)
           T == S \ {Chosen(S)}
           g == CHOOSE g : SumOver(T, g)
<1>1. SumOver(S, f) /\ SumOver(T, g)
  BY SumExists
<1>2. SizeOf(S) = f[S] /\ SizeOf(T) = g[T]
  BY SizeOfIs
<1> HIDE DEF f, g
<1>3. f[T] = g[T]
  BY <1>1, SumsAgree
<1>4. f[S] = [U \in SUBSET S |-> StepOf(f, U)][S]
  BY <1>1 DEF SumOver
<1>5. f[S] = StepOf(f, S)
  BY <1>4
<1> QED
  BY <1>2, <1>3, <1>5 DEF StepOf

LEMMA SizeOfEmpty == SizeOf({}) = 0
  BY SizeOfStep

LEMMA SizeOfType ==
    ASSUME NEW S \in SUBSET Positions
    PROVE  SizeOf(S) \in Nat
<1> DEFINE Bad == {T \in SUBSET Positions : SizeOf(T) \notin Nat}
<1> SUFFICES ASSUME Bad # {} PROVE FALSE
  OBVIOUS
<1>1. PICK T \in Bad : \A U \in Bad : Cardinality(T) <= Cardinality(U)
  BY Smallest
<1>2. T # {}
  <2>1. SizeOf(T) \notin Nat
    OBVIOUS
  <2> QED
    BY <2>1, SizeOfEmpty
<1>3. Chosen(T) \in T
  BY <1>2, ChosenIn
<1>4. SizeOf(T \ {Chosen(T)}) \in Nat
  BY <1>1, <1>3, Remove
<1>5. Size[Chosen(T)] \in Nat
  BY <1>3, SolReservationAssumption
<1> QED
  BY <1>1, <1>2, <1>4, <1>5, SizeOfStep

\* The size of a set is that of any of its members and of the rest.
LEMMA SizeOfRemove ==
    ASSUME NEW S \in SUBSET Positions, NEW p \in S
    PROVE  SizeOf(S) = Size[p] + SizeOf(S \ {p})
<1> DEFINE Bad == {T \in SUBSET Positions :
                     \E q \in T : SizeOf(T) # Size[q] + SizeOf(T \ {q})}
<1> SUFFICES ASSUME Bad # {} PROVE FALSE
  OBVIOUS
<1>1. PICK T \in Bad : \A U \in Bad : Cardinality(T) <= Cardinality(U)
  BY Smallest
<1>2. PICK q \in T : SizeOf(T) # Size[q] + SizeOf(T \ {q})
  OBVIOUS
<1>3. PICK x \in T : SizeOf(T) = Size[x] + SizeOf(T \ {x})
  <2>1. Chosen(T) \in T
    BY <1>2, ChosenIn
  <2> QED
    BY <1>2, <2>1, SizeOfStep
<1>4. x # q
  BY <1>2, <1>3
<1>5. \A y \in T : T \ {y} \in SUBSET Positions /\ T \ {y} \notin Bad
  <2>1. ASSUME NEW y \in T
        PROVE  T \ {y} \in SUBSET Positions /\ T \ {y} \notin Bad
    <3>1. T \in SUBSET Positions
      OBVIOUS
    <3>2. /\ T \ {y} \in SUBSET Positions
          /\ Cardinality(T) \in Nat /\ Cardinality(T \ {y}) \in Nat
          /\ Cardinality(T \ {y}) < Cardinality(T)
      BY <3>1, Remove
    <3> HIDE DEF Bad
    <3> QED
      BY <1>1, <3>2
  <2> QED
    BY <2>1
<1>6. SizeOf(T \ {x}) = Size[q] + SizeOf((T \ {x}) \ {q})
  BY <1>4, <1>5
<1>7. SizeOf(T \ {q}) = Size[x] + SizeOf((T \ {q}) \ {x})
  BY <1>4, <1>5
<1>8. (T \ {x}) \ {q} = (T \ {q}) \ {x}
  OBVIOUS
<1>9. /\ Size[q] \in Nat /\ Size[x] \in Nat
      /\ SizeOf((T \ {q}) \ {x}) \in Nat
  <2>1. (T \ {q}) \ {x} \in SUBSET Positions
    BY <1>5
  <2> QED
    BY <2>1, SizeOfType, SolReservationAssumption
<1>10. SizeOf(T) = Size[q] + SizeOf(T \ {q})
  <2> DEFINE r == SizeOf((T \ {q}) \ {x})
  <2>1. SizeOf(T \ {x}) = Size[q] + r
    BY <1>6, <1>8
  <2>2. SizeOf(T \ {q}) = Size[x] + r
    BY <1>7
  <2>3. r \in Nat
    BY <1>9
  <2> HIDE DEF r
  <2> QED
    BY <1>3, <1>9, <2>1, <2>2, <2>3
<1> QED
  BY <1>2, <1>10

LEMMA SizeOfAdd ==
    ASSUME NEW S \in SUBSET Positions, NEW p \in Positions, p \notin S
    PROVE  SizeOf(S \cup {p}) = Size[p] + SizeOf(S)
<1>1. S \cup {p} \in SUBSET Positions /\ p \in S \cup {p} /\ (S \cup {p}) \ {p} = S
  OBVIOUS
<1> QED
  BY <1>1, SizeOfRemove, Zenon

\* The size of two disjoint sets is the sum of theirs.
LEMMA SizeOfUnion ==
    ASSUME NEW S \in SUBSET Positions, NEW T \in SUBSET Positions, S \cap T = {}
    PROVE  SizeOf(S \cup T) = SizeOf(S) + SizeOf(T)
<1> DEFINE Bad == {U \in SUBSET Positions :
                     S \cap U = {} /\ SizeOf(S \cup U) # SizeOf(S) + SizeOf(U)}
<1> SUFFICES ASSUME Bad # {} PROVE FALSE
  OBVIOUS
<1>1. PICK U \in Bad : \A V \in Bad : Cardinality(U) <= Cardinality(V)
  BY Smallest
<1>2. S \cup {} = S /\ SizeOf(S) + 0 = SizeOf(S)
  BY SizeOfType
<1>3. U # {}
  BY <1>2, SizeOfEmpty
<1>4. PICK p \in U : TRUE
  BY <1>3
<1> DEFINE V == U \ {p}
<1>5. V \in SUBSET Positions /\ V \notin Bad
  BY <1>1, Remove
<1>6. SizeOf(S \cup V) = SizeOf(S) + SizeOf(V)
  BY <1>5
<1>7. SizeOf(U) = Size[p] + SizeOf(V)
  BY SizeOfRemove
<1>8. SizeOf(S \cup U) = Size[p] + SizeOf(S \cup V)
  <2>1. /\ S \cup U \in SUBSET Positions /\ p \in S \cup U
        /\ (S \cup U) \ {p} = S \cup V
    <3>1. U \in SUBSET Positions /\ S \cap U = {}
      OBVIOUS
    <3> QED
      BY <3>1
  <2>2. SizeOf(S \cup U) = Size[p] + SizeOf((S \cup U) \ {p})
    BY <2>1, SizeOfRemove
  <2> QED
    BY <2>1, <2>2
<1>9. SizeOf(S) \in Nat /\ SizeOf(V) \in Nat /\ Size[p] \in Nat
  BY <1>5, SizeOfType, SolReservationAssumption
<1> QED
  BY <1>6, <1>7, <1>8, <1>9

LEMMA SizeOfSubset ==
    ASSUME NEW T \in SUBSET Positions, NEW S \in SUBSET T
    PROVE  SizeOf(S) <= SizeOf(T)
<1>1. /\ S \in SUBSET Positions /\ T \ S \in SUBSET Positions
      /\ S \cap (T \ S) = {} /\ S \cup (T \ S) = T
  OBVIOUS
<1>2. SizeOf(T) = SizeOf(S) + SizeOf(T \ S)
  BY <1>1, SizeOfUnion, Zenon
<1> QED
  BY <1>1, <1>2, SizeOfType

-----------------------------------------------------------------------------
(* Types.                                                                  *)

Balances == [lamports : Nat, slot : Nat]
Marks == [kind : {"none", "held"} \cup Settled, age : Ages]
Ledgers == [Traders -> [Positions -> Marks]]
States == {"idle"} \cup Registered \cup Ended

\* A balance is dated with a slot that has passed.
Dated == \A v \in 1 .. Now : hist[v].slot \in 1 .. v

\* A settled earmark is one of a buy that landed.
SettledLanded ==
    \A t \in Traders, p \in Positions : ledger[t][p].kind \in Settled => landed[p] # 0

Types ==
    /\ hist \in Seq(Balances) /\ hist # <<>> /\ Dated
    /\ pos \in [Positions -> States]
    /\ landed \in [Positions -> 0 .. Now]
    /\ ledger \in Ledgers /\ SettledLanded
    /\ reading \in [version : 0 .. Now, push : BOOLEAN] /\ pushed \in 0 .. Now
    /\ current \in Traders /\ holder \in [Positions -> Traders]
    /\ rebuild \in [Traders -> Traders \cup {NoTrader}]
    /\ seen \in 0 .. Now
    /\ transfer \in [pending : BOOLEAN, version : 0 .. Now]
    /\ events \in 0 .. MaxEvents

\* The greater of two numbers, and of one.
LEMMA MaxOfTwo ==
    ASSUME NEW a \in Nat, NEW b \in Nat
    PROVE  /\ Max({a, b}) \in {a, b} /\ Max({a, b}) >= a /\ Max({a, b}) >= b
           /\ b >= a => Max({a, b}) = b
<1>1. \E x \in {a, b} : \A y \in {a, b} : x >= y
  <2>1. CASE a >= b
    BY <2>1
  <2>2. CASE b >= a
    BY <2>2
  <2> QED
    BY <2>1, <2>2
<1>2. /\ Max({a, b}) \in {a, b}
      /\ \A y \in {a, b} : Max({a, b}) >= y
  BY <1>1, Zenon DEF Max
<1> QED
  BY <1>2

LEMMA MaxOfOne ==
    ASSUME NEW a \in Nat
    PROVE  Max({a}) = a
  BY MaxOfTwo

LEMMA NowType ==
    ASSUME Types
    PROVE  /\ Now \in Nat /\ Now >= 1 /\ hist[Now] \in Balances /\ Wallet \in Nat
           /\ \A v \in 1 .. Now : hist[v].lamports \in Nat /\ hist[v].slot \in Nat
<1>1. hist \in Seq(Balances) /\ hist # <<>>
  BY DEF Types
<1>2. Now \in Nat /\ Now >= 1
  BY <1>1 DEF Now
<1>3. \A v \in 1 .. Now : hist[v] \in Balances
  BY <1>1 DEF Now
<1>4. \A b \in Balances : b.lamports \in Nat /\ b.slot \in Nat
  BY DEF Balances
<1> QED
  BY <1>2, <1>3, <1>4 DEF Wallet

LEMMA MarkType ==
    /\ \A kind \in {"none", "held"} \cup Settled : Mark(kind) \in Marks /\ Mark(kind).kind = kind
                                                   /\ Mark(kind).age = "fresh"
    /\ NoMark \in Marks /\ NoMark.kind = "none" /\ NoMark.age = "fresh"
    /\ NoMarks \in [Positions -> Marks] /\ \A p \in Positions : NoMarks[p] = NoMark
    /\ "none" \notin Settled /\ "held" \notin Settled
  BY DEF Mark, NoMark, NoMarks, Marks, Settled, Ages

\* The wallet gets a new balance.
LEMMA ChangesType ==
    ASSUME Types, NEW amount \in Nat, Changes(amount)
    PROVE  /\ hist' \in Seq(Balances) /\ hist' # <<>> /\ Now' = Now + 1 /\ Dated'
           /\ \A v \in 1 .. Now : hist'[v] = hist[v]
           /\ Wallet' = amount /\ hist'[Now + 1].lamports = amount
           /\ "same_slot" \notin Faults => hist'[Now + 1].slot = hist[Now].slot + 1
<1>1. PICK slot \in {hist[Now].slot + 1}
                    \cup (IF "same_slot" \in Faults THEN {hist[Now].slot} ELSE {}) :
             hist' = Append(hist, [lamports |-> amount, slot |-> slot])
  BY DEF Changes
<1>2. hist[Now].slot \in 1 .. Now /\ Now \in Nat /\ Now >= 1 /\ Len(hist) = Now
  BY NowType DEF Types, Dated, Now
<1>3. slot \in 1 .. Now + 1 /\ ("same_slot" \notin Faults => slot = hist[Now].slot + 1)
  BY <1>1, <1>2
<1>4. [lamports |-> amount, slot |-> slot] \in Balances /\ hist \in Seq(Balances)
  BY <1>3 DEF Balances, Types
<1>5. /\ hist' \in Seq(Balances) /\ Len(hist') = Now + 1
      /\ \A v \in 1 .. Now : hist'[v] = hist[v]
      /\ hist'[Now + 1] = [lamports |-> amount, slot |-> slot]
  BY <1>1, <1>2, <1>4
<1>6. Now' = Now + 1 /\ Wallet' = amount
  BY <1>5 DEF Now, Wallet
<1>7. Dated'
  <2>1. \A v \in 1 .. Now + 1 : hist'[v].slot \in 1 .. v
    <3>1. ASSUME NEW v \in 1 .. Now + 1
          PROVE  hist'[v].slot \in 1 .. v
      <4>1. CASE v = Now + 1
        BY <4>1, <1>5, <1>3
      <4>2. CASE v # Now + 1
        BY <4>2, <1>5, <1>2 DEF Types, Dated
      <4> QED
        BY <4>1, <4>2
    <3> QED
      BY <3>1
  <2> QED
    BY <2>1, <1>6 DEF Dated
<1> QED
  BY <1>2, <1>3, <1>5, <1>6, <1>7

-----------------------------------------------------------------------------
(* What each operation does to an earmark.                                 *)

LEMMA Released ==
    ASSUME Types, NEW T, NEW p \in Positions, release_sol(T, p)
    PROVE  /\ ledger' \in Ledgers
           /\ \A t \in Traders, q \in Positions :
                ledger'[t][q] = IF t \in T /\ q = p THEN NoMark ELSE ledger[t][q]
  BY MarkType DEF release_sol, Ledgers, Types

LEMMA SettledBy ==
    ASSUME Types, NEW T, NEW p \in Positions, NEW kind \in Settled, settle_sol(T, p, kind)
    PROVE  /\ ledger' \in Ledgers
           /\ \A t \in Traders, q \in Positions :
                ledger'[t][q] = IF t \in T /\ q = p /\ ledger[t][p].kind = "held"
                                THEN Mark(kind) ELSE ledger[t][q]
<1>1. Mark(kind) \in Marks
  BY MarkType
<1> QED
  BY <1>1 DEF settle_sol, Ledgers, Types

\* An earmark is kept, or dropped because a reading shows its buy.
KeptOrCovered(q) ==
    \/ ledger'[current][q] = ledger[current][q]
    \/ ~holds(q) /\ ledger'[current][q] = NoMark

LEMMA RetainedType ==
    ASSUME Types
    PROVE  /\ Retained \in [Positions -> Marks]
           /\ \A q \in Positions : Retained[q] = ledger[current][q] \/ (~holds(q) /\ Retained[q] = NoMark)
<1>1. \A q \in Positions : ledger[current][q] \in Marks
  BY DEF Types, Ledgers
<1>2. \A q \in Positions : Retained[q] = IF holds(q) THEN ledger[current][q] ELSE NoMark
  BY DEF Retained
<1>3. Retained = [q \in Positions |-> IF holds(q) THEN ledger[current][q] ELSE NoMark]
  BY DEF Retained
<1>4. \A q \in Positions : (IF holds(q) THEN ledger[current][q] ELSE NoMark) \in Marks
  BY <1>1, MarkType
<1> QED
  BY <1>2, <1>3, <1>4

Granted(p) ==
    /\ pos' = [pos EXCEPT ![p] = "entering"]
    /\ Size[p] + open_exposure_lamports(p) <= MaxCommitted
    /\ \/ ledger[current][p] # NoMark /\ ledger' = ledger
       \/ /\ ledger[current][p] = NoMark /\ free_lamports_cover(Size[p])
          /\ ledger'[current][p] = Mark("held")

Refused(p) == pos' = [pos EXCEPT ![p] = "failing"] /\ KeptOrCovered(p)

LEMMA Guarded ==
    ASSUME Types, NEW p \in Positions, max_committed_sol_guard(p)
    PROVE  /\ ledger' \in Ledgers
           /\ \A t \in Traders : t # current => ledger'[t] = ledger[t]
           /\ \A q \in Positions : q # p => KeptOrCovered(q)
           /\ Granted(p) \/ Refused(p)
<1> DEFINE kept == IF reading.version = 0 THEN ledger[current] ELSE Retained
<1>1. /\ kept \in [Positions -> Marks]
      /\ \A q \in Positions : kept[q] = ledger[current][q] \/ (~holds(q) /\ kept[q] = NoMark)
  BY RetainedType DEF Types, Ledgers
<1>2. ledger \in Ledgers /\ current \in Traders
  BY DEF Types
<1>3. open_exposure_lamports(p) \in Nat /\ Size[p] \in Nat /\ MaxCommitted \in Nat
  <2>1. {q \in Positions \ {p} : \/ pos[q] \in {"holding", "exiting"}
                                 \/ pos[q] \in Registered /\ ledger[current][q] # NoMark}
           \in SUBSET Positions
    OBVIOUS
  <2> QED
    BY <2>1, SizeOfType, SolReservationAssumption DEF open_exposure_lamports
<1>4. CASE ledger' = ledger /\ pos' = [pos EXCEPT ![p] = "failing"]
  BY <1>2, <1>4 DEF Refused, KeptOrCovered
<1>5. CASE try_reserve_buy(p) /\ Size[p] + open_exposure_lamports(p) <= MaxCommitted
  <2>1. CASE ledger[current][p] # NoMark
    <3>1. ledger' = ledger /\ pos' = [pos EXCEPT ![p] = "entering"]
      BY <1>5, <2>1 DEF try_reserve_buy, Goto
    <3> QED
      BY <1>2, <1>5, <2>1, <3>1 DEF Granted, KeptOrCovered
  <2>2. CASE ledger[current][p] = NoMark /\ free_lamports_cover(Size[p])
    <3>1. /\ pos' = [pos EXCEPT ![p] = "entering"]
          /\ ledger' = [ledger EXCEPT ![current] = [kept EXCEPT ![p] = Mark("held")]]
      BY <1>5, <2>2 DEF try_reserve_buy, Goto
    <3>2. Mark("held") \in Marks
      BY MarkType
    <3> HIDE DEF kept
    <3>3. /\ ledger' \in Ledgers
          /\ \A t \in Traders : t # current => ledger'[t] = ledger[t]
          /\ ledger'[current][p] = Mark("held")
          /\ \A q \in Positions : q # p => ledger'[current][q] = kept[q]
      BY <1>1, <1>2, <3>1, <3>2 DEF Ledgers
    <3> QED
      BY <1>1, <1>5, <2>2, <3>1, <3>3 DEF Granted, KeptOrCovered
  <2>3. CASE ledger[current][p] = NoMark /\ ~free_lamports_cover(Size[p])
    <3>1. /\ pos' = [pos EXCEPT ![p] = "failing"]
          /\ ledger' = [ledger EXCEPT ![current] = kept]
      BY <1>5, <2>3 DEF try_reserve_buy, Goto
    <3> HIDE DEF kept
    <3>3. /\ ledger' \in Ledgers
          /\ \A t \in Traders : t # current => ledger'[t] = ledger[t]
          /\ ledger'[current] = kept
      BY <1>1, <1>2, <3>1 DEF Ledgers
    <3> QED
      BY <1>1, <3>1, <3>3 DEF Refused, KeptOrCovered
  <2> QED
    BY <2>1, <2>2, <2>3
<1>6. \/ ledger' = ledger /\ pos' = [pos EXCEPT ![p] = "failing"]
      \/ try_reserve_buy(p) /\ Size[p] + open_exposure_lamports(p) <= MaxCommitted
  BY <1>3 DEF max_committed_sol_guard, Goto
<1> QED
  BY <1>4, <1>5, <1>6

\* A reading covers the aged earmarks of the current trader.
LEMMA Cached ==
    ASSUME Types, NEW v \in 1 .. Now, NEW push \in BOOLEAN, Cache(v, push)
    PROVE  /\ ledger' \in Ledgers
           /\ \A t \in Traders : t # current => ledger'[t] = ledger[t]
           /\ \A q \in Positions :
                /\ ledger'[current][q].kind = ledger[current][q].kind
                /\ ledger[current][q].age # "aged" => ledger'[current][q] = ledger[current][q]
           /\ reading' = [version |-> v, push |-> push]
           /\ seen' \in 0 .. Now /\ seen' >= seen /\ seen' >= v /\ (v >= seen => seen' = v)
<1>1. ledger \in Ledgers /\ current \in Traders /\ seen \in 0 .. Now /\ Now \in Nat
  BY NowType DEF Types
<1>2. seen' = Max({seen, v}) /\ seen \in Nat /\ v \in Nat
  BY <1>1 DEF Cache
<1>3. /\ seen' \in {seen, v} /\ seen' >= seen /\ seen' >= v /\ (v >= seen => seen' = v)
  BY <1>2, MaxOfTwo
<1>4. \A m \in Marks : [m EXCEPT !.age = "covered"] \in Marks /\ [m EXCEPT !.age = "covered"].kind = m.kind
  BY DEF Marks, Ages
<1> DEFINE new == [p \in Positions |-> IF ledger[current][p].age = "aged"
                                       THEN [ledger[current][p] EXCEPT !.age = "covered"]
                                       ELSE ledger[current][p]]
<1>5. ledger' = [ledger EXCEPT ![current] = new]
  BY DEF Cache
<1>6. /\ new \in [Positions -> Marks]
      /\ \A q \in Positions :
            /\ new[q].kind = ledger[current][q].kind
            /\ ledger[current][q].age # "aged" => new[q] = ledger[current][q]
  BY <1>1, <1>4 DEF Ledgers
<1> HIDE DEF new
<1>7. /\ ledger' \in Ledgers /\ ledger'[current] = new
      /\ \A t \in Traders : t # current => ledger'[t] = ledger[t]
  BY <1>1, <1>5, <1>6 DEF Ledgers
<1> QED
  BY <1>1, <1>3, <1>6, <1>7 DEF Cache

LEMMA Aged ==
    ASSUME Types, NEW p \in Positions, LagPasses(p)
    PROVE  /\ ledger' \in Ledgers
           /\ ledger[current][p].kind \in Settled /\ ledger[current][p].age = "fresh"
           /\ \A t \in Traders, q \in Positions :
                /\ ledger'[t][q].kind = ledger[t][q].kind
                /\ q # p => ledger'[t][q] = ledger[t][q]
                /\ ledger[t][q].kind \notin Settled => ledger'[t][q] = ledger[t][q]
           /\ ledger'[current][p].age = "aged"
<1> DEFINE Settling(t) == ledger[t][p].kind \in Settled /\ ledger[t][p].age = "fresh"
<1>1. ledger \in Ledgers /\ current \in Traders
  BY DEF Types
<1>2. /\ Settling(current)
      /\ ledger' = [t \in Traders |->
                      IF Settling(t) THEN [ledger[t] EXCEPT ![p].age = "aged"] ELSE ledger[t]]
  BY DEF LagPasses
<1>3. \A m \in Marks : /\ [m EXCEPT !.age = "aged"] \in Marks
                       /\ [m EXCEPT !.age = "aged"].kind = m.kind
                       /\ [m EXCEPT !.age = "aged"].age = "aged"
  BY DEF Marks, Ages
<1>4. ASSUME NEW t \in Traders
      PROVE  /\ ledger'[t] \in [Positions -> Marks]
             /\ Settling(t) => ledger'[t][p].age = "aged"
             /\ \A q \in Positions :
                /\ ledger'[t][q].kind = ledger[t][q].kind
                /\ q # p => ledger'[t][q] = ledger[t][q]
                /\ ledger[t][q].kind \notin Settled => ledger'[t][q] = ledger[t][q]
  <2>1. ledger[t] \in [Positions -> Marks]
    BY <1>1 DEF Ledgers
  <2>2. CASE Settling(t)
    <3>1. ledger'[t] = [ledger[t] EXCEPT ![p] = [ledger[t][p] EXCEPT !.age = "aged"]]
      BY <1>2, <2>2
    <3> QED
      BY <1>3, <2>1, <2>2, <3>1
  <2>3. CASE ~Settling(t)
    BY <1>2, <2>1, <2>3
  <2> QED
    BY <2>2, <2>3
<1>5. ledger' \in Ledgers
  BY <1>2, <1>4 DEF Ledgers
<1> QED
  BY <1>1, <1>2, <1>4, <1>5

LEMMA Swapped ==
    ASSUME Types, NEW t \in Traders, RebuildSwaps(t)
    PROVE  /\ t \in Building /\ rebuild[t] \in Traders /\ current' = t
           /\ ledger' \in Ledgers
           /\ \A q \in Positions : ledger'[t][q] = ledger[rebuild[t]][q]
           /\ \A u \in Traders : u # t => (ledger'[u] = ledger[u] \/ ledger'[u] = NoMarks)
           /\ rebuild' = [u \in Traders |-> IF u > t THEN rebuild[u] ELSE NoTrader]
           /\ reading' = Unread /\ pushed' = 0
           /\ UNCHANGED <<hist, pos, landed, holder, seen, transfer, events>>
<1>1. t \in Building /\ ledger \in Ledgers /\ rebuild \in [Traders -> Traders \cup {NoTrader}]
  BY DEF RebuildSwaps, Swap, Types
<1>2. rebuild[t] \in Traders
  BY <1>1 DEF Building
<1> DEFINE Found(u) == \E b \in Building \ {t} : b > t /\ rebuild[b] = u
<1>3. ledger' = [u \in Traders |-> IF u = t THEN ledger[rebuild[t]]
                                   ELSE IF Found(u) THEN ledger[u] ELSE NoMarks]
  BY DEF RebuildSwaps, Swap
<1> HIDE DEF Found
<1>4. ledger' \in Ledgers
  BY <1>1, <1>2, <1>3, MarkType DEF Ledgers
<1> QED
  BY <1>1, <1>2, <1>3, <1>4 DEF RebuildSwaps, Swap

LEMMA Sent ==
    ASSUME Types, NEW v \in 1 .. Now, send_sol(v)
    PROVE  /\ ledger' \in Ledgers
           /\ \A t \in Traders : t # current => ledger'[t] = ledger[t]
           /\ \A q \in Positions : KeptOrCovered(q)
<1>1. ledger' = [ledger EXCEPT ![current] = Retained] /\ ledger \in Ledgers /\ current \in Traders
  BY DEF send_sol, Types
<1> QED
  BY <1>1, RetainedType DEF Ledgers, KeptOrCovered

-----------------------------------------------------------------------------
(* Types are kept.                                                         *)

\* The steps, one by one.
Acts ==
    \/ \E p \in Positions :
        \/ dispatch_buy(p) \/ run_entry(p)
        \/ \E kind \in Settled : emit_entry_filled(p, kind)
        \/ emit_entry_outcome(p) \/ resolve_buy_submitted(p)
        \/ on_entry_failed(p) \/ on_holding(p) \/ Lands(p)
        \/ run_exit(p) \/ on_exit_no_fill(p)
        \/ \E proceeds \in Proceeds : on_end(p, proceeds)
        \/ LagPasses(p)
    \/ \E v \in 1 .. Now : \/ update_balance_lamports_cache(v)
                           \/ update_balance_lamports_at_slot(v)
                           \/ send_sol(v)
    \/ \E t \in Traders : RebuildStarts(t) \/ RebuildSwaps(t)
    \/ TransferLands \/ Crash

LEMMA NextActs ==
    ASSUME [Next]_vars
    PROVE  Acts \/ UNCHANGED vars
  BY Zenon DEF Next, Buying, Selling, Reading, Rebuilding, Transferring, Acts

LEMMA InitTypes == Init => Types
<1> SUFFICES ASSUME Init PROVE Types
  OBVIOUS
<1>1. hist = <<[lamports |-> Balance0, slot |-> 1]>> /\ Balance0 \in Nat /\ MaxEvents \in Nat
  BY SolReservationAssumption DEF Init
<1>2. hist \in Seq(Balances) /\ hist # <<>> /\ Len(hist) = 1 /\ hist[1].slot = 1
  BY <1>1 DEF Balances
<1>3. Now = 1 /\ Dated
  BY <1>2 DEF Now, Dated
<1>4. ledger \in Ledgers /\ SettledLanded
  BY MarkType DEF Init, Ledgers, SettledLanded
<1>5. pos \in [Positions -> States] /\ landed \in [Positions -> 0 .. Now]
  BY <1>3 DEF Init, States
<1>6. reading \in [version : 0 .. Now, push : BOOLEAN] /\ transfer \in [pending : BOOLEAN, version : 0 .. Now]
  BY <1>3 DEF Init, Unread
<1>7. 0 \in Traders
  BY <1>1 DEF Traders
<1> QED
  BY <1>1, <1>2, <1>3, <1>4, <1>5, <1>6, <1>7 DEF Init, Types

\* A step that adds no balance: what it has to show.
LEMMA TypesSameBalance ==
    ASSUME Types, UNCHANGED <<hist, landed>>,
           pos' \in [Positions -> States], ledger' \in Ledgers,
           \A t \in Traders, q \in Positions :
                ledger'[t][q].kind \in Settled => (landed[q] # 0 \/ \E u \in Traders : ledger[u][q].kind \in Settled),
           reading' \in [version : 0 .. Now, push : BOOLEAN], pushed' \in 0 .. Now,
           current' \in Traders, holder' \in [Positions -> Traders],
           rebuild' \in [Traders -> Traders \cup {NoTrader}],
           seen' \in 0 .. Now, transfer' \in [pending : BOOLEAN, version : 0 .. Now],
           events' \in 0 .. MaxEvents
    PROVE  Types'
<1>1. SettledLanded' /\ Now' = Now /\ Dated'
  BY DEF Types, SettledLanded, Dated, Now
<1> QED
  BY <1>1 DEF Types

\* A step of one position that changes neither balance nor reading.
LEMMA TypesPosition ==
    ASSUME Types, OnlyPosition, NEW p \in Positions, NEW pc \in States,
           pos' = [pos EXCEPT ![p] = pc], ledger' \in Ledgers,
           \A t \in Traders, q \in Positions :
                ledger'[t][q].kind \in Settled => (landed[q] # 0 \/ ledger[t][q].kind \in Settled),
           holder' \in [Positions -> Traders]
    PROVE  Types'
<1>1. pos' \in [Positions -> States]
  BY DEF Types
<1> QED
  BY <1>1, TypesSameBalance DEF OnlyPosition, cacheVars, traderVars, Types

LEMMA TypesStep ==
    ASSUME Types, [Next]_vars
    PROVE  Types'
<1>1. CASE UNCHANGED vars
  BY <1>1 DEF vars, Types, Dated, SettledLanded, Now
<1>2. /\ 0 \in Traders /\ current \in Traders /\ holder \in [Positions -> Traders] /\ ledger \in Ledgers
      /\ Now \in Nat
  BY SolReservationAssumption, NowType DEF Traders, Types
<1>3. ASSUME NEW p \in Positions
      PROVE  TaskEnds(p) => holder' \in [Positions -> Traders]
  BY <1>2 DEF TaskEnds
<1>4. {"failing", "entering", "retry", "sent", "filled", "failed", "holding", "exiting", "stuck", "closed"} \subseteq States
  BY DEF States, Registered, Entering, Ended
<1>5. NoMark.kind \notin Settled
  BY MarkType
<1>6. ASSUME NEW p \in Positions, dispatch_buy(p)
      PROVE  Types'
  <2>1. /\ ledger' \in Ledgers
        /\ \A t \in Traders : t # current => ledger'[t] = ledger[t]
        /\ \A q \in Positions : q # p => KeptOrCovered(q)
        /\ Granted(p) \/ Refused(p)
    BY <1>6, Guarded DEF dispatch_buy
  <2>2. Mark("held").kind \notin Settled
    BY MarkType
  <2>3. \A t \in Traders, q \in Positions : ledger'[t][q].kind \in Settled => ledger[t][q].kind \in Settled
    BY <2>1, <2>2, <1>5 DEF KeptOrCovered, Granted, Refused
  <2>4. OnlyPosition /\ holder' = holder
    BY <1>6 DEF dispatch_buy
  <2>5. PICK pc \in {"entering", "failing"} : pos' = [pos EXCEPT ![p] = pc]
    BY <2>1 DEF Granted, Refused
  <2> QED
    BY <1>2, <1>4, <2>1, <2>3, <2>4, <2>5, TypesPosition
<1>7. ASSUME NEW p \in Positions, NEW T, NEW pc \in States,
             pos' = [pos EXCEPT ![p] = pc], OnlyPosition, holder' \in [Positions -> Traders],
             release_sol(T, p) \/ ledger' = ledger
      PROVE  Types'
  <2>1. ledger' \in Ledgers /\ \A t \in Traders, q \in Positions :
            ledger'[t][q].kind \in Settled => ledger[t][q].kind \in Settled
    BY <1>2, <1>5, <1>7, Released
  <2> QED
    BY <1>7, <2>1, TypesPosition
<1>8. ASSUME NEW p \in Positions, NEW T, NEW kind \in Settled, landed[p] # 0,
             pos' = [pos EXCEPT ![p] = "filled"], OnlyPosition, TaskEnds(p),
             settle_sol(T, p, kind)
      PROVE  Types'
  <2>1. ledger' \in Ledgers /\ \A t \in Traders, q \in Positions :
            ledger'[t][q].kind \in Settled => landed[q] # 0 \/ ledger[t][q].kind \in Settled
    <3>1. /\ ledger' \in Ledgers
          /\ \A t \in Traders, q \in Positions :
                ledger'[t][q] = IF t \in T /\ q = p /\ ledger[t][p].kind = "held"
                                THEN Mark(kind) ELSE ledger[t][q]
      BY <1>8, SettledBy
    <3>2. \A t \in Traders, q \in Positions : q = p \/ ledger'[t][q] = ledger[t][q]
      BY <3>1
    <3> QED
      BY <1>8, <3>1, <3>2
  <2> QED
    BY <1>3, <1>4, <1>8, <2>1, TypesPosition
<1>9. ASSUME NEW p \in Positions, run_entry(p)
      PROVE  Types'
  <2>1. OnlyPosition /\ holder' \in [Positions -> Traders]
    BY <1>2, <1>9 DEF run_entry
  <2> QED
    BY <1>4, <1>7, <1>9, <2>1 DEF run_entry, Goto
<1>10. ASSUME NEW p \in Positions, NEW kind \in Settled, emit_entry_filled(p, kind)
       PROVE  Types'
  BY <1>8, <1>10 DEF emit_entry_filled, Goto
<1>11. ASSUME NEW p \in Positions, emit_entry_outcome(p)
       PROVE  Types'
  BY <1>3, <1>4, <1>7, <1>11 DEF emit_entry_outcome, Goto
<1>12. ASSUME NEW p \in Positions, resolve_buy_submitted(p)
       PROVE  Types'
  <2>1. CASE landed[p] # 0
    <3>1. "settled" \in Settled
      BY DEF Settled
    <3> QED
      BY <1>8, <1>12, <2>1, <3>1 DEF resolve_buy_submitted, Goto
  <2>2. CASE landed[p] = 0
    BY <1>3, <1>4, <1>7, <1>12, <2>2 DEF resolve_buy_submitted, Goto
  <2> QED
    BY <2>1, <2>2
<1>13. ASSUME NEW p \in Positions, on_entry_failed(p) \/ on_holding(p) \/ run_exit(p) \/ on_exit_no_fill(p)
       PROVE  Types'
  <2>1. /\ OnlyPosition /\ holder' = holder /\ (release_sol({current}, p) \/ ledger' = ledger)
        /\ \E pc \in {"failed", "holding", "exiting", "stuck"} : pos' = [pos EXCEPT ![p] = pc]
    BY <1>13 DEF on_entry_failed, on_holding, run_exit, on_exit_no_fill, Goto
  <2> QED
    BY <1>2, <1>4, <1>7, <2>1
<1>14. ASSUME NEW p \in Positions, Lands(p)
       PROVE  Types'
  <2>1. /\ Changes(Wallet - Size[p]) /\ Size[p] <= Wallet /\ landed' = [landed EXCEPT ![p] = Now + 1]
        /\ UNCHANGED <<pos, ledger, holder, reading, pushed, seen, current, rebuild, events, transfer>>
    BY <1>14 DEF Lands, cacheVars, traderVars
  <2>2. Wallet - Size[p] \in Nat
    BY <2>1, NowType, SolReservationAssumption
  <2>3. hist' \in Seq(Balances) /\ hist' # <<>> /\ Now' = Now + 1 /\ Dated'
    BY <2>1, <2>2, ChangesType
  <2>4. landed' \in [Positions -> 0 .. Now'] /\ \A q \in Positions : landed[q] # 0 => landed'[q] # 0
    BY <1>2, <2>1, <2>3 DEF Types
  <2>5. SettledLanded'
    BY <2>1, <2>4 DEF SettledLanded, Types
  <2>6. 0 .. Now \subseteq 0 .. Now'
    BY <1>2, <2>3
  <2> QED
    BY <2>1, <2>3, <2>4, <2>5, <2>6 DEF Types
<1>15. ASSUME NEW p \in Positions, NEW proceeds \in Proceeds, on_end(p, proceeds)
       PROVE  Types'
  <2>1. /\ Changes(Wallet + proceeds) /\ release_sol({current}, p) /\ pos' = [pos EXCEPT ![p] = "closed"]
        /\ UNCHANGED <<landed, holder, reading, pushed, seen, current, rebuild, events, transfer>>
    BY <1>15 DEF on_end, Goto, cacheVars, traderVars
  <2>2. Wallet + proceeds \in Nat
    BY <2>1, NowType, SolReservationAssumption
  <2>3. hist' \in Seq(Balances) /\ hist' # <<>> /\ Now' = Now + 1 /\ Dated'
    BY <2>1, <2>2, ChangesType
  <2>4. ledger' \in Ledgers /\ \A t \in Traders, q \in Positions :
            ledger'[t][q].kind \in Settled => ledger[t][q].kind \in Settled
    BY <1>5, <2>1, Released
  <2>5. SettledLanded'
    BY <2>1, <2>4 DEF SettledLanded, Types
  <2>6. 0 .. Now \subseteq 0 .. Now' /\ pos' \in [Positions -> States]
    BY <1>2, <1>4, <2>1, <2>3 DEF Types
  <2> QED
    BY <2>1, <2>3, <2>4, <2>5, <2>6 DEF Types
<1>16. ASSUME TransferLands
       PROVE  Types'
  <2>1. /\ Changes(Wallet - Transfer) /\ Transfer <= Wallet
        /\ transfer' = [pending |-> FALSE, version |-> Now + 1]
        /\ UNCHANGED <<pos, landed, ledger, holder, reading, pushed, seen, current, rebuild, events>>
    BY <1>16 DEF TransferLands, cacheVars, traderVars
  <2>2. Wallet - Transfer \in Nat
    BY <2>1, NowType, SolReservationAssumption
  <2>3. hist' \in Seq(Balances) /\ hist' # <<>> /\ Now' = Now + 1 /\ Dated'
    BY <2>1, <2>2, ChangesType
  <2>4. SettledLanded' /\ 0 .. Now \subseteq 0 .. Now' /\ Now + 1 \in 0 .. Now'
    BY <1>2, <2>1, <2>3 DEF SettledLanded, Types
  <2> QED
    BY <2>1, <2>3, <2>4 DEF Types
<1>17. ASSUME NEW v \in 1 .. Now, update_balance_lamports_cache(v) \/ update_balance_lamports_at_slot(v)
       PROVE  Types'
  <2>1. PICK push \in BOOLEAN : Cache(v, push) /\ OnlyReading
    BY <1>17 DEF update_balance_lamports_cache, update_balance_lamports_at_slot
  <2>2. hist[v].slot \in 0 .. Now
    BY <1>2 DEF Types, Dated
  <2>3. pushed' \in 0 .. Now
    BY <1>17, <2>2 DEF update_balance_lamports_cache, update_balance_lamports_at_slot, Types
  <2>4. ledger' \in Ledgers /\ seen' \in 0 .. Now /\ \A t \in Traders, q \in Positions :
            ledger'[t][q].kind = ledger[t][q].kind
    BY <2>1, Cached
  <2>5. reading' \in [version : 0 .. Now, push : BOOLEAN]
    BY <1>2, <2>1, Cached
  <2> QED
    BY <2>1, <2>3, <2>4, <2>5, TypesSameBalance DEF OnlyReading, traderVars, Types
<1>18. ASSUME NEW p \in Positions, LagPasses(p)
       PROVE  Types'
  <2>1. ledger' \in Ledgers /\ \A t \in Traders, q \in Positions :
            ledger'[t][q].kind = ledger[t][q].kind
    BY <1>18, Aged
  <2>2. OnlyReading /\ UNCHANGED cacheVars
    BY <1>18 DEF LagPasses
  <2> QED
    BY <2>1, <2>2, TypesSameBalance DEF OnlyReading, cacheVars, traderVars, Types
<1>19. ASSUME Event
       PROVE  events' \in 0 .. MaxEvents
  BY <1>19, SolReservationAssumption DEF Event, Types
<1>20. ASSUME NEW v \in 1 .. Now, send_sol(v)
       PROVE  Types'
  <2>1. ledger' \in Ledgers /\ \A t \in Traders, q \in Positions :
            ledger'[t][q].kind \in Settled => ledger[t][q].kind \in Settled
    BY <1>5, <1>20, Sent DEF KeptOrCovered
  <2>2. transfer' \in [pending : BOOLEAN, version : 0 .. Now]
    BY <1>20 DEF send_sol, Types
  <2>3. UNCHANGED <<hist, pos, landed, holder, cacheVars, current, rebuild>> /\ events' \in 0 .. MaxEvents
    BY <1>19, <1>20 DEF send_sol
  <2> QED
    BY <2>1, <2>2, <2>3, TypesSameBalance DEF cacheVars, Types
<1>21. ASSUME NEW t \in Traders, RebuildStarts(t)
       PROVE  Types'
  <2>1. /\ UNCHANGED <<hist, pos, landed, ledger, holder, cacheVars, current, transfer>>
        /\ events' \in 0 .. MaxEvents /\ rebuild' = [rebuild EXCEPT ![t] = current]
    BY <1>19, <1>21 DEF RebuildStarts
  <2>2. rebuild' \in [Traders -> Traders \cup {NoTrader}]
    BY <1>2, <2>1 DEF Types
  <2> QED
    BY <2>1, <2>2, TypesSameBalance DEF cacheVars, Types
<1>22. ASSUME NEW t \in Traders, RebuildSwaps(t)
       PROVE  Types'
  <2>1. /\ rebuild[t] \in Traders /\ current' = t
        /\ ledger' \in Ledgers
        /\ \A q \in Positions : ledger'[t][q] = ledger[rebuild[t]][q]
        /\ \A u \in Traders : u # t => (ledger'[u] = ledger[u] \/ ledger'[u] = NoMarks)
        /\ rebuild' = [u \in Traders |-> IF u > t THEN rebuild[u] ELSE NoTrader]
        /\ reading' = Unread /\ pushed' = 0
        /\ UNCHANGED <<hist, pos, landed, holder, seen, transfer, events>>
    BY <1>22, Swapped
  <2>2. \A u \in Traders, q \in Positions :
            ledger'[u][q].kind \in Settled => \E w \in Traders : ledger[w][q].kind \in Settled
    BY <1>5, <2>1, MarkType
  <2>3. rebuild' \in [Traders -> Traders \cup {NoTrader}]
    BY <2>1 DEF Types
  <2>4. reading' \in [version : 0 .. Now, push : BOOLEAN] /\ pushed' \in 0 .. Now
    BY <1>2, <2>1 DEF Unread
  <2> QED
    BY <2>1, <2>2, <2>3, <2>4, TypesSameBalance DEF Types
<1>23. ASSUME Crash
       PROVE  Types'
  <2>1. /\ pos' = [p \in Positions |-> Adopted(pos[p])]
        /\ ledger' = [t \in Traders |-> NoMarks]
        /\ reading' = Unread /\ pushed' = 0
        /\ rebuild' = [t \in Traders |-> NoTrader]
        /\ holder' = [p \in Positions |-> 0]
        /\ UNCHANGED <<hist, landed, current, seen, transfer>>
        /\ events' \in 0 .. MaxEvents
    BY <1>19, <1>23 DEF Crash
  <2>2. \A pc \in States : Adopted(pc) \in States
    BY <1>4 DEF Adopted
  <2>3. pos' \in [Positions -> States]
    BY <2>1, <2>2 DEF Types
  <2>4. ledger' \in Ledgers /\ \A t \in Traders, q \in Positions : ledger'[t][q].kind \notin Settled
    BY <1>5, <2>1, MarkType DEF Ledgers
  <2>5. reading' \in [version : 0 .. Now, push : BOOLEAN] /\ pushed' \in 0 .. Now
    BY <1>2, <2>1 DEF Unread
  <2> QED
    BY <1>2, <2>1, <2>3, <2>4, <2>5, TypesSameBalance DEF Types
<1> QED
  BY <1>1, <1>6, <1>9, <1>10, <1>11, <1>12, <1>13, <1>14, <1>15, <1>16, <1>17, <1>18, <1>20,
     <1>21, <1>22, <1>23, NextActs DEF Acts

-----------------------------------------------------------------------------
(* The inductive invariants.                                               *)

\* One rebuild at a time, and it found the wallet's trader.
OneRebuild == \A t \in Building : t = current + 1 /\ rebuild[t] = current

\* A position that is over, or has not begun, has no earmark.
Unmarked ==
    \A p \in Positions : pos[p] \in Ended \cup {"idle"} => ledger[current][p] = NoMark

\* A buy that may still land has its earmark.
Earmarked == \A p \in Positions : pos[p] \in Entering => ledger[current][p].kind = "held"

\* Versions have slots of their own.
Slots == \A u, v \in 1 .. Now : u < v => hist[u].slot < hist[v].slot

\* The cache holds the newest version that was ever read.
Freshest == reading.version # 0 => reading.version = seen

\* A buy that no reading shows yet is one in flight, or its earmark is not covered.
Uncovered ==
    \A p \in Positions : landed[p] > seen =>
        \/ pos[p] = "sent"
        \/ /\ pos[p] \in {"filled", "holding"}
           /\ ledger[current][p].kind \in Settled /\ ledger[current][p].age # "covered"

\* What a version of the balance shows is there, or is what the buys took that landed since.
Accounted ==
    \A v \in 1 .. Now : transfer.version <= v =>
        hist[v].lamports <= Wallet + SizeOf({p \in Positions : landed[p] > v})

Pending == IF transfer.pending THEN Transfer ELSE 0
Unlanded == {p \in Positions : pos[p] \in Entering /\ landed[p] = 0}

\* The wallet holds what every buy in flight and a checked transfer will take.
Covered == SizeOf(Unlanded) + Pending + FeeReserve <= Wallet

-----------------------------------------------------------------------------
(* The steps of a position: its earmark is kept, freed or settled.         *)

Kept(p) ==
    /\ ledger'[current][p] = ledger[current][p]
    /\ \/ pos[p] = "entering" /\ pos'[p] \in {"sent", "retry"}
       \/ pos[p] = "sent" /\ landed[p] = 0 /\ pos'[p] = "retry"
       \/ pos[p] = "filled" /\ pos'[p] = "holding"

Freed(p) ==
    /\ ledger'[current][p] = NoMark
    /\ \/ pos[p] = "entering" /\ pos'[p] = "failing"
       \/ pos[p] = "sent" /\ landed[p] = 0 /\ pos'[p] = "failing"
       \/ pos[p] \in {"failing", "retry"} /\ pos'[p] = "failed"
       \/ pos[p] = "holding" /\ pos'[p] = "exiting" /\ ("early_exit" \in Faults \/ landed[p] <= seen)
       \/ pos[p] = "exiting" /\ pos'[p] \in {"stuck", "closed"}

Settles(p) ==
    /\ pos[p] = "sent" /\ landed[p] # 0 /\ pos'[p] = "filled"
    /\ \E kind \in Settled :
        ledger'[current][p] = IF ledger[current][p].kind = "held" THEN Mark(kind) ELSE ledger[current][p]

Moved(p) ==
    /\ UNCHANGED <<landed, reading, seen, transfer, current, rebuild, events>>
    /\ \A q \in Positions : q # p => pos'[q] = pos[q] /\ ledger'[current][q] = ledger[current][q]
    /\ Kept(p) \/ Freed(p) \/ Settles(p)
    /\ \/ hist' = hist /\ pos'[p] # "closed"
       \/ pos'[p] = "closed" /\ \E proceeds \in Proceeds : Changes(Wallet + proceeds)

Moves(p) ==
    \/ run_entry(p) \/ \E kind \in Settled : emit_entry_filled(p, kind)
    \/ emit_entry_outcome(p) \/ resolve_buy_submitted(p)
    \/ on_entry_failed(p) \/ on_holding(p) \/ run_exit(p) \/ on_exit_no_fill(p)
    \/ \E proceeds \in Proceeds : on_end(p, proceeds)

LEMMA MovesMove ==
    ASSUME Types, NEW p \in Positions, Moves(p)
    PROVE  Moved(p)
<1>1. pos \in [Positions -> States] /\ current \in Traders
  BY DEF Types
<1>2. ASSUME NEW pc, pos' = [pos EXCEPT ![p] = pc]
      PROVE  pos'[p] = pc /\ \A q \in Positions : q # p => pos'[q] = pos[q]
  BY <1>1, <1>2
<1>3. ASSUME NEW T, current \in T, release_sol(T, p)
      PROVE  /\ ledger'[current][p] = NoMark
             /\ \A q \in Positions : q # p => ledger'[current][q] = ledger[current][q]
  BY <1>1, <1>3, Released
<1>4. ASSUME NEW T, current \in T, NEW kind \in Settled, settle_sol(T, p, kind)
      PROVE  /\ ledger'[current][p] = IF ledger[current][p].kind = "held" THEN Mark(kind) ELSE ledger[current][p]
             /\ \A q \in Positions : q # p => ledger'[current][q] = ledger[current][q]
  <2>1. \A t \in Traders, q \in Positions :
                ledger'[t][q] = IF t \in T /\ q = p /\ ledger[t][p].kind = "held"
                                THEN Mark(kind) ELSE ledger[t][q]
    BY <1>4, SettledBy
  <2> QED
    BY <1>1, <1>4, <2>1
<1>5. ASSUME OnlyPosition
      PROVE  UNCHANGED <<hist, landed, reading, seen, transfer, current, rebuild, events>>
  BY <1>5 DEF OnlyPosition, cacheVars, traderVars
<1>6. CASE run_entry(p)
  BY <1>2, <1>3, <1>5, <1>6 DEF run_entry, Goto, Moved, Kept, Freed
<1>7. ASSUME NEW kind \in Settled, emit_entry_filled(p, kind)
      PROVE  Moved(p)
  BY <1>2, <1>4, <1>5, <1>7 DEF emit_entry_filled, Goto, Moved, Settles
<1>8. CASE emit_entry_outcome(p)
  BY <1>2, <1>3, <1>5, <1>8 DEF emit_entry_outcome, Goto, Moved, Kept, Freed
<1>9. CASE resolve_buy_submitted(p)
  <2>1. "settled" \in Settled
    BY DEF Settled
  <2>2. CASE landed[p] # 0
    BY <1>2, <1>4, <1>5, <1>9, <2>1, <2>2 DEF resolve_buy_submitted, Goto, Moved, Settles
  <2>3. CASE landed[p] = 0
    BY <1>2, <1>3, <1>5, <1>9, <2>3 DEF resolve_buy_submitted, Goto, Moved, Freed
  <2> QED
    BY <2>2, <2>3
<1>10. CASE on_entry_failed(p)
  BY <1>2, <1>3, <1>5, <1>10 DEF on_entry_failed, Goto, Moved, Freed
<1>11. CASE on_holding(p)
  BY <1>2, <1>5, <1>11 DEF on_holding, Goto, Moved, Kept
<1>12. CASE run_exit(p)
  BY <1>2, <1>3, <1>5, <1>12 DEF run_exit, Goto, Moved, Freed
<1>13. CASE on_exit_no_fill(p)
  BY <1>2, <1>3, <1>5, <1>13 DEF on_exit_no_fill, Goto, Moved, Freed
<1>14. ASSUME NEW proceeds \in Proceeds, on_end(p, proceeds)
       PROVE  Moved(p)
  <2>1. /\ pos[p] = "exiting" /\ Changes(Wallet + proceeds) /\ release_sol({current}, p)
        /\ pos' = [pos EXCEPT ![p] = "closed"]
        /\ UNCHANGED <<landed, reading, seen, transfer, current, rebuild, events>>
    BY <1>14 DEF on_end, Goto, cacheVars, traderVars
  <2> QED
    BY <1>2, <1>3, <2>1 DEF Moved, Freed
<1> QED
  BY <1>6, <1>7, <1>8, <1>9, <1>10, <1>11, <1>12, <1>13, <1>14 DEF Moves

Reads(v) == update_balance_lamports_cache(v) \/ update_balance_lamports_at_slot(v)

\* Every step is one of these.
LEMMA Steps ==
    ASSUME Types, [Next]_vars
    PROVE  \/ \E p \in Positions : dispatch_buy(p) \/ Moved(p) \/ Lands(p) \/ LagPasses(p)
           \/ \E v \in 1 .. Now : Reads(v) \/ send_sol(v)
           \/ \E t \in Traders : RebuildStarts(t) \/ RebuildSwaps(t)
           \/ TransferLands \/ Crash \/ UNCHANGED vars
<1>1. Acts => \/ \E p \in Positions : dispatch_buy(p) \/ Moves(p) \/ Lands(p) \/ LagPasses(p)
              \/ \E v \in 1 .. Now : Reads(v) \/ send_sol(v)
              \/ \E t \in Traders : RebuildStarts(t) \/ RebuildSwaps(t)
              \/ TransferLands \/ Crash
  BY Zenon DEF Acts, Moves, Reads
<1> QED
  BY <1>1, NextActs, MovesMove

-----------------------------------------------------------------------------
(* No earmark is stranded.                                                 *)

LEMMA OneRebuildStep ==
    ASSUME Types, OneRebuild, "two_rebuilds" \notin Faults, [Next]_vars
    PROVE  OneRebuild'
<1>1. /\ Traders = 0 .. MaxEvents /\ NoTrader = MaxEvents + 1 /\ MaxEvents \in Nat
      /\ current \in Traders /\ rebuild \in [Traders -> Traders \cup {NoTrader}]
  BY SolReservationAssumption DEF Traders, NoTrader, Types
<1>2. CASE UNCHANGED <<current, rebuild>>
  BY <1>2 DEF OneRebuild, Building
<1>3. ASSUME NEW t \in Traders, RebuildStarts(t)
      PROVE  OneRebuild'
  <2>1. Building = {} /\ current' = current /\ rebuild' = [rebuild EXCEPT ![t] = current]
        /\ t = Max({current} \cup Building) + 1
    BY <1>3 DEF RebuildStarts
  <2>2. t = current + 1
    <3>1. {current} \cup {} = {current} /\ current \in Nat
      BY <1>1
    <3> QED
      BY <2>1, <3>1, MaxOfOne
  <2>3. ASSUME NEW u \in Building'
        PROVE  u = current' + 1 /\ rebuild'[u] = current'
    <3>1. u \in Traders /\ u > current /\ rebuild'[u] # NoTrader
      BY <2>1, <2>3 DEF Building
    <3>2. u = t
      BY <1>1, <2>1, <3>1 DEF Building
    <3> QED
      BY <1>1, <2>1, <2>2, <3>2
  <2> QED
    BY <2>3 DEF OneRebuild
<1>4. ASSUME NEW t \in Traders, RebuildSwaps(t)
      PROVE  OneRebuild'
  <2>1. /\ t \in Building /\ current' = t
        /\ rebuild' = [u \in Traders |-> IF u > t THEN rebuild[u] ELSE NoTrader]
    BY <1>4, Swapped
  <2>2. t = current + 1
    BY <2>1 DEF OneRebuild
  <2>3. \A u \in Traders : u > t => rebuild[u] = NoTrader
    BY <1>1, <2>2 DEF OneRebuild, Building
  <2>4. \A u \in Traders : rebuild'[u] = NoTrader
    BY <2>1, <2>3
  <2> QED
    BY <2>4 DEF OneRebuild, Building
<1>5. CASE Crash
  <2>1. \A u \in Traders : rebuild'[u] = NoTrader
    BY <1>5 DEF Crash
  <2> QED
    BY <2>1 DEF OneRebuild, Building
<1>6. \/ UNCHANGED <<current, rebuild>> \/ Crash
      \/ \E t \in Traders : RebuildStarts(t) \/ RebuildSwaps(t)
  <2>1. \A p \in Positions : dispatch_buy(p) \/ Moved(p) \/ Lands(p) \/ LagPasses(p)
            => UNCHANGED <<current, rebuild>>
    BY DEF dispatch_buy, Moved, Lands, LagPasses, OnlyPosition, OnlyReading, traderVars
  <2>2. \A v \in 1 .. Now : Reads(v) \/ send_sol(v) => UNCHANGED <<current, rebuild>>
    BY DEF Reads, update_balance_lamports_cache, update_balance_lamports_at_slot, send_sol,
           OnlyReading, traderVars
  <2>3. TransferLands \/ UNCHANGED vars => UNCHANGED <<current, rebuild>>
    BY DEF TransferLands, traderVars, vars
  <2> QED
    BY <2>1, <2>2, <2>3, Steps
<1> QED
  BY <1>2, <1>3, <1>4, <1>5, <1>6

\* A swap leaves the wallet's earmarks as they were.
LEMMA SwapKeeps ==
    ASSUME Types, OneRebuild, NEW t \in Traders, RebuildSwaps(t)
    PROVE  /\ \A q \in Positions : ledger'[current'][q] = ledger[current][q]
           /\ reading' = Unread /\ UNCHANGED <<hist, pos, landed, seen, transfer>>
<1>1. rebuild[t] = current
  BY Swapped DEF OneRebuild
<1> QED
  BY <1>1, Swapped

LEMMA UnmarkedStep ==
    ASSUME Types, OneRebuild, Unmarked, [Next]_vars
    PROVE  Unmarked'
<1>1. pos \in [Positions -> States] /\ current \in Traders
  BY DEF Types
<1>2. ASSUME NEW p \in Positions, dispatch_buy(p)
      PROVE  Unmarked'
  <2>1. /\ current' = current
        /\ \A q \in Positions : q # p => KeptOrCovered(q)
        /\ Granted(p) \/ Refused(p)
    BY <1>2, Guarded DEF dispatch_buy, OnlyPosition, traderVars
  <2>2. pos'[p] \in {"entering", "failing"} /\ \A q \in Positions : q # p => pos'[q] = pos[q]
    BY <1>1, <2>1 DEF Granted, Refused
  <2> QED
    BY <2>1, <2>2 DEF Unmarked, KeptOrCovered, Ended
<1>3. ASSUME NEW p \in Positions, Moved(p)
      PROVE  Unmarked'
  BY <1>3 DEF Moved, Kept, Freed, Settles, Unmarked, Ended
<1>4. CASE UNCHANGED <<pos, ledger, current>>
  BY <1>4 DEF Unmarked
<1>5. ASSUME NEW p \in Positions, LagPasses(p)
      PROVE  Unmarked'
  <2>1. UNCHANGED <<pos, current>>
    BY <1>5 DEF LagPasses, OnlyReading, traderVars
  <2>2. \A q \in Positions : ledger[current][q].kind \notin Settled => ledger'[current][q] = ledger[current][q]
    BY <1>1, <1>5, Aged
  <2> QED
    BY <2>1, <2>2, MarkType DEF Unmarked
<1>6. ASSUME NEW v \in 1 .. Now, Reads(v)
      PROVE  Unmarked'
  <2>1. PICK push \in BOOLEAN : Cache(v, push) /\ OnlyReading
    BY <1>6 DEF Reads, update_balance_lamports_cache, update_balance_lamports_at_slot
  <2>2. UNCHANGED <<pos, current>>
    BY <2>1 DEF OnlyReading, traderVars
  <2>3. \A q \in Positions : ledger[current][q].age # "aged" => ledger'[current][q] = ledger[current][q]
    BY <2>1, Cached
  <2> QED
    BY <2>2, <2>3, MarkType DEF Unmarked
<1>7. ASSUME NEW v \in 1 .. Now, send_sol(v)
      PROVE  Unmarked'
  <2>1. UNCHANGED <<pos, current>> /\ \A q \in Positions : KeptOrCovered(q)
    BY <1>7, Sent DEF send_sol
  <2> QED
    BY <2>1 DEF Unmarked, KeptOrCovered
<1>8. ASSUME NEW t \in Traders, RebuildSwaps(t)
      PROVE  Unmarked'
  BY <1>8, SwapKeeps DEF Unmarked
<1>9. CASE Crash
  <2>1. current' \in Traders /\ ledger' = [t \in Traders |-> NoMarks]
    BY <1>1, <1>9 DEF Crash
  <2> QED
    BY <2>1, MarkType DEF Unmarked
<1>10. /\ \A p \in Positions : Lands(p) => UNCHANGED <<pos, ledger, current>>
       /\ \A t \in Traders : RebuildStarts(t) => UNCHANGED <<pos, ledger, current>>
       /\ TransferLands \/ UNCHANGED vars => UNCHANGED <<pos, ledger, current>>
  BY DEF Lands, RebuildStarts, TransferLands, vars, traderVars
<1> QED
  BY <1>2, <1>3, <1>4, <1>5, <1>6, <1>7, <1>8, <1>9, <1>10, Steps

\* The invariants the theorems share, at the start.
LEMMA InitEarmarks == Init => Types /\ OneRebuild /\ Unmarked /\ Earmarked
<1> SUFFICES ASSUME Init PROVE OneRebuild /\ Unmarked /\ Earmarked
  BY InitTypes
<1>1. \A t \in Traders : rebuild[t] = NoTrader
  BY DEF Init
<1>2. current \in Traders
  BY InitTypes DEF Types
<1> QED
  BY <1>1, <1>2, MarkType DEF Init, OneRebuild, Building, Unmarked, Earmarked, Entering

\* A position that is over holds no SOL back on the wallet's trader, for every
\* timing but two rebuilds of one wallet at once.
THEOREM EarmarksReleased == "two_rebuilds" \notin Faults => (Spec => []NoStrandedEarmark)
<1> SUFFICES ASSUME "two_rebuilds" \notin Faults
             PROVE  Spec => []NoStrandedEarmark
  OBVIOUS
<1> DEFINE Inv == Types /\ OneRebuild /\ Unmarked
<1>1. Init => Inv
  BY InitEarmarks
<1>2. Inv /\ [Next]_vars => Inv'
  BY TypesStep, OneRebuildStep, UnmarkedStep
<1>3. Inv => NoStrandedEarmark
  BY DEF Unmarked, NoStrandedEarmark
<1> QED
  BY <1>1, <1>2, <1>3, PTL DEF Spec

-----------------------------------------------------------------------------
(* The exposure is capped.                                                 *)

LEMMA HeldHolds ==
    ASSUME NEW q \in Positions, ledger[current][q].kind = "held"
    PROVE  holds(q) /\ (KeptOrCovered(q) => ledger'[current][q] = ledger[current][q])
  BY DEF holds, KeptOrCovered

LEMMA EarmarkedStep ==
    ASSUME Types, OneRebuild, Unmarked, Earmarked, "adopted" \notin Faults, [Next]_vars
    PROVE  Earmarked'
<1>1. pos \in [Positions -> States] /\ current \in Traders
  BY DEF Types
<1>2. ASSUME NEW p \in Positions, dispatch_buy(p)
      PROVE  Earmarked'
  <2>1. /\ pos[p] \in {"idle", "retry"} /\ current' = current
        /\ \A q \in Positions : q # p => KeptOrCovered(q)
        /\ Granted(p) \/ Refused(p)
    BY <1>2, Guarded DEF dispatch_buy, OnlyPosition, traderVars
  <2>2. \A q \in Positions : q # p => pos'[q] = pos[q]
    BY <1>1, <2>1 DEF Granted, Refused
  <2>3. pos'[p] \in Entering => ledger'[current][p].kind = "held"
    <3>1. CASE Refused(p)
      BY <1>1, <3>1 DEF Refused, Entering
    <3>2. CASE Granted(p)
      <4>1. ledger[current][p] # NoMark => pos[p] = "retry"
        BY <2>1 DEF Unmarked
      <4>2. Mark("held").kind = "held"
        BY MarkType
      <4> QED
        BY <3>2, <4>1, <4>2 DEF Granted, Earmarked, Entering
    <3> QED
      BY <2>1, <3>1, <3>2
  <2>4. ASSUME NEW q \in Positions, q # p, pos'[q] \in Entering
        PROVE  ledger'[current][q].kind = "held"
    BY <2>1, <2>2, <2>4, HeldHolds DEF Earmarked
  <2> QED
    BY <2>1, <2>3, <2>4 DEF Earmarked
<1>3. ASSUME NEW p \in Positions, Moved(p)
      PROVE  Earmarked'
  BY <1>3 DEF Moved, Kept, Freed, Settles, Earmarked, Entering
<1>4. CASE UNCHANGED <<pos, ledger, current>>
  BY <1>4 DEF Earmarked
<1>5. ASSUME NEW p \in Positions, LagPasses(p)
      PROVE  Earmarked'
  <2>1. UNCHANGED <<pos, current>>
    BY <1>5 DEF LagPasses, OnlyReading, traderVars
  <2>2. \A q \in Positions : ledger'[current][q].kind = ledger[current][q].kind
    BY <1>1, <1>5, Aged
  <2> QED
    BY <2>1, <2>2 DEF Earmarked
<1>6. ASSUME NEW v \in 1 .. Now, Reads(v)
      PROVE  Earmarked'
  <2>1. PICK push \in BOOLEAN : Cache(v, push) /\ OnlyReading
    BY <1>6 DEF Reads, update_balance_lamports_cache, update_balance_lamports_at_slot
  <2>2. UNCHANGED <<pos, current>>
    BY <2>1 DEF OnlyReading, traderVars
  <2>3. \A q \in Positions : ledger'[current][q].kind = ledger[current][q].kind
    BY <2>1, Cached
  <2> QED
    BY <2>2, <2>3 DEF Earmarked
<1>7. ASSUME NEW v \in 1 .. Now, send_sol(v)
      PROVE  Earmarked'
  <2>1. UNCHANGED <<pos, current>> /\ \A q \in Positions : KeptOrCovered(q)
    BY <1>7, Sent DEF send_sol
  <2>2. ASSUME NEW q \in Positions, pos[q] \in Entering
        PROVE  ledger'[current][q].kind = "held"
    BY <2>1, <2>2, HeldHolds DEF Earmarked
  <2> QED
    BY <2>1, <2>2 DEF Earmarked
<1>8. ASSUME NEW t \in Traders, RebuildSwaps(t)
      PROVE  Earmarked'
  BY <1>8, SwapKeeps DEF Earmarked
<1>9. CASE Crash
  <2>1. /\ \A p \in Positions : pos[p] \notin Entering \cup {"failing", "filled"}
        /\ \A p \in Positions : pos'[p] = Adopted(pos[p])
    BY <1>9 DEF Crash
  <2>2. \A p \in Positions : pos'[p] \notin Entering
    BY <2>1 DEF Adopted, Entering
  <2> QED
    BY <2>2 DEF Earmarked
<1>10. /\ \A p \in Positions : Lands(p) => UNCHANGED <<pos, ledger, current>>
       /\ \A t \in Traders : RebuildStarts(t) => UNCHANGED <<pos, ledger, current>>
       /\ TransferLands \/ UNCHANGED vars => UNCHANGED <<pos, ledger, current>>
  BY DEF Lands, RebuildStarts, TransferLands, vars, traderVars
<1> QED
  BY <1>2, <1>3, <1>4, <1>5, <1>6, <1>7, <1>8, <1>9, <1>10, Steps

\* What the ceiling is about: what is open, and what may become so.
Exposed == {p \in Positions : pos[p] \in Registered \ {"failing"}}

\* A step that opens nothing keeps the exposure below the ceiling.
LEMMA NothingOpens ==
    ASSUME ExposureCapped, Exposed' \subseteq Exposed
    PROVE  ExposureCapped'
<1>1. Exposed \in SUBSET Positions /\ Exposed' \in SUBSET Exposed /\ Exposed' \in SUBSET Positions
  BY DEF Exposed
<1>2. SizeOf(Exposed') <= SizeOf(Exposed) /\ SizeOf(Exposed) \in Nat /\ SizeOf(Exposed') \in Nat
  BY <1>1, SizeOfSubset, SizeOfType
<1>3. SizeOf(Exposed) <= MaxCommitted
  BY DEF ExposureCapped, Exposed
<1>4. SizeOf(Exposed') <= MaxCommitted
  BY <1>2, <1>3, SolReservationAssumption
<1> QED
  BY <1>4 DEF ExposureCapped, Exposed

LEMMA CapStep ==
    ASSUME Types, OneRebuild, Unmarked, Earmarked, ExposureCapped,
           "adopted" \notin Faults, "unfolded" \notin Faults, [Next]_vars
    PROVE  ExposureCapped'
<1>1. pos \in [Positions -> States] /\ current \in Traders
  BY DEF Types
<1>2. ASSUME NEW p \in Positions, dispatch_buy(p)
      PROVE  ExposureCapped'
  <2>1. /\ pos[p] \in {"idle", "retry"} /\ \A q \in Positions : pos[q] # "filled"
        /\ Granted(p) \/ Refused(p)
    BY <1>2, Guarded DEF dispatch_buy, Dispatchable
  <2>2. \A q \in Positions : q # p => pos'[q] = pos[q]
    BY <1>1, <2>1 DEF Granted, Refused
  <2>3. CASE pos'[p] = "failing"
    <3>1. Exposed' \subseteq Exposed
      BY <2>2, <2>3 DEF Exposed
    <3> QED
      BY <3>1, NothingOpens
  <2>4. CASE Granted(p)
    <3> DEFINE Others == {q \in Positions \ {p} :
                            \/ pos[q] \in {"holding", "exiting"}
                            \/ pos[q] \in Registered /\ ledger[current][q] # NoMark}
    <3>1. Others \in SUBSET Positions /\ p \notin Others
      OBVIOUS
    <3>2. Size[p] + SizeOf(Others) <= MaxCommitted
      BY <2>4 DEF Granted, open_exposure_lamports
    <3>3. Exposed' \subseteq Others \cup {p}
      <4>1. ASSUME NEW q \in Exposed', q # p
            PROVE  q \in Others
        <5>1. q \in Positions /\ pos[q] \in Registered \ {"failing"}
          BY <2>2, <4>1 DEF Exposed
        <5>2. pos[q] \in Entering => ledger[current][q] # NoMark
          BY <5>1, MarkType DEF Earmarked
        <5> QED
          BY <2>1, <4>1, <5>1, <5>2 DEF Registered
      <4> QED
        BY <4>1 DEF Exposed
    <3>4. SizeOf(Others \cup {p}) = Size[p] + SizeOf(Others)
      BY <3>1, SizeOfAdd
    <3>5. /\ Others \cup {p} \in SUBSET Positions /\ Exposed' \in SUBSET (Others \cup {p})
          /\ Exposed' \in SUBSET Positions
      BY <3>1, <3>3
    <3> HIDE DEF Others
    <3>6. SizeOf(Exposed') <= SizeOf(Others \cup {p}) /\ SizeOf(Exposed') \in Nat
          /\ SizeOf(Others \cup {p}) \in Nat
      BY <3>5, SizeOfSubset, SizeOfType
    <3>7. SizeOf(Exposed') <= MaxCommitted
      BY <3>2, <3>4, <3>6, SolReservationAssumption
    <3> QED
      BY <3>7 DEF ExposureCapped, Exposed
  <2> QED
    BY <1>1, <2>1, <2>3, <2>4 DEF Refused
<1>3. ASSUME NEW p \in Positions, Moved(p)
      PROVE  ExposureCapped'
  <2>1. \A q \in Positions : q # p => pos'[q] = pos[q]
    BY <1>3 DEF Moved
  <2>2. pos'[p] \in Registered \ {"failing"} => pos[p] \in Registered \ {"failing"}
    BY <1>3 DEF Moved, Kept, Freed, Settles, Registered, Entering
  <2>3. Exposed' \subseteq Exposed
    BY <2>1, <2>2 DEF Exposed
  <2> QED
    BY <2>3, NothingOpens
<1>4. CASE UNCHANGED pos
  BY <1>4 DEF ExposureCapped
<1>5. CASE Crash
  <2>1. /\ \A p \in Positions : pos[p] \notin Entering \cup {"failing", "filled"}
        /\ \A p \in Positions : pos'[p] = Adopted(pos[p])
    BY <1>5 DEF Crash
  <2>2. \A p \in Positions : pos'[p] \in Registered => pos[p] \in Registered \ {"failing"}
    BY <2>1 DEF Adopted, Registered
  <2>3. Exposed' \subseteq Exposed
    BY <2>2 DEF Exposed
  <2> QED
    BY <2>3, NothingOpens
<1>6. /\ \A p \in Positions : Lands(p) \/ LagPasses(p) => UNCHANGED pos
      /\ \A v \in 1 .. Now : Reads(v) \/ send_sol(v) => UNCHANGED pos
      /\ \A t \in Traders : RebuildStarts(t) \/ RebuildSwaps(t) => UNCHANGED pos
      /\ TransferLands \/ UNCHANGED vars => UNCHANGED pos
  BY DEF Lands, LagPasses, Reads, update_balance_lamports_cache, update_balance_lamports_at_slot,
         send_sol, RebuildStarts, RebuildSwaps, Swap, TransferLands, vars, OnlyReading
<1> QED
  BY <1>2, <1>3, <1>4, <1>5, <1>6, Steps

\* The SOL in open positions and in buys that may become one never exceeds the
\* ceiling of dispatch_buy, unless a fill is on its way to the engine at a dispatch,
\* a restart adopts a buy, or two rebuilds overlap.
THEOREM ExposureBelowCeiling ==
    Faults \cap {"unfolded", "adopted", "two_rebuilds"} = {} => (Spec => []ExposureCapped)
<1> SUFFICES ASSUME Faults \cap {"unfolded", "adopted", "two_rebuilds"} = {}
             PROVE  Spec => []ExposureCapped
  OBVIOUS
<1>1. "unfolded" \notin Faults /\ "adopted" \notin Faults /\ "two_rebuilds" \notin Faults
  OBVIOUS
<1> DEFINE Inv == Types /\ OneRebuild /\ Unmarked /\ Earmarked /\ ExposureCapped
<1>2. Init => Inv
  <2> SUFFICES ASSUME Init PROVE ExposureCapped
    BY InitEarmarks
  <2>1. {p \in Positions : pos[p] \in Registered \ {"failing"}} = {}
    BY DEF Init, Registered, Entering
  <2> QED
    BY <2>1, SizeOfEmpty, SolReservationAssumption DEF ExposureCapped
<1>3. Inv /\ [Next]_vars => Inv'
  BY <1>1, TypesStep, OneRebuildStep, UnmarkedStep, EarmarkedStep, CapStep
<1> QED
  BY <1>2, <1>3, PTL DEF Spec

-----------------------------------------------------------------------------
(* No SOL is promised twice.                                               *)

\* What the theorem supposes of the timing: a fill may be on its way, no more.
OnTime == Faults \subseteq {"unfolded"}

LEMMA SlotsStep ==
    ASSUME Types, Slots, OnTime, [Next]_vars
    PROVE  Slots'
<1>1. "same_slot" \notin Faults
  BY DEF OnTime
<1>2. ASSUME NEW amount \in Nat, Changes(amount)
      PROVE  Slots'
  <2>1. /\ Now' = Now + 1 /\ \A v \in 1 .. Now : hist'[v] = hist[v]
        /\ hist'[Now + 1].slot = hist[Now].slot + 1
    BY <1>1, <1>2, ChangesType
  <2>2. Now \in Nat /\ Now >= 1 /\ \A v \in 1 .. Now : hist[v].slot \in Nat
    BY NowType
  <2>3. ASSUME NEW u \in 1 .. Now', NEW v \in 1 .. Now', u < v
        PROVE  hist'[u].slot < hist'[v].slot
    <3>1. u \in 1 .. Now
      BY <2>1, <2>2, <2>3
    <3>2. CASE v = Now + 1
      <4>1. u = Now \/ hist[u].slot < hist[Now].slot
        BY <2>2, <3>1 DEF Slots
      <4> QED
        BY <2>1, <2>2, <3>1, <3>2, <4>1
    <3>3. CASE v # Now + 1
      BY <2>1, <2>2, <2>3, <3>1, <3>3 DEF Slots
    <3> QED
      BY <3>2, <3>3
  <2> QED
    BY <2>3 DEF Slots
<1>3. CASE hist' = hist
  BY <1>3 DEF Slots, Now
<1>4. ASSUME NEW p \in Positions, Lands(p)
      PROVE  Slots'
  <2>1. Wallet - Size[p] \in Nat /\ Changes(Wallet - Size[p])
    BY <1>4, NowType, SolReservationAssumption DEF Lands
  <2> QED
    BY <1>2, <2>1
<1>5. ASSUME NEW p \in Positions, Moved(p)
      PROVE  Slots'
  <2>1. \A proceeds \in Proceeds : Wallet + proceeds \in Nat
    BY NowType, SolReservationAssumption
  <2> QED
    BY <1>2, <1>3, <1>5, <2>1 DEF Moved
<1>6. ASSUME TransferLands
      PROVE  Slots'
  <2>1. Wallet - Transfer \in Nat /\ Changes(Wallet - Transfer)
    BY <1>6, NowType, SolReservationAssumption DEF TransferLands
  <2> QED
    BY <1>2, <2>1
<1>7. /\ \A p \in Positions : dispatch_buy(p) \/ LagPasses(p) => hist' = hist
      /\ \A v \in 1 .. Now : Reads(v) \/ send_sol(v) => hist' = hist
      /\ \A t \in Traders : RebuildStarts(t) \/ RebuildSwaps(t) => hist' = hist
      /\ Crash \/ UNCHANGED vars => hist' = hist
  BY DEF dispatch_buy, LagPasses, Reads, update_balance_lamports_cache, update_balance_lamports_at_slot,
         send_sol, RebuildStarts, RebuildSwaps, Swap, Crash, vars, OnlyReading, OnlyPosition
<1> QED
  BY <1>3, <1>4, <1>5, <1>6, <1>7, Steps

\* A reading shows at least what an earlier one did.
LEMMA ReadsOn ==
    ASSUME Types, OnTime, NEW v \in 1 .. Now, Reads(v)
    PROVE  /\ v >= seen /\ seen' = v /\ reading'.version = v
           /\ \A q \in Positions : ledger[current][q].age # "fresh" => landed[q] <= v
           /\ \A q \in Positions :
                /\ ledger'[current][q].kind = ledger[current][q].kind
                /\ ledger[current][q].age # "aged" => ledger'[current][q] = ledger[current][q]
           /\ UNCHANGED <<hist, pos, landed, current, transfer>>
<1>1. "lag" \notin Faults /\ "late_push" \notin Faults /\ "slow" \notin Faults
  BY DEF OnTime
<1>2. PICK push \in BOOLEAN : Cache(v, push) /\ OnlyReading /\ v >= seen /\ Timely(v)
  BY <1>1 DEF Reads, update_balance_lamports_cache, update_balance_lamports_at_slot
<1>3. /\ \A q \in Positions :
                /\ ledger'[current][q].kind = ledger[current][q].kind
                /\ ledger[current][q].age # "aged" => ledger'[current][q] = ledger[current][q]
      /\ reading' = [version |-> v, push |-> push] /\ seen' = v
  BY <1>2, Cached
<1> QED
  BY <1>1, <1>2, <1>3 DEF Timely, OnlyReading, traderVars

LEMMA FreshestStep ==
    ASSUME Types, Freshest, OnTime, [Next]_vars
    PROVE  Freshest'
<1>1. ASSUME NEW v \in 1 .. Now, Reads(v)
      PROVE  Freshest'
  BY <1>1, ReadsOn DEF Freshest
<1>2. CASE UNCHANGED <<reading, seen>>
  BY <1>2 DEF Freshest
<1>3. CASE reading' = Unread
  BY <1>3 DEF Freshest, Unread
<1>4. /\ \A p \in Positions : dispatch_buy(p) \/ Moved(p) \/ Lands(p) \/ LagPasses(p) => UNCHANGED <<reading, seen>>
      /\ \A v \in 1 .. Now : send_sol(v) => UNCHANGED <<reading, seen>>
      /\ \A t \in Traders : RebuildStarts(t) => UNCHANGED <<reading, seen>>
      /\ \A t \in Traders : RebuildSwaps(t) => reading' = Unread
      /\ Crash => reading' = Unread
      /\ TransferLands \/ UNCHANGED vars => UNCHANGED <<reading, seen>>
  BY DEF dispatch_buy, Moved, Lands, LagPasses, send_sol, RebuildStarts, RebuildSwaps, Swap, Crash,
         TransferLands, vars, OnlyPosition, cacheVars
<1> QED
  BY <1>1, <1>2, <1>3, <1>4, Steps

\* The earmark of a buy that no reading shows is still counted.
LEMMA UnreadHolds ==
    ASSUME Types, Slots, Freshest, Uncovered, Earmarked,
           NEW p \in Positions, landed[p] > seen
    PROVE  holds(p)
<1>1. CASE pos[p] = "sent"
  BY <1>1, HeldHolds DEF Earmarked, Entering
<1>2. CASE pos[p] # "sent"
  <2>1. ledger[current][p].kind \in Settled /\ ledger[current][p].age # "covered"
    BY <1>2 DEF Uncovered
  <2>2. CASE reading.version = 0
    BY <2>1, <2>2 DEF holds
  <2>3. CASE reading.version # 0
    <3>1. reading.version = seen /\ seen \in 0 .. Now /\ landed[p] \in 0 .. Now /\ Now \in Nat
      BY <2>3, NowType DEF Freshest, Types
    <3>2. hist[reading.version].slot < hist[landed[p]].slot
      BY <2>3, <3>1 DEF Slots
    <3> QED
      BY <2>1, <3>2 DEF holds
  <2> QED
    BY <2>2, <2>3
<1> QED
  BY <1>1, <1>2

LEMMA UncoveredStep ==
    ASSUME Types, OneRebuild, Earmarked, Slots, Freshest, Uncovered, OnTime, [Next]_vars
    PROVE  Uncovered'
<1>1. /\ pos \in [Positions -> States] /\ current \in Traders /\ Now \in Nat
      /\ landed \in [Positions -> Nat] /\ seen \in Nat
  BY NowType DEF Types
<1>2. "early_exit" \notin Faults /\ "adopted" \notin Faults
  BY DEF OnTime
<1>3. ASSUME NEW q \in Positions, landed[q] > seen, KeptOrCovered(q)
      PROVE  ledger'[current][q] = ledger[current][q]
  BY <1>3, UnreadHolds DEF KeptOrCovered
<1>4. ASSUME NEW p \in Positions, dispatch_buy(p)
      PROVE  Uncovered'
  <2>1. /\ pos[p] \in {"idle", "retry"} /\ UNCHANGED <<current, landed, seen>>
        /\ \A q \in Positions : q # p => KeptOrCovered(q)
        /\ Granted(p) \/ Refused(p)
    BY <1>4, Guarded DEF dispatch_buy, OnlyPosition, traderVars, cacheVars
  <2>2. \A q \in Positions : q # p => pos'[q] = pos[q]
    BY <1>1, <2>1 DEF Granted, Refused
  <2>3. ~(landed[p] > seen)
    BY <2>1 DEF Uncovered
  <2> QED
    BY <1>3, <2>1, <2>2, <2>3 DEF Uncovered
<1>5. ASSUME NEW p \in Positions, Moved(p)
      PROVE  Uncovered'
  <2>1. /\ UNCHANGED <<current, landed, seen>>
        /\ \A q \in Positions : q # p => pos'[q] = pos[q] /\ ledger'[current][q] = ledger[current][q]
    BY <1>5 DEF Moved
  <2>2. ASSUME landed[p] > seen
        PROVE  \/ pos'[p] = "sent"
               \/ /\ pos'[p] \in {"filled", "holding"}
                  /\ ledger'[current][p].kind \in Settled /\ ledger'[current][p].age # "covered"
    <3>1. \/ pos[p] = "sent"
          \/ /\ pos[p] \in {"filled", "holding"}
             /\ ledger[current][p].kind \in Settled /\ ledger[current][p].age # "covered"
      BY <2>2 DEF Uncovered
    <3>2. CASE Kept(p)
      BY <1>1, <2>2, <3>1, <3>2 DEF Kept
    <3>3. CASE Freed(p)
      BY <1>1, <1>2, <2>2, <3>1, <3>3 DEF Freed
    <3>4. CASE Settles(p)
      <4>1. ledger[current][p].kind = "held"
        BY <3>4 DEF Settles, Earmarked, Entering
      <4>2. PICK kind \in Settled : ledger'[current][p] = Mark(kind)
        BY <3>4, <4>1 DEF Settles
      <4>3. Mark(kind).kind = kind /\ Mark(kind).age = "fresh"
        BY MarkType
      <4> QED
        BY <3>4, <4>2, <4>3 DEF Settles
    <3> QED
      BY <1>5, <3>2, <3>3, <3>4 DEF Moved
  <2> QED
    BY <2>1, <2>2 DEF Uncovered
<1>6. ASSUME NEW p \in Positions, Lands(p)
      PROVE  Uncovered'
  <2>1. /\ pos[p] = "sent" /\ landed' = [landed EXCEPT ![p] = Now + 1]
        /\ UNCHANGED <<pos, ledger, current, seen>>
    BY <1>6 DEF Lands, cacheVars, traderVars
  <2>2. \A q \in Positions : q # p => landed'[q] = landed[q]
    BY <1>1, <2>1
  <2> QED
    BY <2>1, <2>2 DEF Uncovered
<1>7. ASSUME NEW p \in Positions, LagPasses(p)
      PROVE  Uncovered'
  <2>1. UNCHANGED <<pos, current, landed, seen>>
    BY <1>7 DEF LagPasses, OnlyReading, cacheVars, traderVars
  <2>2. /\ ledger'[current][p].age = "aged"
        /\ \A q \in Positions : /\ ledger'[current][q].kind = ledger[current][q].kind
                                /\ q # p => ledger'[current][q] = ledger[current][q]
    BY <1>1, <1>7, Aged
  <2> QED
    BY <2>1, <2>2 DEF Uncovered
<1>8. ASSUME NEW v \in 1 .. Now, Reads(v)
      PROVE  Uncovered'
  <2>1. /\ v >= seen /\ seen' = v
        /\ \A q \in Positions : ledger[current][q].age # "fresh" => landed[q] <= v
        /\ \A q \in Positions :
                /\ ledger'[current][q].kind = ledger[current][q].kind
                /\ ledger[current][q].age # "aged" => ledger'[current][q] = ledger[current][q]
        /\ UNCHANGED <<pos, landed, current>>
    BY <1>8, ReadsOn
  <2>2. ASSUME NEW q \in Positions, landed[q] > v
        PROVE  landed[q] > seen /\ ledger'[current][q] = ledger[current][q]
    BY <1>1, <2>1, <2>2
  <2> QED
    BY <2>1, <2>2 DEF Uncovered
<1>9. ASSUME NEW v \in 1 .. Now, send_sol(v)
      PROVE  Uncovered'
  <2>1. UNCHANGED <<pos, current, landed, seen>> /\ \A q \in Positions : KeptOrCovered(q)
    BY <1>9, Sent DEF send_sol, cacheVars
  <2> QED
    BY <1>3, <2>1 DEF Uncovered
<1>10. ASSUME NEW t \in Traders, RebuildSwaps(t)
       PROVE  Uncovered'
  BY <1>10, SwapKeeps DEF Uncovered
<1>11. CASE Crash
  <2>1. \A p \in Positions : landed'[p] <= seen'
    BY <1>2, <1>11 DEF Crash
  <2>2. landed' \in [Positions -> Nat] /\ seen' \in Nat
    BY <1>1, <1>11 DEF Crash
  <2> QED
    BY <2>1, <2>2 DEF Uncovered
<1>12. CASE UNCHANGED <<pos, ledger, current, landed, seen>>
  BY <1>12 DEF Uncovered
<1>13. /\ \A t \in Traders : RebuildStarts(t) => UNCHANGED <<pos, ledger, current, landed, seen>>
       /\ TransferLands \/ UNCHANGED vars => UNCHANGED <<pos, ledger, current, landed, seen>>
  BY DEF RebuildStarts, TransferLands, vars, traderVars, cacheVars
<1> QED
  BY <1>4, <1>5, <1>6, <1>7, <1>8, <1>9, <1>10, <1>11, <1>12, <1>13, Steps

LEMMA AccountedStep ==
    ASSUME Types, Accounted, [Next]_vars
    PROVE  Accounted'
<1> DEFINE Since(f, v) == {p \in Positions : f[p] > v}
<1>1. /\ Now \in Nat /\ Now >= 1 /\ Wallet \in Nat
      /\ \A v \in 1 .. Now : hist[v].lamports \in Nat
      /\ landed \in [Positions -> 0 .. Now] /\ transfer.version \in 0 .. Now
  BY NowType DEF Types
<1>2. \A v \in 1 .. Now : transfer.version <= v => hist[v].lamports <= Wallet + SizeOf(Since(landed, v))
  BY DEF Accounted
<1>3. \A f, v : SizeOf(Since(f, v)) \in Nat
  BY SizeOfType
<1>4. SUFFICES \A v \in 1 .. Now' : transfer'.version <= v =>
                 hist'[v].lamports <= Wallet' + SizeOf(Since(landed', v))
  BY DEF Accounted
<1> HIDE DEF Since
<1>5. CASE UNCHANGED <<hist, landed, transfer>>
  BY <1>2, <1>5 DEF Now, Wallet
<1>6. ASSUME NEW p \in Positions, Moved(p), hist' # hist
      PROVE  \A v \in 1 .. Now' : transfer'.version <= v =>
                 hist'[v].lamports <= Wallet' + SizeOf(Since(landed', v))
  <2>1. PICK proceeds \in Proceeds : Changes(Wallet + proceeds)
    BY <1>6 DEF Moved
  <2>2. proceeds \in Nat /\ Wallet + proceeds \in Nat /\ UNCHANGED <<landed, transfer>>
    BY <1>1, <1>6, SolReservationAssumption DEF Moved
  <2>3. /\ Now' = Now + 1 /\ \A v \in 1 .. Now : hist'[v] = hist[v]
        /\ Wallet' = Wallet + proceeds /\ hist'[Now + 1].lamports = Wallet + proceeds
    BY <2>1, <2>2, ChangesType
  <2>4. ASSUME NEW v \in 1 .. Now', transfer.version <= v
        PROVE  hist'[v].lamports <= Wallet' + SizeOf(Since(landed, v))
    <3>1. CASE v = Now + 1
      BY <1>1, <1>3, <2>2, <2>3, <3>1
    <3>2. CASE v # Now + 1
      <4>1. v \in 1 .. Now
        BY <1>1, <2>3, <2>4, <3>2
      <4> QED
        BY <1>1, <1>2, <1>3, <2>2, <2>3, <2>4, <4>1
    <3> QED
      BY <3>1, <3>2
  <2> QED
    BY <2>2, <2>4
<1>7. ASSUME NEW p \in Positions, Lands(p)
      PROVE  \A v \in 1 .. Now' : transfer'.version <= v =>
                 hist'[v].lamports <= Wallet' + SizeOf(Since(landed', v))
  <2>1. /\ landed[p] = 0 /\ landed' = [landed EXCEPT ![p] = Now + 1] /\ transfer' = transfer
        /\ Changes(Wallet - Size[p]) /\ Size[p] <= Wallet
    BY <1>7 DEF Lands
  <2>2. Size[p] \in Nat /\ Wallet - Size[p] \in Nat
    <3>1. Size[p] \in Nat
      BY SolReservationAssumption
    <3> QED
      BY <1>1, <2>1, <3>1
  <2>3. /\ Now' = Now + 1 /\ \A v \in 1 .. Now : hist'[v] = hist[v]
        /\ Wallet' = Wallet - Size[p] /\ hist'[Now + 1].lamports = Wallet - Size[p]
    BY <2>1, <2>2, ChangesType
  <2>4. ASSUME NEW v \in 1 .. Now', transfer.version <= v
        PROVE  hist'[v].lamports <= Wallet' + SizeOf(Since(landed', v))
    <3>1. CASE v = Now + 1
      BY <1>1, <1>3, <2>2, <2>3, <3>1
    <3>2. CASE v # Now + 1
      <4>1. v \in 1 .. Now
        BY <1>1, <2>3, <2>4, <3>2
      <4>2. Since(landed', v) = Since(landed, v) \cup {p} /\ p \notin Since(landed, v)
        BY <1>1, <2>1, <4>1 DEF Since
      <4>3. Since(landed, v) \in SUBSET Positions
        BY DEF Since
      <4>4. SizeOf(Since(landed', v)) = Size[p] + SizeOf(Since(landed, v))
        BY <4>2, <4>3, SizeOfAdd
      <4>5. hist[v].lamports <= Wallet + SizeOf(Since(landed, v))
        BY <1>2, <2>4, <4>1
      <4>6. /\ hist[v].lamports \in Nat /\ SizeOf(Since(landed, v)) \in Nat
            /\ hist'[v].lamports = hist[v].lamports
        BY <1>1, <1>3, <2>3, <4>1
      <4> QED
        BY <1>1, <2>2, <2>3, <4>4, <4>5, <4>6
    <3> QED
      BY <3>1, <3>2
  <2> QED
    BY <2>1, <2>4
<1>8. ASSUME TransferLands
      PROVE  \A v \in 1 .. Now' : transfer'.version <= v =>
                 hist'[v].lamports <= Wallet' + SizeOf(Since(landed', v))
  <2>1. /\ transfer' = [pending |-> FALSE, version |-> Now + 1]
        /\ Changes(Wallet - Transfer) /\ Transfer <= Wallet
    BY <1>8 DEF TransferLands
  <2>2. Wallet - Transfer \in Nat
    BY <1>1, <2>1, SolReservationAssumption
  <2>3. /\ Now' = Now + 1 /\ transfer'.version = Now + 1
        /\ Wallet' = Wallet - Transfer /\ hist'[Now + 1].lamports = Wallet - Transfer
    BY <2>1, <2>2, ChangesType
  <2>4. \A v \in 1 .. Now' : transfer'.version <= v => v = Now + 1
    BY <1>1, <2>3
  <2> QED
    BY <1>3, <2>2, <2>3, <2>4
<1>9. ASSUME NEW v \in 1 .. Now, send_sol(v)
      PROVE  Accounted'
  <2>1. UNCHANGED <<hist, landed>> /\ transfer' = [transfer EXCEPT !.pending = TRUE]
    BY <1>9 DEF send_sol
  <2>2. transfer'.version = transfer.version
    BY <2>1 DEF Types
  <2> QED
    BY <2>1, <2>2 DEF Accounted, Now, Wallet
<1>10. /\ \A p \in Positions : dispatch_buy(p) \/ LagPasses(p) => UNCHANGED <<hist, landed, transfer>>
       /\ \A p \in Positions : Moved(p) /\ hist' = hist => UNCHANGED <<hist, landed, transfer>>
       /\ \A v \in 1 .. Now : Reads(v) => UNCHANGED <<hist, landed, transfer>>
       /\ \A t \in Traders : RebuildStarts(t) \/ RebuildSwaps(t) => UNCHANGED <<hist, landed, transfer>>
       /\ Crash \/ UNCHANGED vars => UNCHANGED <<hist, landed, transfer>>
  BY DEF dispatch_buy, Moved, LagPasses, Reads, update_balance_lamports_cache,
         update_balance_lamports_at_slot, RebuildStarts, RebuildSwaps, Swap, Crash, vars,
         OnlyReading, OnlyPosition
<1>11. Accounted' => \A v \in 1 .. Now' : transfer'.version <= v =>
                 hist'[v].lamports <= Wallet' + SizeOf(Since(landed', v))
  BY DEF Accounted, Since
<1> QED
  BY <1>5, <1>6, <1>7, <1>8, <1>9, <1>10, <1>11, Steps

\* What a check against a new enough balance leaves is really there: the earmarks
\* it adds cover the buys in flight and the landed ones the balance does not show.
LEMMA Backed ==
    ASSUME Types, Slots, Freshest, Uncovered, Earmarked, Accounted,
           NEW v \in 1 .. Now, v >= seen, transfer.version <= v,
           NEW x \in Nat, x + committed_lamports <= hist[v].lamports
    PROVE  x + SizeOf(Unlanded) <= Wallet
<1> DEFINE Late == {p \in Positions : landed[p] > v}
           Holders == {p \in Positions : holds(p)}
<1>1. v \in Nat /\ seen \in Nat /\ landed \in [Positions -> Nat] /\ Wallet \in Nat /\ hist[v].lamports \in Nat
  BY NowType DEF Types
<1>2. Unlanded \in SUBSET Positions /\ Late \in SUBSET Positions /\ Unlanded \cap Late = {}
  BY <1>1 DEF Unlanded
<1>3. \A p \in Unlanded : p \in Positions /\ holds(p)
  BY HeldHolds DEF Unlanded, Earmarked
<1>4. \A p \in Late : holds(p)
  BY <1>1, UnreadHolds
<1>5. Holders \in SUBSET Positions /\ Unlanded \cup Late \in SUBSET Holders
  BY <1>2, <1>3, <1>4
<1>6. hist[v].lamports <= Wallet + SizeOf(Late)
  BY DEF Accounted
<1>7. x + SizeOf(Holders) <= hist[v].lamports
  BY DEF committed_lamports
<1> HIDE DEF Late, Holders
<1>8. SizeOf(Unlanded \cup Late) = SizeOf(Unlanded) + SizeOf(Late)
  BY <1>2, SizeOfUnion
<1>9. SizeOf(Unlanded \cup Late) <= SizeOf(Holders)
  BY <1>5, SizeOfSubset
<1>10. SizeOf(Unlanded) \in Nat /\ SizeOf(Late) \in Nat /\ SizeOf(Holders) \in Nat
  BY <1>2, <1>5, SizeOfType
<1> QED
  BY <1>1, <1>6, <1>7, <1>8, <1>9, <1>10

\* A step that adds no buy and takes nothing from the wallet.
LEMMA NothingPromised ==
    ASSUME Types, Covered, Unlanded' \subseteq Unlanded,
           Pending' = Pending, Wallet' \in Nat, Wallet' >= Wallet
    PROVE  Covered'
<1>1. Unlanded \in SUBSET Positions /\ Unlanded' \in SUBSET Unlanded /\ Unlanded' \in SUBSET Positions
  BY DEF Unlanded
<1>2. SizeOf(Unlanded') <= SizeOf(Unlanded) /\ SizeOf(Unlanded) \in Nat /\ SizeOf(Unlanded') \in Nat
  BY <1>1, SizeOfSubset, SizeOfType
<1>3. Pending \in Nat /\ FeeReserve \in Nat /\ Wallet \in Nat
  BY NowType, SolReservationAssumption DEF Pending
<1>4. SizeOf(Unlanded') + Pending' + FeeReserve <= Wallet'
  BY <1>2, <1>3 DEF Covered
<1> QED
  BY <1>4 DEF Covered

LEMMA CoveredStep ==
    ASSUME Types, OneRebuild, Unmarked, Earmarked, Slots, Freshest, Uncovered, Accounted, Covered,
           OnTime, [Next]_vars
    PROVE  Covered'
<1>1. /\ pos \in [Positions -> States] /\ Now \in Nat /\ Now >= 1 /\ Wallet \in Nat
      /\ landed \in [Positions -> Nat] /\ seen \in 0 .. Now /\ reading.version \in 0 .. Now
      /\ transfer \in [pending : BOOLEAN, version : 0 .. Now]
  BY NowType DEF Types
<1>2. "cold" \notin Faults /\ "transfer_race" \notin Faults /\ "lag" \notin Faults /\ "adopted" \notin Faults
  BY DEF OnTime
<1>3. FeeReserve \in Nat /\ Floor \in Nat /\ FeeReserve <= Floor /\ Transfer \in Nat /\ Pending \in Nat
  BY SolReservationAssumption DEF Pending
<1>4. Unlanded \in SUBSET Positions /\ SizeOf(Unlanded) \in Nat
      /\ SizeOf(Unlanded) + Pending + FeeReserve <= Wallet
  <2>1. Unlanded \in SUBSET Positions
    BY DEF Unlanded
  <2> QED
    BY <2>1, SizeOfType DEF Covered
<1>5. ASSUME NEW p \in Positions, dispatch_buy(p)
      PROVE  Covered'
  <2>1. /\ pos[p] \in {"idle", "retry"} /\ UNCHANGED <<hist, landed, transfer>>
        /\ reading.version # 0 /\ ~transfer.pending /\ transfer.version <= seen
        /\ Granted(p) \/ Refused(p)
    BY <1>2, <1>5, Guarded DEF dispatch_buy, Dispatchable, OnlyPosition
  <2>2. \A q \in Positions : q # p => pos'[q] = pos[q]
    BY <1>1, <2>1 DEF Granted, Refused
  <2>3. Wallet' = Wallet /\ Pending' = Pending
    BY <2>1 DEF Wallet, Now, Pending
  <2>4. CASE pos'[p] \notin Entering \/ pos[p] = "retry"
    <3>1. Unlanded' \subseteq Unlanded
      BY <2>1, <2>2, <2>4 DEF Unlanded, Entering
    <3> QED
      BY <1>1, <2>3, <3>1, NothingPromised
  <2>5. CASE Granted(p) /\ pos[p] = "idle"
    <3>1. free_lamports_cover(Size[p])
      BY <2>5 DEF Granted, Unmarked
    <3>2. reading.version = seen /\ seen \in 1 .. Now
      BY <1>1, <2>1 DEF Freshest
    <3>3. Size[p] + committed_lamports + Floor <= hist[seen].lamports
      BY <2>1, <3>1, <3>2 DEF free_lamports_cover
    <3>4. committed_lamports \in Nat /\ Size[p] \in Nat /\ hist[seen].lamports \in Nat
      <4>1. {q \in Positions : holds(q)} \in SUBSET Positions
        OBVIOUS
      <4> QED
        BY <3>2, <4>1, SizeOfType, NowType, SolReservationAssumption DEF committed_lamports
    <3>5. (Size[p] + Floor) + committed_lamports <= hist[seen].lamports /\ Size[p] + Floor \in Nat
      BY <1>3, <3>3, <3>4
    <3>6. seen >= seen
      BY <1>1
    <3>7. (Size[p] + Floor) + SizeOf(Unlanded) <= Wallet
      BY <2>1, <3>2, <3>5, <3>6, Backed
    <3>8. /\ p \notin Unlanded /\ Unlanded' \in SUBSET (Unlanded \cup {p})
          /\ Unlanded \cup {p} \in SUBSET Positions /\ Unlanded' \in SUBSET Positions
      BY <2>1, <2>2, <2>5 DEF Unlanded, Entering
    <3>9. SizeOf(Unlanded \cup {p}) = Size[p] + SizeOf(Unlanded)
      BY <1>4, <3>8, SizeOfAdd
    <3>10. SizeOf(Unlanded') <= SizeOf(Unlanded \cup {p}) /\ SizeOf(Unlanded') \in Nat
      BY <3>8, SizeOfSubset, SizeOfType
    <3>11. Pending' = 0
      BY <2>1, <2>3 DEF Pending
    <3>12. SizeOf(Unlanded') + Pending' + FeeReserve <= Wallet'
      BY <1>1, <1>3, <1>4, <2>3, <3>4, <3>7, <3>9, <3>10, <3>11
    <3> QED
      BY <3>12 DEF Covered
  <2> QED
    BY <1>1, <2>1, <2>4, <2>5 DEF Refused, Entering
<1>6. ASSUME NEW p \in Positions, Moved(p)
      PROVE  Covered'
  <2>1. /\ UNCHANGED <<landed, transfer>> /\ \A q \in Positions : q # p => pos'[q] = pos[q]
        /\ pos'[p] \in Entering => pos[p] \in Entering
    BY <1>6 DEF Moved, Kept, Freed, Settles, Entering
  <2>2. Unlanded' \subseteq Unlanded /\ Pending' = Pending
    BY <2>1 DEF Unlanded, Pending
  <2>3. Wallet' \in Nat /\ Wallet' >= Wallet
    <3>1. CASE hist' = hist
      BY <1>1, <3>1 DEF Wallet, Now
    <3>2. ASSUME NEW proceeds \in Proceeds, Changes(Wallet + proceeds)
          PROVE  Wallet' \in Nat /\ Wallet' >= Wallet
      <4>1. proceeds \in Nat /\ Wallet + proceeds \in Nat
        BY <1>1, SolReservationAssumption
      <4> QED
        BY <1>1, <3>2, <4>1, ChangesType
    <3> QED
      BY <1>6, <3>1, <3>2 DEF Moved
  <2> QED
    BY <2>2, <2>3, NothingPromised
<1>7. ASSUME NEW p \in Positions, Lands(p)
      PROVE  Covered'
  <2>1. /\ pos[p] = "sent" /\ landed[p] = 0 /\ landed' = [landed EXCEPT ![p] = Now + 1]
        /\ Changes(Wallet - Size[p]) /\ Size[p] <= Wallet /\ UNCHANGED <<pos, transfer>>
    BY <1>7 DEF Lands
  <2>2. Size[p] \in Nat /\ Wallet - Size[p] \in Nat
    <3>1. Size[p] \in Nat
      BY SolReservationAssumption
    <3> QED
      BY <1>1, <2>1, <3>1
  <2>3. Wallet' = Wallet - Size[p] /\ Pending' = Pending
    BY <2>1, <2>2, ChangesType DEF Pending
  <2>4. p \in Unlanded /\ Unlanded' = Unlanded \ {p}
    BY <1>1, <2>1 DEF Unlanded, Entering
  <2>5. SizeOf(Unlanded) = Size[p] + SizeOf(Unlanded') /\ SizeOf(Unlanded') \in Nat
    <3>1. Unlanded \ {p} \in SUBSET Positions
      BY <1>4
    <3> QED
      BY <1>4, <2>4, <3>1, SizeOfRemove, SizeOfType
  <2>6. SizeOf(Unlanded') + Pending' + FeeReserve <= Wallet'
    BY <1>1, <1>3, <1>4, <2>2, <2>3, <2>5
  <2> QED
    BY <2>6 DEF Covered
<1>8. ASSUME NEW v \in 1 .. Now, send_sol(v)
      PROVE  Covered'
  <2>1. /\ ~transfer.pending /\ transfer.version <= v /\ v >= seen
        /\ Transfer + FeeReserve + committed_lamports <= hist[v].lamports
        /\ transfer' = [transfer EXCEPT !.pending = TRUE] /\ UNCHANGED <<hist, pos, landed>>
    BY <1>2, <1>8 DEF send_sol
  <2>2. (Transfer + FeeReserve) + SizeOf(Unlanded) <= Wallet
    <3>1. Transfer + FeeReserve \in Nat
      BY <1>3
    <3> QED
      BY <2>1, <3>1, Backed
  <2>3. Unlanded' = Unlanded /\ Wallet' = Wallet
    BY <2>1 DEF Unlanded, Wallet, Now
  <2>4. transfer'.pending = TRUE
    BY <1>1, <2>1
  <2>5. Pending' = Transfer
    BY <2>4 DEF Pending
  <2>6. SizeOf(Unlanded') + Pending' + FeeReserve <= Wallet'
    BY <1>1, <1>3, <1>4, <2>2, <2>3, <2>5
  <2> QED
    BY <2>6 DEF Covered
<1>9. ASSUME TransferLands
      PROVE  Covered'
  <2>1. /\ transfer.pending /\ transfer' = [pending |-> FALSE, version |-> Now + 1]
        /\ Changes(Wallet - Transfer) /\ Transfer <= Wallet /\ UNCHANGED <<pos, landed>>
    BY <1>9 DEF TransferLands
  <2>2. Wallet - Transfer \in Nat
    BY <1>1, <1>3, <2>1
  <2>3. Wallet' = Wallet - Transfer /\ Unlanded' = Unlanded
    BY <2>1, <2>2, ChangesType DEF Unlanded
  <2>4. Pending = Transfer /\ Pending' = 0
    BY <2>1 DEF Pending
  <2>5. SizeOf(Unlanded') + Pending' + FeeReserve <= Wallet'
    BY <1>1, <1>3, <1>4, <2>3, <2>4
  <2> QED
    BY <2>5 DEF Covered
<1>10. CASE Crash
  <2>1. /\ \A p \in Positions : pos[p] \notin Entering \cup {"failing", "filled"}
        /\ \A p \in Positions : pos'[p] = Adopted(pos[p])
        /\ UNCHANGED <<hist, transfer>>
    BY <1>2, <1>10 DEF Crash
  <2>2. \A p \in Positions : pos'[p] \notin Entering
    BY <2>1 DEF Adopted, Entering
  <2>3. Unlanded' \subseteq Unlanded /\ Wallet' = Wallet /\ Pending' = Pending
    BY <2>1, <2>2 DEF Unlanded, Wallet, Now, Pending
  <2> QED
    BY <1>1, <2>3, NothingPromised
<1>11. CASE UNCHANGED <<hist, pos, landed, transfer>>
  BY <1>11 DEF Covered, Unlanded, Pending, Wallet, Now
<1>12. /\ \A p \in Positions : LagPasses(p) => UNCHANGED <<hist, pos, landed, transfer>>
       /\ \A v \in 1 .. Now : Reads(v) => UNCHANGED <<hist, pos, landed, transfer>>
       /\ \A t \in Traders : RebuildStarts(t) \/ RebuildSwaps(t) => UNCHANGED <<hist, pos, landed, transfer>>
       /\ UNCHANGED vars => UNCHANGED <<hist, pos, landed, transfer>>
  BY DEF LagPasses, Reads, update_balance_lamports_cache, update_balance_lamports_at_slot,
         RebuildStarts, RebuildSwaps, Swap, vars, OnlyReading
<1> QED
  BY <1>5, <1>6, <1>7, <1>8, <1>9, <1>10, <1>11, <1>12, Steps

Solvency ==
    /\ Types /\ OneRebuild /\ Unmarked /\ Earmarked
    /\ Slots /\ Freshest /\ Uncovered /\ Accounted /\ Covered

LEMMA InitSolvency ==
    ASSUME FeeReserve <= Balance0, Init
    PROVE  Solvency
<1>1. Types /\ OneRebuild /\ Unmarked /\ Earmarked
  BY InitEarmarks
<1>2. Now = 1 /\ Wallet = Balance0 /\ hist[1].lamports = Balance0
  BY DEF Init, Now, Wallet
<1>3. Slots
  BY <1>2 DEF Slots
<1>4. Freshest /\ Uncovered
  BY DEF Init, Unread, Freshest, Uncovered
<1>5. Accounted
  <2>1. SizeOf({p \in Positions : landed[p] > 1}) \in Nat /\ Balance0 \in Nat
    BY SizeOfType, SolReservationAssumption
  <2> QED
    BY <1>2, <2>1 DEF Accounted
<1>6. Covered
  <2>1. Unlanded = {} /\ Pending = 0
    BY DEF Init, Unlanded, Pending, Entering
  <2> QED
    BY <1>2, <2>1, SizeOfEmpty, SolReservationAssumption DEF Covered
<1> QED
  BY <1>1, <1>3, <1>4, <1>5, <1>6 DEF Solvency

LEMMA SolvencyStep ==
    ASSUME Solvency, OnTime, [Next]_vars
    PROVE  Solvency'
<1>1. "adopted" \notin Faults /\ "two_rebuilds" \notin Faults
  BY DEF OnTime
<1> QED
  BY <1>1, TypesStep, OneRebuildStep, UnmarkedStep, EarmarkedStep, SlotsStep, FreshestStep,
     UncoveredStep, AccountedStep, CoveredStep DEF Solvency

\* No SOL is promised twice: when readings are never behind an earlier one nor behind
\* a buy the cover lag has passed for, no two transactions share a slot, and a buy is
\* dispatched only on a trader that has read a balance and with no transfer on its way,
\* the wallet holds what every buy that may still land will take, and the fee reserve,
\* for every wallet, set of positions, sizes and ceiling, whether or not a fill is
\* still on its way to the engine.
THEOREM WalletSolvent ==
    Faults \subseteq {"unfolded"} /\ FeeReserve <= Balance0 => (Spec => []Solvent)
<1> SUFFICES ASSUME OnTime, FeeReserve <= Balance0
             PROVE  Spec => []Solvent
  BY DEF OnTime
<1>1. Init => Solvency
  BY InitSolvency
<1>2. Solvency /\ [Next]_vars => Solvency'
  BY SolvencyStep
<1>3. Solvency => Solvent
  <2> SUFFICES ASSUME Solvency PROVE Solvent
    OBVIOUS
  <2>1. Unlanded \in SUBSET Positions /\ Pending \in Nat /\ Wallet \in Nat /\ FeeReserve \in Nat
    BY NowType, SolReservationAssumption DEF Unlanded, Pending, Solvency
  <2>2. SizeOf(Unlanded) \in Nat
    BY <2>1, SizeOfType
  <2>3. SizeOf(Unlanded) + Pending + FeeReserve <= Wallet
    BY DEF Solvency, Covered
  <2>4. SizeOf(Unlanded) + FeeReserve <= Wallet
    BY <2>1, <2>2, <2>3
  <2> QED
    BY <2>4 DEF Solvent, Unlanded
<1> QED
  BY <1>1, <1>2, <1>3, PTL DEF Spec

-----------------------------------------------------------------------------
(* Type correctness, and how many balances a wallet can have.              *)

Bought == {p \in Positions : landed[p] # 0}
Closed == {p \in Positions : pos[p] = "closed"}
OnItsWay == IF transfer.pending THEN 1 ELSE 0

\* Every balance but the first is that of a buy, a sell or a transfer.
Counted == Now + OnItsWay <= 1 + Cardinality(Bought) + Cardinality(Closed) + events

LEMMA Counts ==
    /\ \A S \in SUBSET Positions : /\ IsFiniteSet(S) /\ Cardinality(S) \in Nat
                                   /\ Cardinality(S) <= Cardinality(Positions)
    /\ Cardinality(Positions) \in Nat
  BY SolReservationAssumption, FS_Subset, FS_CardinalityType

LEMMA CountedStep ==
    ASSUME Types, Counted, [Next]_vars
    PROVE  Counted'
<1>1. /\ pos \in [Positions -> States] /\ Now \in Nat /\ landed \in [Positions -> Nat]
      /\ transfer \in [pending : BOOLEAN, version : 0 .. Now] /\ events \in Nat
  BY NowType DEF Types
<1>2. /\ Bought \in SUBSET Positions /\ Cardinality(Bought) \in Nat /\ IsFiniteSet(Bought)
      /\ Closed \in SUBSET Positions /\ Cardinality(Closed) \in Nat /\ IsFiniteSet(Closed)
  <2>1. Bought \in SUBSET Positions /\ Closed \in SUBSET Positions
    BY DEF Bought, Closed
  <2> QED
    BY <2>1, Counts
<1>3. OnItsWay \in Nat
  BY DEF OnItsWay
\* Nothing is added, or an event is.
<1>4. ASSUME UNCHANGED <<hist, landed>>, Closed' = Closed, events' \in Nat,
             \/ transfer' = transfer /\ events' >= events
             \/ events' = events + 1
      PROVE  Counted'
  <2>1. Now' = Now /\ Bought' = Bought
    BY <1>4 DEF Now, Bought
  <2>2. OnItsWay' \in 0 .. 1 /\ (transfer' = transfer => OnItsWay' = OnItsWay)
    BY DEF OnItsWay
  <2>3. Now + OnItsWay' <= 1 + Cardinality(Bought) + Cardinality(Closed) + events'
    BY <1>1, <1>2, <1>3, <1>4, <2>2 DEF Counted
  <2> QED
    BY <1>4, <2>1, <2>3 DEF Counted
<1>5. ASSUME NEW p \in Positions, dispatch_buy(p)
      PROVE  Counted'
  <2>1. /\ pos[p] \in {"idle", "retry"} /\ UNCHANGED <<hist, landed, transfer, events>>
        /\ Granted(p) \/ Refused(p)
    BY <1>5, Guarded DEF dispatch_buy, OnlyPosition, traderVars
  <2>2. pos'[p] \in {"entering", "failing"} /\ \A q \in Positions : q # p => pos'[q] = pos[q]
    BY <1>1, <2>1 DEF Granted, Refused
  <2>3. Closed' = Closed
    BY <2>1, <2>2 DEF Closed
  <2> QED
    BY <1>1, <1>4, <2>1, <2>3
<1>6. ASSUME NEW p \in Positions, Moved(p)
      PROVE  Counted'
  <2>1. /\ UNCHANGED <<landed, transfer, events>> /\ \A q \in Positions : q # p => pos'[q] = pos[q]
        /\ pos[p] # "closed"
    BY <1>6 DEF Moved, Kept, Freed, Settles
  <2>2. CASE hist' = hist /\ pos'[p] # "closed"
    <3>1. Closed' = Closed
      BY <2>1, <2>2 DEF Closed
    <3> QED
      BY <1>1, <1>4, <2>1, <2>2, <3>1
  <2>3. ASSUME NEW proceeds \in Proceeds, Changes(Wallet + proceeds), pos'[p] = "closed"
        PROVE  Counted'
    <3>1. Wallet + proceeds \in Nat
      BY NowType, SolReservationAssumption
    <3>2. Now' = Now + 1
      BY <2>3, <3>1, ChangesType
    <3>3. Closed' = Closed \cup {p} /\ p \notin Closed
      BY <2>1, <2>3 DEF Closed
    <3>4. Cardinality(Closed') = Cardinality(Closed) + 1
      BY <1>2, <3>3, FS_AddElement
    <3>5. Bought' = Bought /\ OnItsWay' = OnItsWay
      BY <2>1 DEF Bought, OnItsWay
    <3>6. Now' + OnItsWay' <= 1 + Cardinality(Bought') + Cardinality(Closed') + events'
      BY <1>1, <1>2, <1>3, <2>1, <3>2, <3>4, <3>5 DEF Counted
    <3> QED
      BY <3>6 DEF Counted
  <2> QED
    BY <1>6, <2>2, <2>3 DEF Moved
<1>7. ASSUME NEW p \in Positions, Lands(p)
      PROVE  Counted'
  <2>1. /\ landed[p] = 0 /\ landed' = [landed EXCEPT ![p] = Now + 1]
        /\ Changes(Wallet - Size[p]) /\ Size[p] <= Wallet /\ UNCHANGED <<pos, transfer, events>>
    BY <1>7 DEF Lands, traderVars
  <2>2. Wallet - Size[p] \in Nat
    BY <2>1, NowType, SolReservationAssumption
  <2>3. Now' = Now + 1
    BY <2>1, <2>2, ChangesType
  <2>4. Bought' = Bought \cup {p} /\ p \notin Bought
    BY <1>1, <2>1 DEF Bought
  <2>5. Cardinality(Bought') = Cardinality(Bought) + 1
    BY <1>2, <2>4, FS_AddElement
  <2>6. Closed' = Closed /\ OnItsWay' = OnItsWay
    BY <2>1 DEF Closed, OnItsWay
  <2>7. Now' + OnItsWay' <= 1 + Cardinality(Bought') + Cardinality(Closed') + events'
    BY <1>1, <1>2, <1>3, <2>1, <2>3, <2>5, <2>6 DEF Counted
  <2> QED
    BY <2>7 DEF Counted
<1>8. ASSUME TransferLands
      PROVE  Counted'
  <2>1. /\ transfer.pending /\ transfer' = [pending |-> FALSE, version |-> Now + 1]
        /\ Changes(Wallet - Transfer) /\ Transfer <= Wallet /\ UNCHANGED <<pos, landed, events>>
    BY <1>8 DEF TransferLands, traderVars
  <2>2. Wallet - Transfer \in Nat
    BY <2>1, NowType, SolReservationAssumption
  <2>3. Now' = Now + 1 /\ Closed' = Closed /\ Bought' = Bought
    BY <2>1, <2>2, ChangesType DEF Closed, Bought
  <2>4. OnItsWay = 1 /\ OnItsWay' = 0
    BY <2>1 DEF OnItsWay
  <2>5. Now' + OnItsWay' <= 1 + Cardinality(Bought') + Cardinality(Closed') + events'
    BY <1>1, <1>2, <2>1, <2>3, <2>4 DEF Counted
  <2> QED
    BY <2>5 DEF Counted
<1>9. ASSUME NEW v \in 1 .. Now, send_sol(v)
      PROVE  Counted'
  <2>1. UNCHANGED <<hist, landed, pos>> /\ events' = events + 1
    BY <1>9 DEF send_sol, Event
  <2> QED
    BY <1>1, <1>4, <2>1 DEF Closed
<1>10. CASE Crash
  <2>1. /\ UNCHANGED <<hist, landed>> /\ events' = events + 1
        /\ \A p \in Positions : pos'[p] = Adopted(pos[p])
    BY <1>10 DEF Crash, Event
  <2>2. \A pc : Adopted(pc) = "closed" <=> pc = "closed"
    BY DEF Adopted, Entering
  <2>3. Closed' = Closed
    BY <2>1, <2>2 DEF Closed
  <2> QED
    BY <1>1, <1>4, <2>1, <2>3
<1>11. ASSUME UNCHANGED <<hist, landed, pos, transfer>>, events' = events \/ events' = events + 1
       PROVE  Counted'
  BY <1>1, <1>4, <1>11 DEF Closed
<1>12. /\ \A p \in Positions : LagPasses(p) => UNCHANGED <<hist, landed, pos, transfer, events>>
       /\ \A v \in 1 .. Now : Reads(v) => UNCHANGED <<hist, landed, pos, transfer, events>>
       /\ \A t \in Traders : RebuildStarts(t) => UNCHANGED <<hist, landed, pos, transfer>> /\ events' = events + 1
       /\ \A t \in Traders : RebuildSwaps(t) => UNCHANGED <<hist, landed, pos, transfer, events>>
       /\ UNCHANGED vars => UNCHANGED <<hist, landed, pos, transfer, events>>
  BY DEF LagPasses, Reads, update_balance_lamports_cache, update_balance_lamports_at_slot,
         RebuildStarts, RebuildSwaps, Swap, vars, OnlyReading, traderVars, Event
<1> QED
  BY <1>5, <1>6, <1>7, <1>8, <1>9, <1>10, <1>11, <1>12, Steps

\* Every variable keeps its type under every fault; a settled earmark is one of a buy
\* that landed, and the versions of a balance are bounded by what can happen to it.
THEOREM TypeCorrect == Spec => []TypeOK
<1>1. Init => Types /\ Counted
  <2> SUFFICES ASSUME Init PROVE Counted
    BY InitTypes
  <2>1. Bought = {} /\ Closed = {} /\ OnItsWay = 0 /\ Now = 1 /\ events = 0
    BY DEF Init, Bought, Closed, OnItsWay, Now
  <2> QED
    BY <2>1, FS_EmptySet DEF Counted
<1>2. Types /\ Counted /\ [Next]_vars => (Types /\ Counted)'
  BY TypesStep, CountedStep
<1>3. Types /\ Counted => TypeOK
  <2> SUFFICES ASSUME Types, Counted PROVE TypeOK
    OBVIOUS
  <2>1. Bought \in SUBSET Positions /\ Closed \in SUBSET Positions /\ OnItsWay \in Nat
    BY DEF Bought, Closed, OnItsWay
  <2>2. /\ Cardinality(Bought) \in Nat /\ Cardinality(Bought) <= Cardinality(Positions)
        /\ Cardinality(Closed) \in Nat /\ Cardinality(Closed) <= Cardinality(Positions)
        /\ Cardinality(Positions) \in Nat
    BY <2>1, Counts
  <2>3. Now \in Nat /\ Now >= 1 /\ events \in 0 .. MaxEvents /\ MaxEvents \in Nat
    BY NowType, SolReservationAssumption DEF Types
  <2>4. Now <= 1 + 2 * Cardinality(Positions) + MaxEvents
    BY <2>1, <2>2, <2>3 DEF Counted
  <2>5. Now \in Versions \ {0}
    BY <2>2, <2>3, <2>4 DEF Versions
  <2>6. \A v \in 1 .. Now : hist[v].lamports \in Nat /\ hist[v].slot \in 1 .. v
    BY NowType DEF Types, Dated
  <2> QED
    BY <2>5, <2>6 DEF Types, TypeOK, Ledgers, Marks, States, SettledLanded
<1> QED
  BY <1>1, <1>2, <1>3, PTL DEF Spec

=============================================================================
