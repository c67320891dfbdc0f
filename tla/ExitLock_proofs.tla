--------------------------- MODULE ExitLock_proofs ---------------------------
(***************************************************************************)
(* One lock per account, one sell per account and exact claims, for any    *)
(* number of tasks, accounts and positions.                                *)
(***************************************************************************)
EXTENDS ExitLock, TLAPS

\* The points between a clone of the lock and the drop of that clone.
Referring == {"try", "lost", "lock", "queued", "working", "unlocked"}

\* A task refers to a lock exactly between clone and drop; a look holds the
\* mutex of the account's lock, a seller holds the mutex of the lock it refers to.
LockInv ==
    /\ TypeOK
    /\ OneLockPerAccount
    /\ \A t \in Tasks : arc[t] # None <=> pc[t] \in Referring
    /\ \A t \in Tasks : pc[t] = "working" => owner[arc[t]] = t
    /\ \A t \in Tasks : pc[t] = "looking" =>
           table[KeyOf[t]] # None /\ owner[table[KeyOf[t]]] = t

\* Which points each kind of caller reaches.
KindInv ==
    \A t \in Tasks :
        /\ Kind[t] = "look" => pc[t] \in {"idle", "seek", "look", "looking"}
        /\ Kind[t] = "manual" => pc[t] \in {"idle", "clone", "try", "lost", "working",
                                            "unlocked", "prune"}

\* Taking the first waiter out of the queue keeps the queue one of tasks.
LEMMA HandOnType ==
    ASSUME NEW l \in LockIds, TypeOK, HandOn(l)
    PROVE  /\ owner' \in [LockIds -> Tasks \cup {None}]
           /\ queue' \in [LockIds -> Seq(Tasks)]
           /\ \A m \in LockIds : m # l => owner'[m] = owner[m]
<1>1. CASE queue[l] = <<>>
  BY <1>1 DEF HandOn, TypeOK
<1>2. CASE queue[l] # <<>>
  <2>1. queue[l] \in Seq(Tasks) /\ queue[l] # <<>>
    BY <1>2 DEF TypeOK
  <2>2. Head(queue[l]) \in Tasks /\ Tail(queue[l]) \in Seq(Tasks)
    BY <2>1
  <2> QED  BY <1>2, <2>2 DEF HandOn, TypeOK
<1> QED  BY <1>1, <1>2

\* A queue without one of its waiters is a queue of tasks.
LEMMA WithoutType ==
    ASSUME NEW q \in Seq(Tasks), NEW i \in 1..Len(q)
    PROVE  Without(q, i) \in Seq(Tasks)
<1>1. Len(q) \in Nat /\ Len(q) >= 1
  OBVIOUS
<1>2. Len(q) - 1 \in Nat
  BY <1>1
<1>3. \A j \in 1..(Len(q) - 1) : (IF j < i THEN q[j] ELSE q[j + 1]) \in Tasks
  BY <1>1
<1>4. Without(q, i) \in [1..(Len(q) - 1) -> Tasks]
  BY <1>3 DEF Without
<1> QED  BY <1>2, <1>4

\* Finding or making the account's lock gives the caller a reference to it and
\* leaves everyone else's reference to the lock the map has.
LEMMA CloneKeeps ==
    ASSUME LockInv, NEW t \in Tasks, exit_mint_lock(t), arc[t] = None
    PROVE  /\ arc' \in [Tasks -> LockIds \cup {None}]
           /\ table' \in [Keys -> LockIds \cup {None}]
           /\ OneLockPerAccount'
           /\ arc'[t] # None
           /\ \A u \in Tasks : u # t => arc'[u] = arc[u]
           /\ \A k \in Keys : table[k] # None => table'[k] = table[k]
<1>1. KeyOf[t] \in Keys
  BY ExitLockAssumption DEF ExitLockAssumption
<1>2. CASE table[KeyOf[t]] # None
  <2>1. arc' = [arc EXCEPT ![t] = table[KeyOf[t]]] /\ table' = table
    BY <1>2 DEF exit_mint_lock
  <2>2. table[KeyOf[t]] \in LockIds
    BY <1>1, <1>2 DEF LockInv, TypeOK
  <2> QED  BY <1>1, <1>2, <2>1, <2>2 DEF LockInv, OneLockPerAccount, TypeOK
<1>3. CASE table[KeyOf[t]] = None
  <2>1. PICK l \in LockIds : /\ table' = [table EXCEPT ![KeyOf[t]] = l]
                             /\ arc' = [arc EXCEPT ![t] = l]
    BY <1>3 DEF exit_mint_lock
  <2>2. l # None
    BY ExitLockAssumption DEF ExitLockAssumption
  <2> QED  BY ExitLockAssumption, <1>1, <1>3, <2>1, <2>2 DEF LockInv, OneLockPerAccount, TypeOK, ExitLockAssumption
<1> QED  BY <1>2, <1>3

\* A step of one task that changes the owner of at most one mutex, a free one or its
\* own, and no reference and no entry of the map.
LEMMA OwnerStep ==
    ASSUME LockInv, NEW t \in Tasks, NEW l \in LockIds, NEW to \in PCs,
           pc' = [pc EXCEPT ![t] = to],
           arc' = arc, table' = table, exit' = exit,
           owner' \in [LockIds -> Tasks \cup {None}],
           queue' \in [LockIds -> Seq(Tasks)],
           \A m \in LockIds : m # l => owner'[m] = owner[m],
           owner[l] \in {None, t},
           arc[t] # None <=> to \in Referring,
           to = "working" => arc[t] = l /\ owner'[l] = t,
           to = "looking" => table[KeyOf[t]] = l /\ owner'[l] = t
    PROVE  LockInv'
<1>1. TypeOK' /\ OneLockPerAccount'
  BY DEF LockInv, TypeOK, OneLockPerAccount
<1>2. \A u \in Tasks : pc'[u] = IF u = t THEN to ELSE pc[u]
  BY DEF LockInv, TypeOK
<1>3. \A u \in Tasks : arc'[u] # None <=> pc'[u] \in Referring
  BY <1>2 DEF LockInv
<1>4. \A u \in Tasks : pc'[u] = "working" => owner'[arc'[u]] = u
  <2> SUFFICES ASSUME NEW u \in Tasks, pc'[u] = "working", u # t
               PROVE  owner'[arc[u]] = u
    BY <1>2
  <2>1. owner[arc[u]] = u /\ arc[u] \in LockIds
    BY <1>2 DEF LockInv, TypeOK, Referring
  <2>2. arc[u] # l
    BY <2>1, ExitLockAssumption DEF ExitLockAssumption
  <2> QED  BY <2>1, <2>2
<1>5. \A u \in Tasks : pc'[u] = "looking" =>
          table'[KeyOf[u]] # None /\ owner'[table'[KeyOf[u]]] = u
  <2>k. KeyOf \in [Tasks -> Keys] /\ None \notin LockIds /\ None \notin Tasks
    BY ExitLockAssumption DEF ExitLockAssumption
  <2> SUFFICES ASSUME NEW u \in Tasks, pc'[u] = "looking", u # t
               PROVE  table[KeyOf[u]] # None /\ owner'[table[KeyOf[u]]] = u
    BY <1>2, <2>k
  <2>0. pc[u] = "looking" /\ KeyOf[u] \in Keys
    BY <1>2, <2>k
  <2>1. owner[table[KeyOf[u]]] = u /\ table[KeyOf[u]] \in LockIds
    <3>1. owner[table[KeyOf[u]]] = u /\ table[KeyOf[u]] # None
      BY <2>0 DEF LockInv
    <3>2. table[KeyOf[u]] \in LockIds \cup {None}
      BY <2>0 DEF LockInv, TypeOK
    <3> QED  BY <3>1, <3>2
  <2>2. table[KeyOf[u]] # l
    BY <2>1, <2>k
  <2> QED  BY <2>1, <2>2, <2>k
<1> QED  BY <1>1, <1>3, <1>4, <1>5 DEF LockInv

\* Every step keeps the inductive invariant of the lock.
LEMMA LockStep ==
    ASSUME LockInv, [Next]_vars
    PROVE  LockInv'
<1> USE DEF Go, PCs, Referring
<1>1. CASE UNCHANGED vars
  BY <1>1 DEF vars, LockInv, TypeOK, OneLockPerAccount
<1>2. ASSUME NEW t \in Tasks, Start(t) \/ Step(t) \/ Timeout(t)
      PROVE  LockInv'
  <2>k. KeyOf \in [Tasks -> Keys] /\ None \notin LockIds /\ None \notin Tasks
    BY ExitLockAssumption DEF ExitLockAssumption
  <2>t. TypeOK
    BY DEF LockInv
  <2>1. CASE Start(t)
    BY <2>1 DEF Start, LockInv, TypeOK, OneLockPerAccount
  <2>2. CASE ExitHeld(t)
    BY <2>2 DEF ExitHeld, LockInv, TypeOK, OneLockPerAccount
  <2>3. CASE LookFree(t)
    BY <2>3 DEF LookFree, AfterLook, LockInv, TypeOK, OneLockPerAccount
  <2>4. CASE LookHeld(t)
    BY <2>4 DEF LookHeld, LockInv, TypeOK, OneLockPerAccount
  <2>5. CASE LookTakes(t)
    <3> DEFINE l == table[KeyOf[t]]
    <3>1. l \in LockIds
      BY <2>5, <2>k, <2>t DEF LookTakes, TypeOK
    <3>2. /\ pc[t] = "look" /\ pc' = [pc EXCEPT ![t] = "looking"]
          /\ owner[l] = None /\ owner' = [owner EXCEPT ![l] = t]
          /\ arc' = arc /\ table' = table /\ exit' = exit /\ queue' = queue
      BY <2>5 DEF LookTakes
    <3>3. arc[t] = None
      BY <3>2 DEF LockInv
    <3> HIDE DEF l
    <3>4. /\ owner' \in [LockIds -> Tasks \cup {None}] /\ owner'[l] = t
          /\ queue' \in [LockIds -> Seq(Tasks)]
          /\ \A m \in LockIds : m # l => owner'[m] = owner[m]
      BY <2>t, <3>1, <3>2 DEF TypeOK
    <3> QED  BY <3>1, <3>2, <3>3, <3>4, OwnerStep DEF l
  <2>6. CASE LookEnds(t)
    <3> DEFINE l == table[KeyOf[t]]
    <3>1. l \in LockIds /\ owner[l] = t /\ arc[t] = None
      <4>1. pc[t] = "looking" /\ KeyOf[t] \in Keys
        BY <2>6, <2>k DEF LookEnds
      <4>2. owner[l] = t /\ l # None /\ arc[t] = None
        BY <4>1 DEF LockInv
      <4>3. l \in LockIds \cup {None}
        BY <4>1, <2>t DEF TypeOK
      <4> QED  BY <4>2, <4>3
    <3>2. HandOn(l) /\ arc' = arc /\ table' = table /\ exit' = exit
      BY <2>6 DEF LookEnds
    <3>3. PICK to \in {"claim", "idle"} : pc' = [pc EXCEPT ![t] = to]
      BY <2>6 DEF LookEnds, AfterLook
    <3> HIDE DEF l
    <3>4. /\ owner' \in [LockIds -> Tasks \cup {None}]
          /\ queue' \in [LockIds -> Seq(Tasks)]
          /\ \A m \in LockIds : m # l => owner'[m] = owner[m]
      BY <2>t, <3>1, <3>2, HandOnType
    <3> QED  BY <3>1, <3>2, <3>3, <3>4, OwnerStep
  <2>7. CASE try_begin_exit(t)
    <3>1. PICK to \in {"idle", "clone"} : pc[t] = "claim" /\ pc' = [pc EXCEPT ![t] = to]
      BY <2>7 DEF try_begin_exit
    <3>2. exit' \in SUBSET Positions /\ UNCHANGED <<arc, table, owner, queue>>
      BY <2>7, <2>t, ExitLockAssumption DEF try_begin_exit, TypeOK, ExitLockAssumption
    <3> QED  BY <3>1, <3>2 DEF LockInv, TypeOK, OneLockPerAccount
  <2>8. CASE CloneToTry(t)
    <3>1. arc[t] = None
      BY <2>8 DEF CloneToTry, LockInv
    <3>2. exit_mint_lock(t) /\ UNCHANGED <<exit, owner, queue>>
      BY <2>8 DEF CloneToTry, exit_mint_lock
    <3>3. /\ arc' \in [Tasks -> LockIds \cup {None}]
          /\ table' \in [Keys -> LockIds \cup {None}]
          /\ OneLockPerAccount'
          /\ arc'[t] # None
          /\ \A u \in Tasks : u # t => arc'[u] = arc[u]
          /\ \A k \in Keys : table[k] # None => table'[k] = table[k]
      BY <3>1, <3>2, CloneKeeps
    <3> QED  BY <2>8, <2>k, <3>2, <3>3 DEF CloneToTry, LockInv, TypeOK
  <2>9. CASE try_lock_owned(t)
    <3> DEFINE l == arc[t]
    <3>1. pc[t] = "try" /\ arc' = arc /\ table' = table /\ exit' = exit
      BY <2>9 DEF try_lock_owned
    <3>2. l \in LockIds
      BY <2>t, <3>1 DEF LockInv, TypeOK
    <3>3. CASE owner[l] = None
      <4>1. owner' = [owner EXCEPT ![l] = t] /\ pc' = [pc EXCEPT ![t] = "working"] /\ queue' = queue
        BY <2>9, <3>3 DEF try_lock_owned
      <4> HIDE DEF l
      <4>2. /\ owner' \in [LockIds -> Tasks \cup {None}] /\ owner'[l] = t
            /\ queue' \in [LockIds -> Seq(Tasks)]
            /\ \A m \in LockIds : m # l => owner'[m] = owner[m]
        BY <2>t, <3>2, <4>1 DEF TypeOK
      <4>3. arc[t] = l /\ arc[t] # None
        BY <2>k, <3>2 DEF l
      <4> QED  BY <3>1, <3>2, <3>3, <4>1, <4>2, <4>3, OwnerStep
    <3>4. CASE owner[l] # None
      <4>1. owner' = owner /\ pc' = [pc EXCEPT ![t] = "lost"]
        BY <2>9, <3>4 DEF try_lock_owned
      <4>2. queue' \in [LockIds -> Seq(Tasks)]
        BY <2>9, <2>t, <3>2, <3>4 DEF try_lock_owned, TypeOK
      <4> QED  BY <3>1, <4>1, <4>2 DEF LockInv, TypeOK, OneLockPerAccount
    <3> QED  BY <3>3, <3>4
  <2>10. CASE DropTry(t)
    BY <2>10, <2>k DEF DropTry, LockInv, TypeOK, OneLockPerAccount
  <2>11. CASE CloneToQueue(t)
    <3>1. arc[t] = None
      BY <2>11 DEF CloneToQueue, LockInv
    <3>2. exit_mint_lock(t) /\ UNCHANGED <<exit, owner, queue>>
      BY <2>11 DEF CloneToQueue, exit_mint_lock
    <3>3. /\ arc' \in [Tasks -> LockIds \cup {None}]
          /\ table' \in [Keys -> LockIds \cup {None}]
          /\ OneLockPerAccount'
          /\ arc'[t] # None
          /\ \A u \in Tasks : u # t => arc'[u] = arc[u]
          /\ \A k \in Keys : table[k] # None => table'[k] = table[k]
      BY <3>1, <3>2, CloneKeeps
    <3> QED  BY <2>11, <2>k, <3>2, <3>3 DEF CloneToQueue, LockInv, TypeOK
  <2>12. CASE lock_owned(t)
    <3> DEFINE l == arc[t]
    <3>1. pc[t] = "lock" /\ arc' = arc /\ table' = table /\ exit' = exit
      BY <2>12 DEF lock_owned
    <3>2. l \in LockIds
      BY <2>t, <3>1 DEF LockInv, TypeOK
    <3>3. CASE owner[l] = None
      <4>1. owner' = [owner EXCEPT ![l] = t] /\ pc' = [pc EXCEPT ![t] = "working"] /\ queue' = queue
        BY <2>12, <3>3 DEF lock_owned
      <4> HIDE DEF l
      <4>2. /\ owner' \in [LockIds -> Tasks \cup {None}] /\ owner'[l] = t
            /\ queue' \in [LockIds -> Seq(Tasks)]
            /\ \A m \in LockIds : m # l => owner'[m] = owner[m]
        BY <2>t, <3>2, <4>1 DEF TypeOK
      <4>3. arc[t] = l /\ arc[t] # None
        BY <2>k, <3>2 DEF l
      <4> QED  BY <3>1, <3>2, <3>3, <4>1, <4>2, <4>3, OwnerStep
    <3>4. CASE owner[l] # None
      <4>1. owner' = owner /\ pc' = [pc EXCEPT ![t] = "queued"]
        BY <2>12, <3>4 DEF lock_owned
      <4>2. queue' \in [LockIds -> Seq(Tasks)]
        <5>1. queue[l] \in Seq(Tasks)
          BY <2>t, <3>2 DEF TypeOK
        <5>2. Append(queue[l], t) \in Seq(Tasks)
          BY <5>1
        <5>3. queue' = [queue EXCEPT ![l] = Append(queue[l], t)]
          BY <2>12, <3>4 DEF lock_owned
        <5> HIDE DEF l
        <5> QED  BY <2>t, <3>2, <5>2, <5>3 DEF TypeOK
      <4> QED  BY <3>1, <4>1, <4>2 DEF LockInv, TypeOK, OneLockPerAccount
    <3> QED  BY <3>3, <3>4
  <2>13. CASE Granted(t)
    BY <2>13, <2>k DEF Granted, LockInv, TypeOK, OneLockPerAccount
  <2>14. CASE Unlock(t)
    <3> DEFINE l == arc[t]
    <3>1. l \in LockIds /\ owner[l] = t
      BY <2>14 DEF Unlock, LockInv, TypeOK
    <3>2. /\ HandOn(l) /\ arc' = arc /\ table' = table /\ exit' = exit
          /\ pc' = [pc EXCEPT ![t] = "unlocked"]
      BY <2>14 DEF Unlock
    <3>3. arc[t] # None
      BY <2>k, <3>1
    <3> HIDE DEF l
    <3>4. /\ owner' \in [LockIds -> Tasks \cup {None}]
          /\ queue' \in [LockIds -> Seq(Tasks)]
          /\ \A m \in LockIds : m # l => owner'[m] = owner[m]
      BY <2>t, <3>1, <3>2, HandOnType
    <3> QED  BY <3>1, <3>2, <3>3, <3>4, OwnerStep
  <2>15. CASE DropArc(t)
    BY <2>15, <2>k DEF DropArc, LockInv, TypeOK, OneLockPerAccount
  <2>16. CASE prune_exit_mint(t)
    <3>1. \A u \in Tasks : pc[u] = "looking" => KeyOf[u] # KeyOf[t]
      BY <2>16 DEF prune_exit_mint, ShardFree
    <3>2. UNCHANGED <<arc, exit, owner, queue>>
      BY <2>16 DEF prune_exit_mint
    <3>3. /\ table' \in [Keys -> LockIds \cup {None}]
          /\ \A k \in Keys : k # KeyOf[t] => table'[k] = table[k]
      BY <2>16, <2>k DEF prune_exit_mint, LockInv, TypeOK
    <3>4. OneLockPerAccount'
      <4> SUFFICES ASSUME NEW u \in Tasks, arc[u] # None
                   PROVE  table'[KeyOf[u]] = arc[u]
        BY <3>2 DEF OneLockPerAccount
      <4>1. table[KeyOf[u]] = arc[u] /\ KeyOf[u] \in Keys
        BY <2>k DEF LockInv, OneLockPerAccount
      <4>2. CASE KeyOf[u] = KeyOf[t]
        <5>1. ~OnlyMapHolds(KeyOf[t])
          BY <4>1, <4>2 DEF OnlyMapHolds
        <5> QED  BY <2>16, <4>1, <5>1 DEF prune_exit_mint
      <4> QED  BY <3>3, <4>1, <4>2
    <3> QED  BY <2>16, <2>k, <3>1, <3>2, <3>3, <3>4 DEF prune_exit_mint, LockInv, TypeOK
  <2>17. CASE Leave(t)
    BY <2>17, <2>k DEF Leave, LockInv, TypeOK, OneLockPerAccount
  <2>18. CASE Timeout(t)
    <3>1. arc[t] \in LockIds
      BY <2>18 DEF Timeout, LockInv, TypeOK
    <3>2. CASE owner[arc[t]] = t
      <4> DEFINE l == arc[t]
      <4>1. /\ HandOn(l) /\ arc' = arc /\ table' = table /\ exit' = exit
            /\ pc' = [pc EXCEPT ![t] = "unlocked"] /\ owner[l] = t /\ l \in LockIds
        BY <2>18, <3>1, <3>2 DEF Timeout
      <4>2. arc[t] # None
        BY <2>k, <3>1
      <4> HIDE DEF l
      <4>3. /\ owner' \in [LockIds -> Tasks \cup {None}]
            /\ queue' \in [LockIds -> Seq(Tasks)]
            /\ \A m \in LockIds : m # l => owner'[m] = owner[m]
        BY <2>t, <4>1, HandOnType
      <4> QED  BY <4>1, <4>2, <4>3, OwnerStep
    <3>3. CASE owner[arc[t]] # t
      <4>1. PICK i \in 1..Len(queue[arc[t]]) :
                queue' = [queue EXCEPT ![arc[t]] = Without(queue[arc[t]], i)]
        BY <2>18, <3>3 DEF Timeout
      <4>2. queue[arc[t]] \in Seq(Tasks)
        BY <3>1 DEF LockInv, TypeOK
      <4>3. Without(queue[arc[t]], i) \in Seq(Tasks)
        BY <4>2, WithoutType
      <4>4. queue' \in [LockIds -> Seq(Tasks)]
        BY <3>1, <4>1, <4>3 DEF LockInv, TypeOK
      <4> QED  BY <2>18, <2>k, <3>1, <3>3, <4>4 DEF Timeout, LockInv, TypeOK, OneLockPerAccount
    <3> QED  BY <3>2, <3>3
  <2> QED  BY <1>2, <2>1, <2>2, <2>3, <2>4, <2>5, <2>6, <2>7, <2>8, <2>9, <2>10, <2>11, <2>12,
              <2>13, <2>14, <2>15, <2>16, <2>17, <2>18 DEF Step
<1> QED  BY <1>1, <1>2 DEF Next

\* Two sellers of one account refer to one lock, and its mutex has one owner.
LEMMA LockImplies ==
    ASSUME LockInv
    PROVE  OneSellPerAccount
BY DEF LockInv, OneLockPerAccount, OneSellPerAccount, Referring

\* For any tasks and accounts, all that refer to an account's lock refer to the one
\* in the map, although it is removed and made again (exit_mint_lock, prune_exit_mint).
THEOREM LockCorrect == Spec => []OneLockPerAccount
<1>1. Init => LockInv
  BY ExitLockAssumption DEF Init, LockInv, TypeOK, OneLockPerAccount, PCs, Referring, ExitLockAssumption
<1>2. LockInv /\ [Next]_vars => LockInv'
  BY LockStep
<1>3. LockInv => OneLockPerAccount
  BY DEF LockInv
<1> QED  BY <1>1, <1>2, <1>3, PTL DEF Spec

\* For any tasks and accounts, no two tasks sell from one token account at once.
THEOREM SellCorrect == Spec => []OneSellPerAccount
<1>1. Init => LockInv
  BY ExitLockAssumption DEF Init, LockInv, TypeOK, OneLockPerAccount, PCs, Referring, ExitLockAssumption
<1>2. LockInv /\ [Next]_vars => LockInv'
  BY LockStep
<1>3. LockInv => OneSellPerAccount
  BY LockImplies
<1> QED  BY <1>1, <1>2, <1>3, PTL DEF Spec

------------------------------------------------------------------------------
\* What the claims need: types of the control points, who reaches them, and the
\* claims themselves.
ClaimInv ==
    /\ pc \in [Tasks -> PCs]
    /\ KindInv
    /\ ClaimsExact

\* A step that moves no task into or out of the claimed points keeps the claims.
LEMMA SameClaims ==
    ASSUME ClaimInv, UNCHANGED exit,
           \A u \in Tasks : Claimed(u)' <=> Claimed(u)
    PROVE  ClaimsExact'
BY DEF ClaimInv, ClaimsExact

\* Every step keeps the claims exact.
LEMMA ClaimStep ==
    ASSUME ClaimInv, [Next]_vars
    PROVE  ClaimInv'
<1> USE DEF Go, PCs
<1>k. /\ Kind \in [Tasks -> Kinds]
      /\ pc \in [Tasks -> PCs]
  BY ExitLockAssumption DEF ExitLockAssumption, ClaimInv
<1>1. CASE UNCHANGED vars
  <2>1. \A u \in Tasks : Claimed(u)' <=> Claimed(u)
    BY <1>1 DEF vars, Claimed
  <2> QED  BY <1>1, <2>1, SameClaims DEF vars, ClaimInv, KindInv
<1>2. ASSUME NEW t \in Tasks, Start(t) \/ Step(t) \/ Timeout(t)
      PROVE  ClaimInv'
  <2>1. CASE try_begin_exit(t)
    <3>1. pc[t] = "claim" /\ Kind[t] \in {"exit", "orphan"} /\ ~Claimed(t)
      BY <2>1, <1>k DEF try_begin_exit, ClaimInv, KindInv, Kinds, Claimed
    <3>2. CASE PosOf[t] \in exit
      <4>1. pc' = [pc EXCEPT ![t] = "idle"] /\ exit' = exit
        BY <2>1, <3>2 DEF try_begin_exit
      <4>2. \A u \in Tasks : Claimed(u)' <=> Claimed(u)
        BY <3>1, <4>1, <1>k DEF Claimed
      <4> QED  BY <4>1, <4>2, <1>k, SameClaims DEF ClaimInv, KindInv
    <3>3. CASE PosOf[t] \notin exit
      <4>1. pc' = [pc EXCEPT ![t] = "clone"] /\ exit' = exit \cup {PosOf[t]}
        BY <2>1, <3>3 DEF try_begin_exit
      <4>2. \A u \in Tasks : Claimed(u)' <=> (Claimed(u) \/ u = t)
        BY <3>1, <4>1, <1>k DEF Claimed
      <4>3. \A u \in Tasks : Claimed(u) => PosOf[u] \in exit
        BY DEF ClaimInv, ClaimsExact
      <4>4. ClaimsExact'
        BY <3>3, <4>1, <4>2, <4>3 DEF ClaimInv, ClaimsExact
      <4> QED  BY <3>1, <4>1, <4>4, <1>k DEF ClaimInv, KindInv
    <3> QED  BY <3>2, <3>3
  <2>2. CASE Leave(t)
    <3>1. /\ pc[t] = "leave" /\ pc' = [pc EXCEPT ![t] = "idle"]
          /\ exit' = exit \ {PosOf[t]}
      BY <2>2 DEF Leave
    <3>2. Claimed(t)
      BY <3>1, <1>k DEF ClaimInv, KindInv, Kinds, Claimed
    <3>3. \A u \in Tasks : Claimed(u)' <=> (Claimed(u) /\ u # t)
      BY <3>1, <1>k DEF Claimed
    <3>4. \A u \in Tasks : (Claimed(u) /\ u # t) => PosOf[u] # PosOf[t]
      BY <3>2 DEF ClaimInv, ClaimsExact
    <3>5. ClaimsExact'
      BY <3>1, <3>3, <3>4 DEF ClaimInv, ClaimsExact
    <3> QED  BY <3>1, <3>5, <1>k DEF ClaimInv, KindInv
  <2>3. CASE ~try_begin_exit(t) /\ ~Leave(t)
    <3>1. UNCHANGED exit
      BY <1>2, <2>3 DEF Start, Step, Timeout, ExitHeld, LookFree, LookHeld, LookTakes, LookEnds,
            CloneToTry, exit_mint_lock, try_lock_owned, DropTry, CloneToQueue, lock_owned,
            Granted, Unlock, DropArc, prune_exit_mint
    <3>2. \E to \in PCs : pc' = [pc EXCEPT ![t] = to] /\ (Claimed(t)' <=> Claimed(t))
      <4> USE <1>k DEF ClaimInv, KindInv, Kinds, Claimed
      <4>1. CASE Start(t)
        BY <4>1 DEF Start
      <4>2. CASE ExitHeld(t)
        BY <4>2 DEF ExitHeld
      <4>3. CASE LookFree(t) \/ LookHeld(t) \/ LookTakes(t) \/ LookEnds(t)
        BY <4>3 DEF LookFree, LookHeld, LookTakes, LookEnds, AfterLook
      <4>4. CASE CloneToTry(t) \/ CloneToQueue(t)
        BY <4>4 DEF CloneToTry, CloneToQueue
      <4>5. CASE try_lock_owned(t)
        BY <4>5 DEF try_lock_owned
      <4>6. CASE DropTry(t)
        BY <4>6 DEF DropTry
      <4>7. CASE lock_owned(t) \/ Granted(t) \/ Timeout(t)
        BY <4>7 DEF lock_owned, Granted, Timeout
      <4>8. CASE Unlock(t) \/ DropArc(t)
        BY <4>8 DEF Unlock, DropArc
      <4>9. CASE prune_exit_mint(t)
        BY <4>9 DEF prune_exit_mint
      <4> QED  BY <1>2, <2>3, <4>1, <4>2, <4>3, <4>4, <4>5, <4>6, <4>7, <4>8, <4>9 DEF Step
    <3>3. \A u \in Tasks : Claimed(u)' <=> Claimed(u)
      BY <3>2, <1>k DEF Claimed
    <3>4. ClaimsExact'
      BY <3>1, <3>3, SameClaims
    <3>5. pc' \in [Tasks -> PCs]
      BY <3>2, <1>k
    <3>6. KindInv'
      <4> USE <1>k DEF ClaimInv, KindInv, Kinds
      <4>1. CASE Start(t)
        BY <4>1 DEF Start
      <4>2. CASE ExitHeld(t)
        BY <4>2 DEF ExitHeld
      <4>3. CASE LookFree(t) \/ LookHeld(t) \/ LookTakes(t) \/ LookEnds(t)
        BY <4>3 DEF LookFree, LookHeld, LookTakes, LookEnds, AfterLook
      <4>4. CASE CloneToTry(t) \/ CloneToQueue(t)
        BY <4>4 DEF CloneToTry, CloneToQueue
      <4>5. CASE try_lock_owned(t)
        BY <4>5 DEF try_lock_owned
      <4>6. CASE DropTry(t)
        BY <4>6 DEF DropTry
      <4>7. CASE lock_owned(t) \/ Granted(t) \/ Timeout(t)
        BY <4>7 DEF lock_owned, Granted, Timeout
      <4>8. CASE Unlock(t) \/ DropArc(t)
        BY <4>8 DEF Unlock, DropArc
      <4>9. CASE prune_exit_mint(t)
        BY <4>9 DEF prune_exit_mint
      <4> QED  BY <1>2, <2>3, <4>1, <4>2, <4>3, <4>4, <4>5, <4>6, <4>7, <4>8, <4>9 DEF Step
    <3> QED  BY <3>4, <3>5, <3>6 DEF ClaimInv
  <2> QED  BY <2>1, <2>2, <2>3
<1> QED  BY <1>1, <1>2 DEF Next

\* For any tasks and positions, the claimed positions are those of the running
\* exits, one task each.
THEOREM ClaimsCorrect == Spec => []ClaimsExact
<1>1. Init => ClaimInv
  BY ExitLockAssumption DEF Init, ClaimInv, KindInv, ClaimsExact, Claimed, PCs, ExitLockAssumption, Kinds
<1>2. ClaimInv /\ [Next]_vars => ClaimInv'
  BY ClaimStep
<1>3. ClaimInv => ClaimsExact
  BY DEF ClaimInv
<1> QED  BY <1>1, <1>2, <1>3, PTL DEF Spec
=============================================================================
