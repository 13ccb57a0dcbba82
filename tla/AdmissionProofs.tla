-------------------------- MODULE AdmissionProofs --------------------------
(* Proofs about the two programs that let callers in while there is room:    *)
(* keylock, for any callers and any finite set of keys, and ratelimit, for   *)
(* any callers, maxCount and interval.                                       *)
EXTENDS KeyLock, RateLimit, SetLemmas


---------------------------------------------------------------------------
(* keylock: the inductive invariant.                                       *)

\* mu is held by the one caller inside wakeUp, and only it has keys to visit.
MutexHeld == /\ \A g \in Goroutines : pc[g] = "waking" <=> mu = g
             /\ mu = Free => todo = {}

\* A token lies only in the blocker of a waiter that was woken, and only a
\* waiter that went through the queues can have been woken.
Tokens == \A g \in Goroutines :
            /\ blocker[g] = 1 => inStarting[g]
            /\ inStarting[g] => pc[g] \notin {"idle", "calling"}

\* A queued waiter that needs nothing more has a key that wakeUp has still to
\* visit: this is NoLostWakeup carried through the steps of wakeUp.
WakeupPending ==
  \A g \in Goroutines :
    Queued(g) /\ usingKeys[g] \cap allLockedKeys = {} => usingKeys[g] \cap todo # {}

IInv == /\ TypeOK
        /\ QueuesExact
        /\ CountExact
        /\ LockedExact
        /\ MutualExclusion
        /\ MutexHeld
        /\ Tokens
        /\ WakeupPending

---------------------------------------------------------------------------
(* keylock: counting.                                                      *)

\* Locking K adds to the locked keys of U those of K that were unlocked.
LEMMA CountLock ==
  ASSUME NEW U \in SUBSET Keys, NEW L \in SUBSET Keys, NEW K \in SUBSET Keys
  PROVE  /\ Cardinality(U \cap L) \in Nat
         /\ Cardinality({k \in K : k \in U \ L}) \in Nat
         /\ Cardinality(U \cap (L \cup K))
              = Cardinality(U \cap L) + Cardinality({k \in K : k \in U \ L})
<1> DEFINE A == U \cap L
           B == {k \in K : k \in U \ L}
<1>1. IsFiniteSet(A) /\ IsFiniteSet(B)
  BY KeyLockAssumption, FS_Subset
<1>2. A \cap B = {} /\ U \cap (L \cup K) = A \cup B
  OBVIOUS
<1>3. Cardinality(A \cup B) = Cardinality(A) + Cardinality(B) - Cardinality(A \cap B)
  BY <1>1, FS_Union
<1>4. Cardinality(A \cap B) = 0
  BY <1>2, FS_EmptySet
<1>5. Cardinality(A) \in Nat /\ Cardinality(B) \in Nat
  BY <1>1, FS_CardinalityType
<1>6. Cardinality(A \cup B) = Cardinality(A) + Cardinality(B)
  BY <1>3, <1>4, <1>5
<1>7. QED
  BY <1>2, <1>5, <1>6

\* Freeing K takes from the locked keys of U those that are in K.
LEMMA CountFree ==
  ASSUME NEW U \in SUBSET Keys, NEW L \in SUBSET Keys, NEW K \in SUBSET Keys
  PROVE  /\ Cardinality(U \cap L) - Cardinality({k \in K : k \in U \cap L}) \in Nat
         /\ Cardinality(U \cap (L \ K))
              = Cardinality(U \cap L) - Cardinality({k \in K : k \in U \cap L})
<1> DEFINE A == U \cap (L \ K)
           B == {k \in K : k \in U \cap L}
<1>1. IsFiniteSet(A) /\ IsFiniteSet(B)
  BY KeyLockAssumption, FS_Subset
<1>2. A \cap B = {} /\ U \cap L = A \cup B
  OBVIOUS
<1>3. Cardinality(A \cup B) = Cardinality(A) + Cardinality(B) - Cardinality(A \cap B)
  BY <1>1, FS_Union
<1>4. Cardinality(A \cap B) = 0
  BY <1>2, FS_EmptySet
<1>5. Cardinality(A) \in Nat /\ Cardinality(B) \in Nat
  BY <1>1, FS_CardinalityType
<1>6. Cardinality(A \cup B) = Cardinality(A) + Cardinality(B)
  BY <1>3, <1>4, <1>5
<1>7. Cardinality(U \cap L) = Cardinality(A) + Cardinality(B)
  BY <1>2, <1>6
<1>8. QED
  BY <1>5, <1>7

\* A waiter that needs nothing has no locked key, and conversely.
LEMMA CountZero ==
  ASSUME NEW U \in SUBSET Keys, NEW L \in SUBSET Keys
  PROVE  Cardinality(U \cap L) = 0 <=> U \cap L = {}
<1>1. IsFiniteSet(U \cap L)
  BY KeyLockAssumption, FS_Subset
<1>2. QED
  BY <1>1, FS_EmptySet

---------------------------------------------------------------------------
(* keylock: what the helpers do to exact queues and counts.                *)

\* The queues and counts agree with allLockedKeys after the step, for the
\* waiters that were queued before it.
FollowLocks ==
  /\ keysNeeded' = [k \in Keys |->
       {g \in Goroutines : Queued(g) /\ k \in usingKeys[g] \cap allLockedKeys'}]
  /\ keysFree' = [k \in Keys |->
       {g \in Goroutines : Queued(g) /\ k \in usingKeys[g] \ allLockedKeys'}]
  /\ neededCnt' \in [Goroutines -> Nat]
  /\ \A g \in Goroutines :
       Queued(g) => neededCnt'[g] = Cardinality(usingKeys[g] \cap allLockedKeys')

\* Locking keys moves their free waiters over and keeps the counts exact.
LEMMA LockKeysExact ==
  ASSUME TypeOK, QueuesExact, CountExact, NEW K \in SUBSET Keys, lockKeys(K)
  PROVE  FollowLocks
<1>1. allLockedKeys' = allLockedKeys \cup K
  BY DEF lockKeys
<1>2. \A g \in Goroutines :
        /\ Queued(g) => {k \in K : g \in keysFree[k]} = {k \in K : k \in usingKeys[g] \ allLockedKeys}
        /\ ~Queued(g) => {k \in K : g \in keysFree[k]} = {}
  BY DEF QueuesExact
<1>3. ASSUME NEW g \in Goroutines
      PROVE  /\ neededCnt'[g] \in Nat
             /\ Queued(g) => neededCnt'[g] = Cardinality(usingKeys[g] \cap allLockedKeys')
  <2>1. neededCnt'[g] = neededCnt[g] + Cardinality({k \in K : g \in keysFree[k]})
    BY DEF lockKeys, Places
  <2>2. CASE Queued(g)
    <3>1. usingKeys[g] \in SUBSET Keys /\ allLockedKeys \in SUBSET Keys
      BY DEF TypeOK
    <3>2. neededCnt'[g] = Cardinality(usingKeys[g] \cap allLockedKeys)
                            + Cardinality({k \in K : k \in usingKeys[g] \ allLockedKeys})
      BY <1>2, <2>1, <2>2 DEF CountExact
    <3>3. /\ Cardinality(usingKeys[g] \cap allLockedKeys) \in Nat
          /\ Cardinality({k \in K : k \in usingKeys[g] \ allLockedKeys}) \in Nat
          /\ Cardinality(usingKeys[g] \cap (allLockedKeys \cup K))
               = Cardinality(usingKeys[g] \cap allLockedKeys)
                   + Cardinality({k \in K : k \in usingKeys[g] \ allLockedKeys})
      BY <3>1, CountLock, ZenonT(90)
    <3>4. QED
      BY <1>1, <3>2, <3>3
  <2>3. CASE ~Queued(g)
    <3>1. Cardinality({k \in K : g \in keysFree[k]}) = 0
      BY <1>2, <2>3, FS_EmptySet
    <3>2. QED
      BY <2>1, <2>3, <3>1 DEF TypeOK
  <2>4. QED
    BY <2>2, <2>3
<1>4. neededCnt' \in [Goroutines -> Nat]
  BY <1>3 DEF lockKeys
<1>5. /\ keysNeeded' = [k \in Keys |->
             {g \in Goroutines : Queued(g) /\ k \in usingKeys[g] \cap allLockedKeys'}]
      /\ keysFree' = [k \in Keys |->
             {g \in Goroutines : Queued(g) /\ k \in usingKeys[g] \ allLockedKeys'}]
  BY <1>1 DEF TypeOK, lockKeys, Joined, Emptied, QueuesExact
<1>6. QED
  BY <1>3, <1>4, <1>5 DEF FollowLocks

\* So does freeing keys, the other way.
LEMMA FreeKeysExact ==
  ASSUME TypeOK, QueuesExact, CountExact, NEW K \in SUBSET Keys, freeKeys(K)
  PROVE  FollowLocks
<1>1. allLockedKeys' = allLockedKeys \ K
  BY DEF freeKeys
<1>2. \A g \in Goroutines :
        /\ Queued(g) => {k \in K : g \in keysNeeded[k]} = {k \in K : k \in usingKeys[g] \cap allLockedKeys}
        /\ ~Queued(g) => {k \in K : g \in keysNeeded[k]} = {}
  BY DEF QueuesExact
<1>3. ASSUME NEW g \in Goroutines
      PROVE  /\ neededCnt'[g] \in Nat
             /\ Queued(g) => neededCnt'[g] = Cardinality(usingKeys[g] \cap allLockedKeys')
  <2>1. neededCnt'[g] = neededCnt[g] - Cardinality({k \in K : g \in keysNeeded[k]})
    BY DEF freeKeys, Places
  <2>2. CASE Queued(g)
    <3>1. usingKeys[g] \in SUBSET Keys /\ allLockedKeys \in SUBSET Keys
      BY DEF TypeOK
    <3>2. neededCnt'[g] = Cardinality(usingKeys[g] \cap allLockedKeys)
                            - Cardinality({k \in K : k \in usingKeys[g] \cap allLockedKeys})
      BY <1>2, <2>1, <2>2 DEF CountExact
    <3>3. /\ Cardinality(usingKeys[g] \cap allLockedKeys)
               - Cardinality({k \in K : k \in usingKeys[g] \cap allLockedKeys}) \in Nat
          /\ Cardinality(usingKeys[g] \cap (allLockedKeys \ K))
               = Cardinality(usingKeys[g] \cap allLockedKeys)
                   - Cardinality({k \in K : k \in usingKeys[g] \cap allLockedKeys})
      BY <3>1, CountFree, ZenonT(30)
    <3>4. QED
      BY <1>1, <3>2, <3>3
  <2>3. CASE ~Queued(g)
    <3>1. Cardinality({k \in K : g \in keysNeeded[k]}) = 0
      BY <1>2, <2>3, FS_EmptySet
    <3>2. QED
      BY <2>1, <2>3, <3>1 DEF TypeOK
  <2>4. QED
    BY <2>2, <2>3
<1>4. neededCnt' \in [Goroutines -> Nat]
  BY <1>3 DEF freeKeys
<1>5. /\ keysNeeded' = [k \in Keys |->
             {g \in Goroutines : Queued(g) /\ k \in usingKeys[g] \cap allLockedKeys'}]
      /\ keysFree' = [k \in Keys |->
             {g \in Goroutines : Queued(g) /\ k \in usingKeys[g] \ allLockedKeys'}]
  BY <1>1 DEF TypeOK, freeKeys, Joined, Emptied, QueuesExact
<1>6. QED
  BY <1>3, <1>4, <1>5 DEF FollowLocks
---------------------------------------------------------------------------
(* keylock: every step preserves the invariant.                            *)

\* Nobody has called: all queues are empty.
THEOREM InitIInv == Init => IInv
  BY KeyLockAssumption DEF Init, IInv, TypeOK, QueuesExact, CountExact, LockedExact,
     MutualExclusion, MutexHeld, Tokens, WakeupPending, Queued, Owner, PCs

\* A step that leaves the queues alone, and the role and the keys of every
\* queued waiter and every owner, keeps what the invariant says of them.
RolesKept ==
  /\ UNCHANGED queues
  /\ \A h \in Goroutines : /\ Queued(h)' <=> Queued(h)
                           /\ Owner(h)' <=> Owner(h)
                           /\ Queued(h) \/ Owner(h) => usingKeys'[h] = usingKeys[h]

\* A step that leaves owners, queues and counts alone keeps what relates them.
LEMMA RolesKeptStep ==
  ASSUME IInv, RolesKept
  PROVE  /\ QueuesExact' /\ CountExact' /\ LockedExact' /\ MutualExclusion'
         /\ UNCHANGED todo => WakeupPending'
<1> USE DEF RolesKept, queues
<1>1. QueuesExact'
  BY DEF IInv, QueuesExact
<1>2. CountExact'
  BY DEF IInv, CountExact
<1>3. LockedExact'
  BY DEF IInv, LockedExact
<1>4. MutualExclusion'
  BY DEF IInv, MutualExclusion
<1>5. UNCHANGED todo => WakeupPending'
  BY DEF IInv, WakeupPending
<1>6. QED
  BY <1>1, <1>2, <1>3, <1>4, <1>5

\* A new call is in no queue yet.
LEMMA CallStep ==
  ASSUME IInv, NEW g \in Goroutines, NEW K \in SUBSET Keys, Call(g, K)
  PROVE  IInv'
<1> USE DEF Call, queues, Goto, waiter
<1>1. TypeOK'
  BY DEF IInv, TypeOK, PCs
<1>2. MutexHeld' /\ Tokens'
  BY KeyLockAssumption DEF IInv, TypeOK, MutexHeld, Tokens, Queued
<1>3. RolesKept
  BY DEF IInv, TypeOK, MutexHeld, Tokens, RolesKept, Queued, Owner
<1>4. QED
  BY <1>1, <1>2, <1>3, RolesKeptStep DEF IInv

\* Closing a cancel channel changes no queue.
LEMMA CancelStep ==
  ASSUME IInv, NEW g \in Goroutines, Cancel(g)
  PROVE  IInv'
<1> USE DEF Cancel, queues, Goto, waiter
<1>1. TypeOK'
  BY DEF IInv, TypeOK, PCs
<1>2. MutexHeld' /\ Tokens'
  BY KeyLockAssumption DEF IInv, TypeOK, MutexHeld, Tokens, Queued
<1>3. RolesKept
  BY DEF IInv, TypeOK, MutexHeld, Tokens, RolesKept, Queued, Owner
<1>4. QED
  BY <1>1, <1>2, <1>3, RolesKeptStep DEF IInv

\* A waiter that reads its token already had its keys.
LEMMA WokenStep ==
  ASSUME IInv, NEW g \in Goroutines, Woken(g)
  PROVE  IInv'
<1> USE DEF Woken, queues, Goto, waiter
<1>1. TypeOK'
  BY DEF IInv, TypeOK, PCs
<1>2. MutexHeld' /\ Tokens'
  BY KeyLockAssumption DEF IInv, TypeOK, MutexHeld, Tokens, Queued
<1>3. RolesKept
  BY DEF IInv, TypeOK, MutexHeld, Tokens, RolesKept, Queued, Owner
<1>4. QED
  BY <1>1, <1>2, <1>3, RolesKeptStep DEF IInv

\* A waiter that chooses to cancel is still in its queues.
LEMMA ChooseCancelStep ==
  ASSUME IInv, NEW g \in Goroutines, ChooseCancel(g)
  PROVE  IInv'
<1> USE DEF ChooseCancel, queues, Goto, waiter
<1>1. TypeOK'
  BY DEF IInv, TypeOK, PCs
<1>2. MutexHeld' /\ Tokens'
  BY KeyLockAssumption DEF IInv, TypeOK, MutexHeld, Tokens, Queued
<1>3. RolesKept
  BY DEF IInv, TypeOK, MutexHeld, Tokens, RolesKept, Queued, Owner
<1>4. QED
  BY <1>1, <1>2, <1>3, RolesKeptStep DEF IInv

\* When wakeUp ends, no key is left for WakeupPending to point at.
LEMMA EndReleaseStep ==
  ASSUME IInv, NEW g \in Goroutines, EndRelease(g)
  PROVE  IInv'
<1> USE DEF EndRelease, Forget, queues, Goto, waiter
<1>1. TypeOK'
  BY DEF IInv, TypeOK, PCs
<1>2. MutexHeld' /\ Tokens'
  BY KeyLockAssumption DEF IInv, TypeOK, MutexHeld, Tokens, Queued
<1>3. RolesKept
  BY DEF IInv, TypeOK, MutexHeld, Tokens, RolesKept, Queued, Owner
<1>4. QED
  BY <1>1, <1>2, <1>3, RolesKeptStep DEF IInv

\* No step, no change.
LEMMA StutterStep ==
  ASSUME IInv, UNCHANGED vars
  PROVE  IInv'
<1> USE DEF vars, queues, Goto, waiter
<1>1. TypeOK'
  BY DEF IInv, TypeOK, PCs
<1>2. MutexHeld' /\ Tokens'
  BY KeyLockAssumption DEF IInv, TypeOK, MutexHeld, Tokens, Queued
<1>3. RolesKept
  BY DEF IInv, TypeOK, MutexHeld, Tokens, RolesKept, Queued, Owner
<1>4. QED
  BY <1>1, <1>2, <1>3, RolesKeptStep DEF IInv

\* Keys that are all free get an owner at once.
LEMMA GrantNowStep ==
  ASSUME IInv, NEW g \in Goroutines, GrantNow(g)
  PROVE  IInv'
<1> DEFINE K == usingKeys[g]
<1>1. K \in SUBSET Keys /\ lockKeys(K) /\ allLockedKeys' = allLockedKeys \cup K
  BY DEF IInv, TypeOK, GrantNow, lockKeys
<1>2. FollowLocks
  BY <1>1, LockKeysExact DEF IInv
<1>3. /\ UNCHANGED usingKeys
      /\ \A h \in Goroutines : /\ Queued(h)' <=> Queued(h)
                               /\ Owner(h)' <=> Owner(h) \/ h = g
      /\ ~Owner(g)
  BY DEF IInv, TypeOK, Tokens, GrantNow, Goto, waiter, Queued, Owner
<1>4. TypeOK'
  BY <1>1, <1>2 DEF IInv, TypeOK, FollowLocks, GrantNow, Goto, waiter, PCs
<1>5. QueuesExact' /\ CountExact'
  BY <1>2, <1>3 DEF FollowLocks, QueuesExact, CountExact
<1>6. LockedExact'
  BY <1>1, <1>3 DEF IInv, LockedExact
<1>7. MutualExclusion'
  BY <1>3 DEF IInv, TypeOK, LockedExact, MutualExclusion, GrantNow
<1>8. MutexHeld' /\ Tokens'
  BY KeyLockAssumption DEF IInv, TypeOK, MutexHeld, Tokens, GrantNow, Goto, waiter
<1>9. WakeupPending'
  BY <1>1, <1>3 DEF IInv, WakeupPending, GrantNow
<1>10. QED
  BY <1>4, <1>5, <1>6, <1>7, <1>8, <1>9 DEF IInv

\* A new waiter has a locked key, or it would not wait.
LEMMA EnqueueStep ==
  ASSUME IInv, NEW g \in Goroutines, Enqueue(g)
  PROVE  IInv'
<1> DEFINE curNeeded == usingKeys[g] \cap allLockedKeys
<1>1. /\ UNCHANGED <<usingKeys, allLockedKeys, todo>>
      /\ \A h \in Goroutines : /\ Queued(h)' <=> Queued(h) \/ h = g
                               /\ Owner(h)' <=> Owner(h)
      /\ ~Queued(g)
  BY DEF IInv, TypeOK, Tokens, Enqueue, Goto, waiter, Queued, Owner
<1>2. Cardinality(curNeeded) \in Nat
  BY KeyLockAssumption, FS_Subset, FS_CardinalityType DEF IInv, TypeOK
<1>3. TypeOK'
  BY <1>2 DEF IInv, TypeOK, Enqueue, Goto, waiter, PCs
<1>4. QueuesExact'
  BY <1>1 DEF IInv, TypeOK, QueuesExact, Enqueue
<1>5. CountExact'
  BY <1>1 DEF IInv, TypeOK, CountExact, Enqueue
<1>6. LockedExact' /\ MutualExclusion'
  BY <1>1 DEF IInv, LockedExact, MutualExclusion
<1>7. MutexHeld' /\ Tokens'
  BY KeyLockAssumption DEF IInv, TypeOK, MutexHeld, Tokens, Enqueue, Goto, waiter
<1>8. WakeupPending'
  BY <1>1 DEF IInv, WakeupPending, Enqueue
<1>9. QED
  BY <1>3, <1>4, <1>5, <1>6, <1>7, <1>8 DEF IInv

\* A cancelled waiter leaves both queues of every key.
LEMMA WithdrawStep ==
  ASSUME IInv, NEW g \in Goroutines, Withdraw(g)
  PROVE  IInv'
<1>1. /\ UNCHANGED <<allLockedKeys, todo, mu>>
      /\ \A h \in Goroutines : /\ Queued(h)' <=> Queued(h) /\ h # g
                               /\ Owner(h)' <=> Owner(h)
                               /\ h # g => usingKeys'[h] = usingKeys[h]
      /\ Queued(g) /\ ~Owner(g)
  BY DEF IInv, TypeOK, Tokens, Withdraw, Forget, Goto, Queued, Owner
<1>2. TypeOK'
  BY DEF IInv, TypeOK, Withdraw, Forget, Goto, removeWaiter, PCs
<1>3. QueuesExact'
  BY <1>1 DEF IInv, TypeOK, QueuesExact, Withdraw, removeWaiter
<1>4. CountExact'
  BY <1>1 DEF IInv, TypeOK, CountExact, Withdraw
<1>5. LockedExact' /\ MutualExclusion'
  BY <1>1 DEF IInv, LockedExact, MutualExclusion
<1>6. MutexHeld' /\ Tokens'
  BY KeyLockAssumption DEF IInv, TypeOK, MutexHeld, Tokens, Withdraw, Forget, Goto
<1>7. WakeupPending'
  BY <1>1 DEF IInv, WakeupPending
<1>8. QED
  BY <1>2, <1>3, <1>4, <1>5, <1>6, <1>7 DEF IInv

\* The released keys are free, and wakeUp has all of them to visit.
LEMMA BeginReleaseStep ==
  ASSUME IInv, NEW g \in Goroutines, Owner(g), BeginRelease(g)
  PROVE  IInv'
<1> DEFINE K == usingKeys[g]
<1>1. K \in SUBSET Keys /\ freeKeys(K) /\ allLockedKeys' = allLockedKeys \ K
  BY DEF IInv, TypeOK, BeginRelease, freeKeys
<1>2. FollowLocks
  BY <1>1, FreeKeysExact DEF IInv
<1>3. /\ UNCHANGED usingKeys
      /\ \A h \in Goroutines : /\ Queued(h)' <=> Queued(h)
                               /\ Owner(h)' <=> Owner(h) /\ h # g
  BY DEF IInv, TypeOK, BeginRelease, Goto, waiter, Queued, Owner
<1>4. TypeOK'
  BY <1>1, <1>2 DEF IInv, TypeOK, FollowLocks, BeginRelease, Goto, waiter, PCs
<1>5. QueuesExact' /\ CountExact'
  BY <1>2, <1>3 DEF FollowLocks, QueuesExact, CountExact
<1>6. LockedExact'
  BY <1>1, <1>3 DEF IInv, LockedExact, MutualExclusion
<1>7. MutualExclusion'
  BY <1>3 DEF IInv, MutualExclusion
<1>8. MutexHeld' /\ Tokens'
  BY KeyLockAssumption DEF IInv, TypeOK, MutexHeld, Tokens, BeginRelease, Goto, waiter, Owner
<1>9. WakeupPending'
  BY <1>1, <1>3 DEF IInv, WakeupPending, MutexHeld, BeginRelease
<1>10. QED
  BY <1>4, <1>5, <1>6, <1>7, <1>8, <1>9 DEF IInv

\* A waiter that wakeUp finds ready is queued and has no locked key.
LEMMA ReadyWaiter ==
  ASSUME IInv, NEW k \in Keys, NEW w \in Ready(k)
  PROVE  /\ w \in Goroutines /\ Queued(w) /\ ~Owner(w)
         /\ k \in usingKeys[w]
         /\ usingKeys[w] \cap allLockedKeys = {}
<1>1. w \in Goroutines /\ Queued(w) /\ k \in usingKeys[w] /\ neededCnt[w] = 0
  BY DEF IInv, QueuesExact, Ready
<1>2. Cardinality(usingKeys[w] \cap allLockedKeys) = 0
  BY <1>1 DEF IInv, CountExact
<1>3. usingKeys[w] \in SUBSET Keys /\ allLockedKeys \in SUBSET Keys
  BY <1>1 DEF IInv, TypeOK
<1>4. usingKeys[w] \cap allLockedKeys = {}
  BY <1>2, <1>3, CountZero, ZenonT(30)
<1>5. QED
  BY <1>1, <1>4 DEF Queued, Owner

\* A woken waiter needs nothing more and gets all its keys.
LEMMA WakeOneStep ==
  ASSUME IInv, NEW g \in Goroutines, NEW k \in Keys, NEW w \in Goroutines,
         WakeOne(g, k, w)
  PROVE  IInv'
<1> DEFINE K == usingKeys[w]
           L == allLockedKeys \cup K
<1>1. /\ Queued(w) /\ ~Owner(w) /\ k \in K /\ K \in SUBSET Keys
      /\ K \cap allLockedKeys = {}
  BY ReadyWaiter DEF WakeOne, IInv, TypeOK
<1>2. /\ UNCHANGED <<usingKeys, pc, mu>>
      /\ allLockedKeys' = L
      /\ todo' = todo \ {k}
      /\ \A h \in Goroutines : /\ Queued(h)' <=> Queued(h) /\ h # w
                               /\ Owner(h)' <=> Owner(h) \/ h = w
  BY <1>1 DEF IInv, TypeOK, WakeOne, lockForWaiter, Queued, Owner
<1>3. \A h \in Goroutines :
        /\ Queued(h) => {x \in K : h \in keysFree[x]} = {x \in K : x \in usingKeys[h] \ allLockedKeys}
        /\ ~Queued(h) => {x \in K : h \in keysFree[x]} = {}
  BY <1>1 DEF IInv, QueuesExact
<1>4. ASSUME NEW h \in Goroutines, h # w
      PROVE  /\ neededCnt'[h] \in Nat
             /\ Queued(h) => neededCnt'[h] = Cardinality(usingKeys[h] \cap L)
  <2>1. neededCnt'[h] = neededCnt[h] + Cardinality({x \in K : h \in keysFree[x]})
    BY <1>4 DEF WakeOne, lockForWaiter, Places
  <2>2. CASE Queued(h)
    <3>1. usingKeys[h] \in SUBSET Keys /\ allLockedKeys \in SUBSET Keys /\ K \in SUBSET Keys
      BY <1>1 DEF IInv, TypeOK
    <3>2. neededCnt'[h] = Cardinality(usingKeys[h] \cap allLockedKeys)
                            + Cardinality({x \in K : x \in usingKeys[h] \ allLockedKeys})
      BY <1>3, <2>1, <2>2 DEF IInv, CountExact
    <3>3. /\ Cardinality(usingKeys[h] \cap allLockedKeys) \in Nat
          /\ Cardinality({x \in K : x \in usingKeys[h] \ allLockedKeys}) \in Nat
          /\ Cardinality(usingKeys[h] \cap (allLockedKeys \cup K))
               = Cardinality(usingKeys[h] \cap allLockedKeys)
                   + Cardinality({x \in K : x \in usingKeys[h] \ allLockedKeys})
      BY <3>1, CountLock, ZenonT(90)
    <3>4. QED
      BY <3>2, <3>3
  <2>3. CASE ~Queued(h)
    <3>1. Cardinality({x \in K : h \in keysFree[x]}) = 0
      BY <1>3, <2>3, FS_EmptySet
    <3>2. QED
      BY <2>1, <2>3, <3>1 DEF IInv, TypeOK
  <2>4. QED
    BY <2>2, <2>3
<1>5. neededCnt' \in [Goroutines -> Nat]
  <2>1. \A h \in Goroutines : neededCnt'[h] \in Nat
    BY <1>4 DEF WakeOne, lockForWaiter
  <2>2. QED
    BY <2>1 DEF WakeOne, lockForWaiter
<1>6. TypeOK'
  BY <1>1, <1>2, <1>5 DEF IInv, TypeOK, WakeOne, lockForWaiter, removeWaiter, Joined, Emptied
<1>7. QueuesExact'
  BY <1>1, <1>2 DEF IInv, TypeOK, QueuesExact, WakeOne, lockForWaiter, removeWaiter, Joined, Emptied
<1>8. CountExact'
  BY <1>2, <1>4 DEF CountExact
<1>9. LockedExact'
  BY <1>1, <1>2 DEF IInv, LockedExact
<1>10. MutualExclusion'
  BY <1>1, <1>2 DEF IInv, TypeOK, LockedExact, MutualExclusion
<1>11. MutexHeld' /\ Tokens'
  BY <1>1, <1>2, KeyLockAssumption DEF IInv, TypeOK, MutexHeld, Tokens, WakeOne, Queued
<1>12. WakeupPending'
  BY <1>1, <1>2 DEF IInv, WakeupPending
<1>13. QED
  BY <1>6, <1>7, <1>8, <1>9, <1>10, <1>11, <1>12 DEF IInv

\* A key that wakes nobody is not what a ready waiter was missing.
LEMMA WakeNoneStep ==
  ASSUME IInv, NEW g \in Goroutines, NEW k \in Keys, WakeNone(g, k)
  PROVE  IInv'
<1> USE DEF WakeNone, queues, waiter
<1>1. TypeOK'
  BY DEF IInv, TypeOK
<1>2. MutexHeld' /\ Tokens'
  BY KeyLockAssumption DEF IInv, MutexHeld, Tokens
<1>3. RolesKept
  BY DEF RolesKept, Queued, Owner
<1>4. ASSUME NEW h \in Goroutines, Queued(h), usingKeys[h] \cap allLockedKeys = {}
      PROVE  k \notin usingKeys[h]
  <2>1. SUFFICES ASSUME k \in usingKeys[h] PROVE FALSE
    OBVIOUS
  <2>2. h \in keysFree[k]
    BY <1>4, <2>1 DEF IInv, QueuesExact
  <2>3. usingKeys[h] \in SUBSET Keys /\ allLockedKeys \in SUBSET Keys
    BY DEF IInv, TypeOK
  <2>4. Cardinality(usingKeys[h] \cap allLockedKeys) = 0
    BY <1>4, <2>3, CountZero, ZenonT(30)
  <2>5. QED
    BY <1>4, <2>2, <2>4 DEF IInv, CountExact, Ready
<1>5. WakeupPending'
  BY <1>3, <1>4 DEF IInv, WakeupPending, RolesKept
<1>6. QED
  BY <1>1, <1>2, <1>3, <1>5, RolesKeptStep DEF IInv

\* Every step keeps the invariant.
THEOREM NextIInv == IInv /\ [Next]_vars => IInv'
<1> SUFFICES ASSUME IInv, [Next]_vars PROVE IInv'
  OBVIOUS
<1>1. ASSUME NEW g \in Goroutines, NEW K \in SUBSET Keys, Call(g, K) PROVE IInv'
  BY <1>1, CallStep
<1>2. ASSUME NEW g \in Goroutines, Cancel(g) PROVE IInv'
  BY <1>2, CancelStep
<1>3. ASSUME NEW g \in Goroutines, Locking(g) PROVE IInv'
  <2>1. CASE GrantNow(g)
    BY <2>1, GrantNowStep
  <2>2. CASE Enqueue(g)
    BY <2>2, EnqueueStep
  <2>3. CASE Withdraw(g)
    BY <2>3, WithdrawStep
  <2>4. CASE GiveBack(g)
    BY <2>4, BeginReleaseStep DEF GiveBack, Owner
  <2>5. QED
    BY <1>3, <2>1, <2>2, <2>3, <2>4 DEF Locking
<1>4. ASSUME NEW g \in Goroutines, Woken(g) PROVE IInv'
  BY <1>4, WokenStep
<1>5. ASSUME NEW g \in Goroutines, ChooseCancel(g) PROVE IInv'
  BY <1>5, ChooseCancelStep
<1>6. ASSUME NEW g \in Goroutines, Unlock(g) PROVE IInv'
  BY <1>6, BeginReleaseStep DEF Unlock, Owner
<1>7. ASSUME NEW g \in Goroutines, wakeUp(g) PROVE IInv'
  BY <1>7, WakeOneStep, WakeNoneStep, EndReleaseStep DEF wakeUp
<1>8. CASE UNCHANGED vars
  BY <1>8, StutterStep
<1>9. QED
  BY <1>1, <1>2, <1>3, <1>4, <1>5, <1>6, <1>7, <1>8 DEF Next

\* The invariant holds of every reachable state.
THEOREM Invariance == Spec => []IInv
  BY InitIInv, NextIInv, PTL DEF Spec

---------------------------------------------------------------------------
(* keylock: what follows from the invariant.                               *)

\* Every variable keeps its type; in particular neededCnt, maintained by
\* increments and decrements, never goes below zero (keylock.go:29-55).
THEOREM TypeCorrect == Spec => []TypeOK
<1>1. IInv => TypeOK
  BY DEF IInv
<1>2. QED
  BY <1>1, Invariance, PTL

\* No key is in the hands of two callers (keylock.go:92-154).
THEOREM Exclusion == Spec => []MutualExclusion
<1>1. IInv => MutualExclusion
  BY DEF IInv
<1>2. QED
  BY <1>1, Invariance, PTL

\* The queues and counts of the waiters agree with the locked keys, and the
\* locked keys are those of the owners (keylock.go:29-74).
THEOREM Bookkeeping == Spec => []BookkeepingExact
<1>1. IInv => BookkeepingExact
  BY DEF IInv, BookkeepingExact
<1>2. QED
  BY <1>1, Invariance, PTL

\* Whenever mu is free, every queued waiter has a locked key (keylock.go:76-90).
THEOREM NoWakeupLost == Spec => []NoLostWakeup
<1>1. IInv => NoLostWakeup
  BY DEF IInv, NoLostWakeup, WakeupPending, MutexHeld
<1>2. QED
  BY <1>1, Invariance, PTL

\* The send into a blocker under mu never blocks (keylock.go:84).
THEOREM SendsDoNotBlock == Spec => []WakeNeverBlocks
<1>1. IInv => WakeNeverBlocks
  <2> SUFFICES ASSUME IInv, NEW k \in todo, NEW w \in Ready(k)
               PROVE  blocker[w] = 0
    BY DEF WakeNeverBlocks
  <2>1. w \in Goroutines /\ Queued(w)
    BY ReadyWaiter DEF IInv, TypeOK
  <2>2. QED
    BY <2>1 DEF IInv, TypeOK, Tokens, Queued
<1>2. QED
  BY <1>1, Invariance, PTL

\* The three together, as the run checks them (keylock.go:92-154).
THEOREM LockSafe == Spec => []LockInv
  BY TypeCorrect, Exclusion, SendsDoNotBlock, PTL DEF LockInv

---------------------------------------------------------------------------
(* keylock: the refinement.                                                *)

\* Every step is one of the atomic lock, or changes nothing there.
LEMMA AbstractStep ==
  ASSUME IInv, [Next]_vars
  PROVE  [Abstract!Next]_Abstract!vars
<1> USE DEF phaseBar, wantBar, Owner
<1>1. ASSUME NEW g \in Goroutines, NEW K \in SUBSET Keys, Call(g, K)
      PROVE  Abstract!Ask(g, K)
  BY <1>1 DEF Call, Goto, queues, IInv, TypeOK, Tokens, Abstract!Ask
<1>2. ASSUME NEW g \in Goroutines, GrantNow(g) PROVE Abstract!Grant(g)
  <2>1. Abstract!Available(g)
    BY <1>2 DEF GrantNow, IInv, TypeOK, LockedExact, Abstract!Available
  <2>2. QED
    BY <1>2, <2>1 DEF GrantNow, Goto, waiter, IInv, TypeOK, Tokens, Abstract!Grant
<1>3. ASSUME NEW g \in Goroutines, Owner(g), BeginRelease(g) PROVE Abstract!Leave(g)
  BY <1>3 DEF BeginRelease, Goto, waiter, IInv, TypeOK, Abstract!Leave
<1>4. ASSUME NEW g \in Goroutines, Withdraw(g) PROVE Abstract!Leave(g)
  BY <1>4 DEF Withdraw, Forget, Goto, IInv, TypeOK, Abstract!Leave
<1>5. ASSUME NEW g \in Goroutines, NEW k \in Keys, NEW w \in Goroutines, WakeOne(g, k, w)
      PROVE  Abstract!Grant(w)
  <2>1. /\ pc[w] \in {"waiting", "cancelling"} /\ ~inStarting[w]
        /\ usingKeys[w] \cap allLockedKeys = {}
    BY <1>5, ReadyWaiter DEF WakeOne, Queued
  <2>2. Abstract!Available(w)
    BY <2>1 DEF IInv, TypeOK, LockedExact, Abstract!Available
  <2>3. QED
    BY <1>5, <2>1, <2>2 DEF WakeOne, IInv, TypeOK, Abstract!Grant
<1>6. ASSUME NEW g \in Goroutines,
             \/ Enqueue(g) \/ Cancel(g) \/ Woken(g) \/ ChooseCancel(g) \/ EndRelease(g)
             \/ (\E k \in Keys : WakeNone(g, k)) \/ UNCHANGED vars
      PROVE  UNCHANGED Abstract!vars
  BY <1>6 DEF Enqueue, Cancel, Woken, ChooseCancel, EndRelease, WakeNone, vars, Forget, Goto,
     waiter, IInv, TypeOK, MutexHeld, Tokens, Abstract!vars
<1>7. CASE UNCHANGED vars
  BY <1>7 DEF vars, waiter, Abstract!vars
<1>8. QED
  BY <1>1, <1>2, <1>3, <1>4, <1>5, <1>6, <1>7
  DEF Next, Locking, wakeUp, Unlock, GiveBack, Abstract!Next

\* The waiter queues implement the atomic lock over sets of keys: every call is
\* granted all its keys in one step, in which nobody else has any of them.
THEOREM Implements == Spec => ImplementsKeyLockSpec
<1>1. Init => Abstract!Init
  BY DEF Init, phaseBar, wantBar, Owner, Abstract!Init
<1>2. QED
  BY <1>1, AbstractStep, Invariance, PTL DEF Spec, ImplementsKeyLockSpec, Abstract!Spec


---------------------------------------------------------------------------
(* ratelimit: the inductive invariant.                                     *)

Inside == {"select", "arm", "count", "countErr"}
At(S) == {g \in LimiterUsers : rlPc[g] \in S}
Counted == At(Inside)
Arming == At({"arm"})

TasksExact == tasks = Cardinality(Counted)

\* Each token is in the channel, with a call about to start its timer, or with
\* an entry of the queue; a callback takes an entry and a timer away, whether
\* or not they belong together.
TokensExact ==
  /\ tokens + Cardinality(Arming) + Len(queue) = maxCount
  /\ Cardinality(DOMAIN timers) <= Len(queue)
  /\ ~stopBlocker => Cardinality(DOMAIN timers) = Len(queue)

EntriesDiffer == /\ \A i, j \in 1..Len(queue) : queue[i] = queue[j] => i = j
                 /\ Cardinality(Entries) = Len(queue)

\* The ticks that t has left.
Left(t) == IF t \in DOMAIN timers /\ timers[t] > Due THEN timers[t] ELSE 0

\* Timers stand in the queue in the order in which they are due.
DueInOrder == \A i, j \in 1..Len(queue) : i < j => Left(queue[i]) <= Left(queue[j])

\* A timer whose entry another callback took is due too.
OrphansDue == \A t \in DOMAIN timers \ Entries : timers[t] <= Due

AllStopped == stopBlocker => /\ stopped /\ tasks = 0
                             /\ \A t \in DOMAIN timers : timers[t] <= Due

\* The timers started at most a ticks ago.
Young(a) == {t \in DOMAIN timers : timers[t] >= interval - a}

\* A token taken at most a ticks ago is not back: its timer is at most as old.
RecentOut ==
  /\ ~stopBlocker => \A a \in 0..(interval - 1) :
       SumFunctionOnSet(recent, 0..a) <= Cardinality(Arming) + Cardinality(Young(a))
  /\ stopBlocker => RateBound

RlIInv == /\ RlTypeOK /\ TasksExact /\ TokensExact /\ EntriesDiffer /\ DueInOrder
          /\ OrphansDue /\ AllStopped /\ RecentOut

---------------------------------------------------------------------------
(* ratelimit: lemmas about sets, sequences and sums.                       *)

\* The goroutines inside S before and after one of them moves.
LEMMA CountMoved ==
  ASSUME NEW p \in [LimiterUsers -> RlPCs], NEW q, NEW g \in LimiterUsers, NEW l \in RlPCs,
         q = [p EXCEPT ![g] = l], NEW S
  PROVE  Cardinality({h \in LimiterUsers : q[h] \in S}) =
           Cardinality({h \in LimiterUsers : p[h] \in S})
             + (IF l \in S THEN 1 ELSE 0) - (IF p[g] \in S THEN 1 ELSE 0)
<1> DEFINE Before == {h \in LimiterUsers : p[h] \in S}
           After == {h \in LimiterUsers : q[h] \in S}
           in == IF l \in S THEN 1 ELSE 0
           out == IF p[g] \in S THEN 1 ELSE 0
<1> HIDE DEF in, out
<1>1. IsFiniteSet(Before) /\ Cardinality(Before) \in Nat
  BY RateLimitAssumption, FS_Subset, FS_CardinalityType
<1>2. CASE (l \in S) <=> (p[g] \in S)
  <2>1. After = Before
    BY <1>2
  <2>2. in = out /\ in \in Nat
    BY <1>2 DEF in, out
  <2>3. Cardinality(After) = Cardinality(Before) + in - out
    <3>1. Cardinality(After) = Cardinality(Before)
      BY <2>1, Zenon
    <3> HIDE DEF Before, After
    <3> QED
      BY <1>1, <2>2, <3>1
  <2> QED
    BY <2>3 DEF in, out
<1>3. CASE l \in S /\ p[g] \notin S
  <2>1. After = Before \cup {g} /\ g \notin Before
    BY <1>3
  <2>2. Cardinality(After) = Cardinality(Before) + 1
    <3>1. Cardinality(Before \cup {g}) = Cardinality(Before) + 1
      BY <1>1, <2>1, FS_AddElement
    <3> QED
      BY <2>1, <3>1, Zenon
  <2>3. in = 1 /\ out = 0
    BY <1>3 DEF in, out
  <2>4. Cardinality(After) = Cardinality(Before) + in - out
    <3> HIDE DEF Before, After
    <3> QED
      BY <1>1, <2>2, <2>3
  <2> QED
    BY <2>4 DEF in, out
<1>4. CASE l \notin S /\ p[g] \in S
  <2>1. After = Before \ {g} /\ g \in Before
    BY <1>4
  <2>2. Cardinality(After) = Cardinality(Before) - 1
    <3>1. Cardinality(Before \ {g}) = Cardinality(Before) - 1
      BY <1>1, <2>1, FS_RemoveElement
    <3> QED
      BY <2>1, <3>1, Zenon
  <2>3. in = 0 /\ out = 1
    BY <1>4 DEF in, out
  <2>4. Cardinality(After) = Cardinality(Before) + in - out
    <3> HIDE DEF Before, After
    <3> QED
      BY <1>1, <2>2, <2>3
  <2> QED
    BY <2>4 DEF in, out
<1> QED
  BY <1>2, <1>3, <1>4

\* A sum over what moved one place up.
LEMMA SumShift ==
  ASSUME NEW n \in Nat, NEW f \in [0..n -> Int], NEW h \in [0..n -> Int],
         h[0] = 0, \A b \in 1..n : h[b] = f[b - 1]
  PROVE  /\ SumFunctionOnSet(h, 0..0) = 0
         /\ \A a \in 1..n : SumFunctionOnSet(h, 0..a) = SumFunctionOnSet(f, 0..(a - 1))
<1> DEFINE F(a) == SumFunctionOnSet(f, 0..a)
           H(a) == SumFunctionOnSet(h, 0..a)
           Bad == {a \in 1..n : H(a) # F(a - 1)}
<1>1. ASSUME NEW a \in 0..n
      PROVE  /\ IsFiniteSet(0..a) /\ F(a) \in Int /\ H(a) \in Int
             /\ a > 0 => F(a) = f[a] + F(a - 1) /\ H(a) = h[a] + H(a - 1)
  <2>1. IsFiniteSet(0..a)
    BY FS_Interval
  <2>2. \A x \in 0..a : f[x] \in Int /\ h[x] \in Int
    OBVIOUS
  <2>3. F(a) \in Int /\ H(a) \in Int
    BY <2>1, <2>2, SumInt
  <2>4. a \in 0..a /\ (0..a) \ {a} = 0..(a - 1)
    OBVIOUS
  <2>5. F(a) = f[a] + SumFunctionOnSet(f, (0..a) \ {a}) /\ H(a) = h[a] + SumFunctionOnSet(h, (0..a) \ {a})
    BY <2>1, <2>2, <2>4, SumRemove
  <2> QED
    BY <2>1, <2>3, <2>4, <2>5
<1>2. H(0) = 0 /\ F(0) = f[0]
  <2>1. 0 \in 0..0 /\ (0..0) \ {0} = {} /\ IsFiniteSet(0..0)
    <3>1. IsFiniteSet(0..0)
      <4>1. 0..0 = {0}
        OBVIOUS
      <4> QED
        BY <4>1, FS_Singleton
    <3> QED
      BY <3>1
  <2>2. IsFiniteSet({}) /\ SumFunctionOnSet(h, {}) = 0 /\ SumFunctionOnSet(f, {}) = 0
    BY FS_EmptySet, SumFirst
  <2>3. \A x \in 0..0 : f[x] \in Int /\ h[x] \in Int
    OBVIOUS
  <2>4. F(0) = f[0] + SumFunctionOnSet(f, (0..0) \ {0}) /\ H(0) = h[0] + SumFunctionOnSet(h, (0..0) \ {0})
    BY <2>1, <2>3, SumRemove
  <2>5. h[0] = 0 /\ f[0] \in Int
    OBVIOUS
  <2>6. F(0) = f[0] + 0 /\ H(0) = h[0] + 0
    BY <2>1, <2>2, <2>4
  <2> QED
    BY <2>5, <2>6
<1>3. ASSUME Bad # {} PROVE FALSE
  <2>1. PICK m \in Bad : \A x \in Bad : m <= x
    <3>1. Bad \in SUBSET (0..n)
      OBVIOUS
    <3> QED
      BY <1>3, <3>1, LeastElement
  <2>2. m \in 1..n /\ h[m] = f[m - 1] /\ H(m) # F(m - 1)
    OBVIOUS
  <2>3. H(m) = h[m] + H(m - 1)
    BY <1>1, <2>2
  <2>4. CASE m = 1
    BY <1>2, <2>2, <2>3, <2>4
  <2>5. CASE m > 1
    <3>1. m - 1 \in 1..n /\ m - 1 \in 0..n /\ m - 1 \notin Bad
      BY <2>1, <2>2, <2>5
    <3>2. H(m - 1) = F((m - 1) - 1)
      BY <3>1
    <3>3. F(m - 1) = f[m - 1] + F((m - 1) - 1)
      BY <1>1, <2>5, <2>2, <3>1
    <3> QED
      BY <2>2, <2>3, <3>2, <3>3
  <2> QED
    BY <2>2, <2>4, <2>5
<1> QED
  BY <1>2, <1>3

---------------------------------------------------------------------------
(* ratelimit: what the invariant says of a state.                          *)

\* The types of what the proofs compute with.
LEMMA Basics ==
  ASSUME RlIInv
  PROVE  /\ maxCount \in Nat /\ interval \in Nat /\ interval > 0 /\ Due = 0 /\ Fired = -1
         /\ tokens \in Nat /\ tasks \in Nat /\ Len(queue) \in Nat
         /\ DOMAIN timers \subseteq Timers
         /\ \A t \in DOMAIN timers : timers[t] \in Int /\ timers[t] <= interval
         /\ \A i \in 1..Len(queue) : queue[i] \in Timers /\ queue[i] \in Entries
         /\ Entries \subseteq Timers
         /\ \A t \in Timers : Left(t) \in Nat /\ Left(t) <= interval
<1>1. /\ maxCount \in Nat /\ interval \in Nat /\ interval > 0 /\ Due = 0 /\ Fired = -1
      /\ \A t \in DOMAIN timers : timers[t] \in Int /\ timers[t] <= interval
  BY RateLimitAssumption DEF RlIInv, RlTypeOK, Due, Fired
<1>2. /\ Len(queue) \in Nat /\ \A i \in 1..Len(queue) : queue[i] \in Timers
      /\ DOMAIN timers \subseteq Timers
  BY DEF RlIInv, RlTypeOK
<1>3. tokens \in Nat
  BY <1>1 DEF RlIInv, RlTypeOK
<1>4. tasks \in Nat
  <2>1. Cardinality(LimiterUsers) \in Nat
    BY RateLimitAssumption, FS_CardinalityType
  <2> QED
    BY <2>1 DEF RlIInv, RlTypeOK
<1>5. /\ \A i \in 1..Len(queue) : queue[i] \in Entries
      /\ Entries \subseteq Timers
  BY <1>2 DEF Entries
<1>6. \A t \in Timers : Left(t) \in Nat /\ Left(t) <= interval
  BY <1>1 DEF Left
<1> QED
  BY <1>1, <1>2, <1>3, <1>4, <1>5, <1>6

\* Timers and goroutines can be counted.
LEMMA Finite ==
  ASSUME RlIInv
  PROVE  /\ IsFiniteSet(Timers) /\ Cardinality(Timers) = 2 * maxCount
         /\ \A S \in SUBSET Timers : IsFiniteSet(S) /\ Cardinality(S) \in Nat
         /\ \A S : IsFiniteSet(At(S)) /\ Cardinality(At(S)) \in Nat
                   /\ Cardinality(At(S)) <= Cardinality(LimiterUsers)
                   /\ (Cardinality(At(S)) = 0 => At(S) = {})
<1>1. IsFiniteSet(Timers) /\ Cardinality(Timers) = 2 * maxCount
  <2>1. 1 \in Int /\ 2 * maxCount \in Int /\ 1 <= 2 * maxCount + 1
    BY Basics
  <2>2. IsFiniteSet(1..(2 * maxCount))
        /\ Cardinality(1..(2 * maxCount)) = IF 1 > 2 * maxCount THEN 0 ELSE 2 * maxCount - 1 + 1
    BY <2>1, FS_Interval
  <2> QED
    BY <2>1, <2>2, Basics DEF Timers
<1>2. \A S \in SUBSET Timers : IsFiniteSet(S) /\ Cardinality(S) \in Nat
  BY <1>1, FS_Subset, FS_CardinalityType
<1>3. ASSUME NEW S
      PROVE  IsFiniteSet(At(S)) /\ Cardinality(At(S)) \in Nat
             /\ Cardinality(At(S)) <= Cardinality(LimiterUsers)
             /\ (Cardinality(At(S)) = 0 => At(S) = {})
  <2>1. At(S) \in SUBSET LimiterUsers /\ IsFiniteSet(LimiterUsers)
    BY RateLimitAssumption DEF At
  <2>2. IsFiniteSet(At(S)) /\ Cardinality(At(S)) <= Cardinality(LimiterUsers)
    BY <2>1, FS_Subset
  <2> QED
    BY <2>2, FS_CardinalityType, FS_EmptySet
<1> QED
  BY <1>1, <1>2, <1>3

\* Whoever is inside has been counted, so that the limiter is not at its end.
LEMMA InsideRuns ==
  ASSUME RlIInv, NEW g \in LimiterUsers, rlPc[g] \in Inside
  PROVE  ~stopBlocker /\ tasks > 0
<1>1. g \in Counted
  BY DEF Counted, At
<1>2. Cardinality(Counted) \in Nat /\ Cardinality(Counted) # 0
  BY <1>1, Finite DEF Counted
<1> QED
  BY <1>2 DEF RlIInv, TasksExact, AllStopped

\* Until the end what was taken lately is at most what is out.
LEMMA RateFromTimers ==
  ASSUME RlIInv
  PROVE  /\ SumFunction(recent) \in Nat /\ RateBound
         /\ \A a \in 0..(interval - 1) : SumFunctionOnSet(recent, 0..a) \in Nat
                                         /\ Cardinality(Young(a)) \in Nat
         /\ DOMAIN recent = 0..(interval - 1)
<1>1. DOMAIN recent = 0..(interval - 1) /\ \A b \in 0..(interval - 1) : recent[b] \in Nat
  BY DEF RlIInv, RlTypeOK
<1>2. ASSUME NEW a \in 0..(interval - 1)
      PROVE  SumFunctionOnSet(recent, 0..a) \in Nat /\ Cardinality(Young(a)) \in Nat
             /\ Cardinality(Young(a)) <= Cardinality(DOMAIN timers)
             /\ Cardinality(DOMAIN timers) \in Nat
  <2>1. IsFiniteSet(0..a) /\ \A b \in 0..a : recent[b] \in Nat
    <3>1. IsFiniteSet(0..a)
      BY Basics, FS_Interval
    <3>2. \A b \in 0..a : b \in 0..(interval - 1)
      BY Basics
    <3> QED
      BY <1>1, <3>1, <3>2
  <2>2. SumFunctionOnSet(recent, 0..a) \in Nat
    BY <2>1, SumNat
  <2>3. Young(a) \subseteq DOMAIN timers /\ IsFiniteSet(DOMAIN timers) /\ Cardinality(DOMAIN timers) \in Nat
        /\ Cardinality(Young(a)) \in Nat
    <3>1. Young(a) \subseteq DOMAIN timers /\ DOMAIN timers \subseteq Timers
      BY Basics DEF Young
    <3> QED
      BY <3>1, Finite
  <2>4. Cardinality(Young(a)) <= Cardinality(DOMAIN timers)
    BY <2>3, FS_Subset
  <2> QED
    BY <2>2, <2>3, <2>4
<1>3. interval - 1 \in 0..(interval - 1)
  BY Basics
<1>4. SumFunction(recent) = SumFunctionOnSet(recent, 0..(interval - 1))
  BY <1>1 DEF SumFunction
<1>5. RateBound
  <2>1. CASE stopBlocker
    BY <2>1 DEF RlIInv, RecentOut
  <2>2. CASE ~stopBlocker
    <3>1. SumFunction(recent) <= Cardinality(Arming) + Cardinality(Young(interval - 1))
      BY <1>3, <1>4, <2>2 DEF RlIInv, RecentOut
    <3>2. Cardinality(Arming) \in Nat
      BY Finite DEF Arming
    <3>3. tokens + Cardinality(Arming) + Len(queue) = maxCount /\ Cardinality(DOMAIN timers) <= Len(queue)
      BY DEF RlIInv, TokensExact
    <3> QED
      BY <1>2, <1>3, <1>4, <3>1, <3>2, <3>3, Basics, SMTT(30) DEF RateBound
  <2> QED
    BY <2>1, <2>2
<1> QED
  BY <1>1, <1>2, <1>3, <1>4, <1>5

\* The invariant holds at first.
LEMMA RlInitIInv == RlInit => RlIInv
<1> SUFFICES ASSUME RlInit PROVE RlIInv
  OBVIOUS
<1>1. maxCount \in Nat /\ interval \in Nat /\ interval > 0 /\ IsFiniteSet(LimiterUsers)
  BY RateLimitAssumption
<1>2. Cardinality(LimiterUsers) \in Nat
  BY <1>1, FS_CardinalityType
<1>3. DOMAIN timers = {} /\ Len(queue) = 0 /\ queue \in Seq(Timers)
  BY DEF RlInit
<1>4. Counted = {} /\ Arming = {}
  BY DEF RlInit, Counted, Arming, At, Inside
<1>5. IsFiniteSet({}) /\ Cardinality({}) = 0
  BY FS_EmptySet
<1>6. Entries = {}
  BY <1>3 DEF Entries
<1>7. RlTypeOK
  <2>1. recent \in [0..(interval - 1) -> Nat] /\ tokens \in 0..maxCount /\ tasks \in 0..Cardinality(LimiterUsers)
    BY <1>1, <1>2 DEF RlInit
  <2>2. rlPc \in [LimiterUsers -> RlPCs] /\ ctxDone \in [LimiterUsers -> BOOLEAN] /\ stopped \in BOOLEAN
        /\ stopBlocker \in BOOLEAN
    BY DEF RlInit, RlPCs
  <2> QED
    BY <1>3, <2>1, <2>2 DEF RlTypeOK
<1>8. ASSUME NEW a \in 0..(interval - 1) PROVE SumFunctionOnSet(recent, 0..a) <= 0
  <2>1. IsFiniteSet(0..a) /\ \A b \in 0..a : recent[b] = 0
    <3>1. IsFiniteSet(0..a)
      BY <1>1, FS_Interval
    <3>2. \A b \in 0..a : b \in 0..(interval - 1)
      BY <1>1
    <3> QED
      BY <3>1, <3>2 DEF RlInit
  <2>2. SumFunctionOnSet(recent, 0..a) = 0
    BY <2>1, SumZero
  <2> QED
    BY <2>2
<1>9. RecentOut
  <2>1. \A a : Young(a) = {}
    BY <1>3 DEF Young
  <2> QED
    <3>1. \A a : Cardinality(Arming) + Cardinality(Young(a)) = 0
      BY <1>4, <1>5, <2>1
    <3> QED
      BY <1>8, <3>1 DEF RlInit, RecentOut
<1>10. TasksExact /\ TokensExact /\ EntriesDiffer
  BY <1>1, <1>3, <1>4, <1>5, <1>6 DEF RlInit, TasksExact, TokensExact, EntriesDiffer
<1>11. DueInOrder /\ OrphansDue /\ AllStopped
  BY <1>3 DEF RlInit, DueInOrder, OrphansDue, AllStopped
<1> QED
  BY <1>7, <1>9, <1>10, <1>11 DEF RlIInv

---------------------------------------------------------------------------
(* ratelimit: what goroutines do without timers.                           *)

\* How many are counted and arming when one goes on.
LEMMA PcMoved ==
  ASSUME RlIInv, NEW g \in LimiterUsers, NEW l \in RlPCs, RlGoto(g, l)
  PROVE  /\ rlPc' \in [LimiterUsers -> RlPCs]
         /\ Cardinality(Counted)' = Cardinality(Counted) + (IF l \in Inside THEN 1 ELSE 0)
                                                         - (IF rlPc[g] \in Inside THEN 1 ELSE 0)
         /\ Cardinality(Arming)' = Cardinality(Arming) + (IF l = "arm" THEN 1 ELSE 0)
                                                       - (IF rlPc[g] = "arm" THEN 1 ELSE 0)
         /\ Cardinality(Counted)' \in 0..Cardinality(LimiterUsers)
<1>1. rlPc \in [LimiterUsers -> RlPCs] /\ rlPc' = [rlPc EXCEPT ![g] = l]
  BY DEF RlIInv, RlTypeOK, RlGoto
<1>2. rlPc' \in [LimiterUsers -> RlPCs]
  BY <1>1
<1>3. Cardinality(Counted)' = Cardinality(Counted) + (IF l \in Inside THEN 1 ELSE 0)
                                                   - (IF rlPc[g] \in Inside THEN 1 ELSE 0)
  <2>1. Cardinality({h \in LimiterUsers : rlPc'[h] \in Inside}) =
          Cardinality({h \in LimiterUsers : rlPc[h] \in Inside})
            + (IF l \in Inside THEN 1 ELSE 0) - (IF rlPc[g] \in Inside THEN 1 ELSE 0)
    BY <1>1, CountMoved
  <2> QED
    BY <2>1 DEF Counted, At
<1>4. Cardinality(Arming)' = Cardinality(Arming) + (IF l \in {"arm"} THEN 1 ELSE 0)
                                                 - (IF rlPc[g] \in {"arm"} THEN 1 ELSE 0)
  <2> DEFINE S == {"arm"}
  <2> HIDE DEF S
  <2>1. Cardinality({h \in LimiterUsers : rlPc'[h] \in S}) =
          Cardinality({h \in LimiterUsers : rlPc[h] \in S})
            + (IF l \in S THEN 1 ELSE 0) - (IF rlPc[g] \in S THEN 1 ELSE 0)
    BY <1>1, CountMoved
  <2> QED
    BY <2>1 DEF S, Arming, At
<1>5. Cardinality(Counted)' \in 0..Cardinality(LimiterUsers)
  <2>1. Counted' \in SUBSET LimiterUsers /\ IsFiniteSet(LimiterUsers)
    BY RateLimitAssumption DEF Counted, At
  <2>2. IsFiniteSet(Counted') /\ Cardinality(Counted') <= Cardinality(LimiterUsers)
    BY <2>1, FS_Subset
  <2>3. Cardinality(Counted') \in Nat /\ Cardinality(LimiterUsers) \in Nat
    BY <2>1, <2>2, FS_CardinalityType
  <2> QED
    BY <2>2, <2>3
<1> QED
  BY <1>2, <1>3, <1>4, <1>5

\* A goroutine goes on, and nothing happens to tokens and timers.
LEMMA Quiet ==
  ASSUME RlIInv, NEW g \in LimiterUsers, NEW l \in RlPCs \ {"arm"}, rlPc[g] # "arm", RlGoto(g, l),
         UNCHANGED <<tokens, timers, queue, recent, stopBlocker>>,
         tasks' = tasks + (IF l \in Inside THEN 1 ELSE 0) - (IF rlPc[g] \in Inside THEN 1 ELSE 0),
         ctxDone' \in [LimiterUsers -> BOOLEAN], stopped' \in BOOLEAN,
         stopBlocker => stopped' /\ tasks' = 0
  PROVE  RlIInv'
<1>1. /\ rlPc' \in [LimiterUsers -> RlPCs]
      /\ Cardinality(Counted)' = Cardinality(Counted) + (IF l \in Inside THEN 1 ELSE 0)
                                                      - (IF rlPc[g] \in Inside THEN 1 ELSE 0)
      /\ Cardinality(Arming)' = Cardinality(Arming) + 0 - 0
      /\ Cardinality(Counted)' \in 0..Cardinality(LimiterUsers)
  BY PcMoved
<1>2. Cardinality(Arming)' = Cardinality(Arming)
  BY <1>1, Finite DEF Arming
<1>3. TasksExact'
  BY <1>1 DEF RlIInv, TasksExact
<1>4. RlTypeOK'
  BY <1>1, <1>3 DEF RlIInv, RlTypeOK, TasksExact
<1>5. TokensExact' /\ EntriesDiffer' /\ DueInOrder' /\ OrphansDue' /\ AllStopped'
  BY <1>2, ZenonT(30) DEF RlIInv, TokensExact, EntriesDiffer, Entries, DueInOrder, Left, OrphansDue, AllStopped
<1>6. RecentOut'
  BY <1>2 DEF RlIInv, RecentOut, RateBound, Young
<1> QED
  BY <1>3, <1>4, <1>5, <1>6 DEF RlIInv

\* Calls that enter, give up, are counted or end (ratelimit.go:46-77).
LEMMA QuietSteps ==
  ASSUME RlIInv, NEW g \in LimiterUsers,
         Enter(g) \/ ChooseDone(g) \/ Count(g) \/ SetStopped(g) \/ StopReturns(g) \/ CancelContext(g)
  PROVE  RlIInv'
<1>1. ctxDone \in [LimiterUsers -> BOOLEAN] /\ stopped \in BOOLEAN /\ tasks \in Nat
      /\ (stopBlocker => stopped /\ tasks = 0)
  BY Basics DEF RlIInv, RlTypeOK, AllStopped
<1>2. CASE Enter(g)
  <2>1. rlPc[g] = "idle" /\ ~stopped /\ RlGoto(g, "select") /\ tasks' = tasks + 1 - 0
    BY <1>1, <1>2 DEF Enter
  <2>2. rlPc[g] \notin Inside /\ "select" \in Inside /\ "select" \in RlPCs \ {"arm"}
    BY <2>1 DEF Inside, RlPCs
  <2>3. UNCHANGED <<tokens, timers, queue, recent, stopBlocker, ctxDone, stopped>>
    BY <1>2 DEF Enter
  <2> QED
    BY <1>1, <2>1, <2>2, <2>3, Quiet
<1>3. CASE ChooseDone(g)
  <2>1. rlPc[g] = "select" /\ RlGoto(g, "countErr") /\ tasks' = tasks + 1 - 1
    BY <1>1, <1>3 DEF ChooseDone, limiter
  <2>2. rlPc[g] \in Inside /\ "countErr" \in Inside /\ "countErr" \in RlPCs \ {"arm"}
    BY <2>1 DEF Inside, RlPCs
  <2>3. UNCHANGED <<tokens, timers, queue, recent, stopBlocker, ctxDone, stopped, tasks>>
    BY <1>3 DEF ChooseDone, limiter
  <2> QED
    BY <1>1, <2>1, <2>2, <2>3, Quiet
<1>4. CASE Count(g)
  <2>1. rlPc[g] \in {"count", "countErr"} /\ RlGoto(g, "check") /\ tasks' = tasks + 0 - 1
    BY <1>1, <1>4 DEF Count
  <2>2. rlPc[g] \in Inside /\ "check" \notin Inside /\ "check" \in RlPCs \ {"arm"}
    BY <2>1 DEF Inside, RlPCs
  <2>3. UNCHANGED <<tokens, timers, queue, recent, stopBlocker, ctxDone, stopped>>
    BY <1>4 DEF Count
  <2>4. ~stopBlocker
    BY <2>2, InsideRuns
  <2> QED
    BY <1>1, <2>1, <2>2, <2>3, <2>4, Quiet
<1>5. CASE SetStopped(g)
  <2>1. rlPc[g] = "idle" /\ RlGoto(g, "checkStop") /\ tasks' = tasks + 0 - 0 /\ stopped' = TRUE
    BY <1>1, <1>5 DEF SetStopped
  <2>2. rlPc[g] \notin Inside /\ "checkStop" \notin Inside /\ "checkStop" \in RlPCs \ {"arm"}
    BY <2>1 DEF Inside, RlPCs
  <2>3. UNCHANGED <<tokens, timers, queue, recent, stopBlocker, ctxDone, tasks>>
    BY <1>5 DEF SetStopped
  <2> QED
    BY <1>1, <2>1, <2>2, <2>3, Quiet
<1>6. CASE StopReturns(g)
  <2>1. rlPc[g] = "waitStop" /\ RlGoto(g, "idle") /\ tasks' = tasks + 0 - 0
    BY <1>1, <1>6 DEF StopReturns, limiter
  <2>2. rlPc[g] \notin Inside /\ "idle" \notin Inside /\ "idle" \in RlPCs \ {"arm"}
    BY <2>1 DEF Inside, RlPCs
  <2>3. UNCHANGED <<tokens, timers, queue, recent, stopBlocker, ctxDone, stopped, tasks>>
    BY <1>6 DEF StopReturns, limiter
  <2> QED
    BY <1>1, <2>1, <2>2, <2>3, Quiet
<1>7. CASE CancelContext(g)
  <2>1. rlPc[g] = "select" /\ rlPc' = rlPc /\ tasks' = tasks + 1 - 1
    BY <1>1, <1>7 DEF CancelContext, limiter
  <2>2. rlPc[g] \in Inside /\ rlPc[g] \in RlPCs \ {"arm"} /\ RlGoto(g, rlPc[g])
    BY <2>1 DEF Inside, RlPCs, RlGoto, RlIInv, RlTypeOK
  <2>3. UNCHANGED <<tokens, timers, queue, recent, stopBlocker, stopped, tasks>>
    BY <1>7 DEF CancelContext, limiter
  <2>4. ctxDone' \in [LimiterUsers -> BOOLEAN]
    BY <1>1, <1>7 DEF CancelContext
  <2> QED
    BY <1>1, <2>1, <2>2, <2>3, <2>4, Quiet
<1> QED
  BY <1>2, <1>3, <1>4, <1>5, <1>6, <1>7

---------------------------------------------------------------------------
(* ratelimit: tokens and timers.                                           *)

\* A call gets a token, and becomes one that is arming (ratelimit.go:70-79).
LEMMA TakeTokenInv ==
  ASSUME RlIInv, NEW g \in LimiterUsers, TakeToken(g)
  PROVE  RlIInv'
<1>1. /\ rlPc[g] = "select" /\ tokens > 0 /\ tokens' = tokens - 1 /\ RlGoto(g, "arm")
      /\ UNCHANGED <<timers, queue, tasks, stopped, stopBlocker, ctxDone>>
      /\ recent' = [recent EXCEPT ![0] = @ + 1]
  BY DEF TakeToken
<1>2. rlPc[g] \in Inside /\ "arm" \in Inside /\ "arm" \in RlPCs /\ rlPc[g] # "arm"
  BY <1>1 DEF Inside, RlPCs
<1>3. /\ rlPc' \in [LimiterUsers -> RlPCs]
      /\ Cardinality(Counted)' = Cardinality(Counted) + 1 - 1
      /\ Cardinality(Arming)' = Cardinality(Arming) + 1 - 0
  BY <1>1, <1>2, PcMoved
<1>4. Cardinality(Counted) \in Nat /\ Cardinality(Arming) \in Nat
  BY Finite DEF Counted, Arming
<1>5. Cardinality(Counted)' = Cardinality(Counted) /\ Cardinality(Arming)' = Cardinality(Arming) + 1
  BY <1>3, <1>4
<1>6. recent \in [0..(interval - 1) -> Nat] /\ 0 \in 0..(interval - 1) /\ recent' \in [0..(interval - 1) -> Nat]
      /\ recent'[0] = recent[0] + 1 /\ \A b \in 0..(interval - 1) : b # 0 => recent'[b] = recent[b]
  <2>1. recent \in [0..(interval - 1) -> Nat] /\ 0 \in 0..(interval - 1)
    BY Basics DEF RlIInv, RlTypeOK
  <2> QED
    BY <1>1, <2>1
<1>7. RlTypeOK'
  <2>1. tokens' \in 0..maxCount
    BY <1>1, Basics DEF RlIInv, RlTypeOK
  <2> QED
    BY <1>1, <1>3, <1>6, <2>1 DEF RlIInv, RlTypeOK
<1>8. TasksExact' /\ TokensExact'
  <2>1. tokens' + Cardinality(Arming)' + Len(queue)' = maxCount
    BY <1>1, <1>4, <1>5, Basics DEF RlIInv, TokensExact
  <2> QED
    BY <1>1, <1>5, <2>1 DEF RlIInv, TasksExact, TokensExact
<1>9. EntriesDiffer' /\ DueInOrder' /\ OrphansDue' /\ AllStopped'
  BY <1>1 DEF RlIInv, EntriesDiffer, Entries, DueInOrder, Left, OrphansDue, AllStopped
<1>10. ASSUME NEW a \in 0..(interval - 1)
       PROVE  SumFunctionOnSet(recent', 0..a) = SumFunctionOnSet(recent, 0..a) + 1
  <2>1. IsFiniteSet(0..a) /\ 0 \in 0..a /\ \A b \in 0..a : b \in 0..(interval - 1)
    <3>1. a \in Int /\ 0 \in 0..a /\ \A b \in 0..a : b \in 0..(interval - 1)
      BY Basics
    <3>2. IsFiniteSet(0..a)
      BY <3>1, FS_Interval
    <3> QED
      BY <3>1, <3>2
  <2> DEFINE f == [b \in 0..a |-> recent[b]]
             h == [b \in 0..a |-> recent'[b]]
  <2>2. f \in [0..a -> Int] /\ h \in [0..a -> Int]
    BY <1>6, <2>1, SMTT(30)
  <2>3. h[0] = f[0] + 1 /\ \A b \in 0..a : b # 0 => f[b] = h[b]
    BY <1>6, <2>1
  <2>4. SumFunctionOnSet(h, 0..a) = SumFunctionOnSet(f, 0..a) + h[0] - f[0]
    <3> HIDE DEF f, h
    <3> QED
      BY <2>1, <2>2, <2>3, SumChange
  <2>5. SumFunctionOnSet(h, 0..a) = SumFunctionOnSet(recent', 0..a)
        /\ SumFunctionOnSet(f, 0..a) = SumFunctionOnSet(recent, 0..a)
    BY <2>1, SumCongruence
  <2>6. SumFunctionOnSet(recent, 0..a) \in Int /\ f[0] \in Int
    BY <2>1, <2>2, RateFromTimers
  <2> HIDE DEF f, h
  <2> QED
    BY <2>3, <2>4, <2>5, <2>6
<1>11. RecentOut'
  <2>1. ~stopBlocker'
    BY <1>1, <1>2, InsideRuns
  <2>2. ASSUME NEW a \in 0..(interval - 1)
        PROVE  SumFunctionOnSet(recent', 0..a) <= Cardinality(Arming)' + Cardinality(Young(a))'
    <3>1. SumFunctionOnSet(recent, 0..a) <= Cardinality(Arming) + Cardinality(Young(a))
      BY <1>1, <2>1 DEF RlIInv, RecentOut
    <3>2. SumFunctionOnSet(recent, 0..a) \in Nat /\ Cardinality(Young(a)) \in Nat
      BY RateFromTimers
    <3>3. Cardinality(Young(a))' = Cardinality(Young(a))
      BY <1>1 DEF Young
    <3> QED
      BY <1>4, <1>5, <1>10, <3>1, <3>2, <3>3
  <2> QED
    BY <2>1, <2>2 DEF RecentOut
<1> QED
  BY <1>7, <1>8, <1>9, <1>11 DEF RlIInv

\* A call with a token finds a timer for it: there are at most as many entries
\* and as many timers as tokens that are out.
LEMMA UnusedTimer ==
  ASSUME RlIInv, NEW g \in LimiterUsers, rlPc[g] = "arm",
         NEW unused, unused = Timers \ (DOMAIN timers \cup Entries)
  PROVE  (CHOOSE u \in unused : \A v \in unused : u <= v) \in unused
<1>1. Cardinality(DOMAIN timers) <= Len(queue) /\ Len(queue) = Cardinality(Entries)
      /\ tokens + Cardinality(Arming) + Len(queue) = maxCount
  BY DEF RlIInv, TokensExact, EntriesDiffer
<1>2. Cardinality(Arming) \in Nat /\ Cardinality(Arming) # 0
  <2>1. g \in Arming
    BY DEF Arming, At
  <2> QED
    BY <2>1, Finite DEF Arming
<1>3. /\ IsFiniteSet(DOMAIN timers) /\ IsFiniteSet(Entries) /\ IsFiniteSet(DOMAIN timers \cap Entries)
      /\ Cardinality(DOMAIN timers) \in Nat /\ Cardinality(Entries) \in Nat
      /\ Cardinality(DOMAIN timers \cap Entries) \in Nat
  <2>1. DOMAIN timers \subseteq Timers /\ Entries \subseteq Timers /\ DOMAIN timers \cap Entries \subseteq Timers
    BY Basics
  <2> QED
    BY <2>1, Finite
<1>4. Cardinality(DOMAIN timers \cup Entries) =
        Cardinality(DOMAIN timers) + Cardinality(Entries) - Cardinality(DOMAIN timers \cap Entries)
  BY <1>3, FS_Union
<1>5. Cardinality(DOMAIN timers \cup Entries) < Cardinality(Timers)
  BY <1>1, <1>2, <1>3, <1>4, Basics, Finite, SMTT(30)
<1>6. unused # {}
  <2>1. DOMAIN timers \cup Entries \subseteq Timers
    BY Basics
  <2>2. Timers # DOMAIN timers \cup Entries
    <3>1. Cardinality(Timers) \in Nat
      BY Finite, Basics
    <3>2. Cardinality(DOMAIN timers \cup Entries) # Cardinality(Timers)
      <4>1. Cardinality(DOMAIN timers \cup Entries) \in Nat
        BY <2>1, Finite
      <4> QED
        BY <1>5, <3>1, <4>1
    <3> QED
      BY <3>2
  <2> QED
    BY <2>1, <2>2
<1>7. PICK m \in unused : \A v \in unused : m <= v
  <2>1. unused \in SUBSET (0..(2 * maxCount)) /\ 2 * maxCount \in Nat
    BY Basics DEF Timers
  <2> QED
    BY <1>6, <2>1, LeastElement
<1> QED
  BY <1>7

\* The new timer stands behind all others and has most ticks left.
LEMMA ArmInv ==
  ASSUME RlIInv, NEW g \in LimiterUsers, Arm(g)
  PROVE  RlIInv'
<1>1. PICK unused : unused = Timers \ (DOMAIN timers \cup Entries)
  OBVIOUS
<1>2. PICK t : t = CHOOSE u \in unused : \A v \in unused : u <= v
  OBVIOUS
<1>3. /\ rlPc[g] = "arm" /\ RlGoto(g, "count") /\ queue' = Append(queue, t)
      /\ timers' = [u \in DOMAIN timers \cup {t} |-> IF u = t THEN interval ELSE timers[u]]
      /\ UNCHANGED <<tokens, tasks, stopped, stopBlocker, ctxDone, recent>>
  BY <1>1, <1>2 DEF Arm
<1>4. t \in Timers /\ t \notin DOMAIN timers /\ t \notin Entries
  <2>1. t \in unused
    BY <1>1, <1>2, <1>3, UnusedTimer
  <2> QED
    BY <1>1, <2>1
<1>5. rlPc[g] \in Inside /\ "count" \in Inside /\ "count" \in RlPCs
  BY <1>3 DEF Inside, RlPCs
<1>6. /\ rlPc' \in [LimiterUsers -> RlPCs]
      /\ Cardinality(Counted)' = Cardinality(Counted) /\ Cardinality(Arming)' = Cardinality(Arming) - 1
      /\ Cardinality(Arming) \in Nat
  <2>1. /\ rlPc' \in [LimiterUsers -> RlPCs]
        /\ Cardinality(Counted)' = Cardinality(Counted) + 1 - 1
        /\ Cardinality(Arming)' = Cardinality(Arming) + 0 - 1
    BY <1>3, <1>5, PcMoved
  <2>2. Cardinality(Counted) \in Nat /\ Cardinality(Arming) \in Nat
    BY Finite DEF Counted, Arming
  <2> QED
    BY <2>1, <2>2
<1>7. /\ DOMAIN timers' = DOMAIN timers \cup {t} /\ timers'[t] = interval
      /\ \A u \in DOMAIN timers : timers'[u] = timers[u]
  BY <1>3, <1>4
<1>8. /\ Len(queue') = Len(queue) + 1 /\ queue' \in Seq(Timers)
      /\ queue'[Len(queue) + 1] = t /\ \A i \in 1..Len(queue) : queue'[i] = queue[i]
  BY <1>3, <1>4 DEF RlIInv, RlTypeOK
<1>9. Entries' = Entries \cup {t}
  <2>1. 1..Len(queue') = (1..Len(queue)) \cup {Len(queue) + 1}
    BY <1>8, Basics
  <2>2. Entries' = {queue'[i] : i \in 1..Len(queue')}
    BY DEF Entries
  <2>3. {queue'[i] : i \in 1..Len(queue)} = Entries
    BY <1>8 DEF Entries
  <2> QED
    BY <1>8, <2>1, <2>2, <2>3
<1>10. Cardinality(Entries)' = Len(queue') /\ Cardinality(DOMAIN timers)' = Cardinality(DOMAIN timers) + 1
       /\ Cardinality(DOMAIN timers) \in Nat
  <2>1. /\ IsFiniteSet(DOMAIN timers) /\ Cardinality(DOMAIN timers) \in Nat
        /\ IsFiniteSet(Entries) /\ Cardinality(Entries) \in Nat
    BY Basics, Finite
  <2>2. Cardinality(Entries \cup {t}) = Cardinality(Entries) + 1
    BY <1>4, <2>1, FS_AddElement
  <2>3. Cardinality(DOMAIN timers \cup {t}) = Cardinality(DOMAIN timers) + 1
    BY <1>4, <2>1, FS_AddElement
  <2>4. Cardinality(Entries)' = Len(queue) + 1
    BY <1>9, <2>2 DEF RlIInv, EntriesDiffer
  <2>5. Cardinality(DOMAIN timers)' = Cardinality(DOMAIN timers) + 1
    BY <1>7, <2>3
  <2> QED
    BY <1>8, <2>1, <2>4, <2>5
<1>11. ~stopBlocker
  BY <1>5, InsideRuns
<1>12. RlTypeOK'
  <2>1. DOMAIN timers' \subseteq Timers /\ \A u \in DOMAIN timers' : timers'[u] \in Fired..interval
    <3>1. interval \in Fired..interval
      BY Basics
    <3> QED
      BY <1>4, <1>7, <3>1 DEF RlIInv, RlTypeOK
  <2> QED
    BY <1>3, <1>6, <1>8, <2>1 DEF RlIInv, RlTypeOK
<1>13. TasksExact' /\ TokensExact'
  <2>1. tokens' + Cardinality(Arming)' + Len(queue') = maxCount
    BY <1>3, <1>6, <1>8, Basics DEF RlIInv, TokensExact
  <2>2. Cardinality(DOMAIN timers)' = Len(queue')
    BY <1>8, <1>10, <1>11 DEF RlIInv, TokensExact
  <2>3. Cardinality(DOMAIN timers)' <= Len(queue')
    BY <1>8, <2>2, Basics
  <2> QED
    BY <1>3, <1>6, <2>1, <2>2, <2>3 DEF RlIInv, TasksExact, TokensExact
<1>14. EntriesDiffer'
  <2> SUFFICES ASSUME NEW i \in 1..Len(queue'), NEW j \in 1..Len(queue'), queue'[i] = queue'[j]
               PROVE  i = j
    BY <1>10 DEF EntriesDiffer
  <2>1. /\ i \in 1..Len(queue) => queue'[i] = queue[i] /\ queue[i] # t
        /\ j \in 1..Len(queue) => queue'[j] = queue[j] /\ queue[j] # t
    BY <1>4, <1>8, Basics
  <2>2. CASE i \in 1..Len(queue) /\ j \in 1..Len(queue)
    BY <2>1, <2>2 DEF RlIInv, EntriesDiffer
  <2>3. CASE i \in 1..Len(queue) /\ j = Len(queue) + 1
    BY <1>8, <2>1, <2>3
  <2>4. CASE i = Len(queue) + 1 /\ j \in 1..Len(queue)
    BY <1>8, <2>1, <2>4
  <2>5. CASE i = Len(queue) + 1 /\ j = Len(queue) + 1
    BY <2>5
  <2> QED
    BY <1>8, <2>2, <2>3, <2>4, <2>5, Basics
<1>15. /\ Left(t)' = interval
       /\ \A u \in Timers \ {t} : Left(u)' = Left(u) /\ Left(u)' \in Nat /\ Left(u)' <= interval
  <2>1. Left(t)' = interval
    BY <1>7, Basics DEF Left
  <2>2. \A u \in Timers \ {t} : Left(u)' = Left(u)
    BY <1>7 DEF Left
  <2> QED
    BY <2>1, <2>2, Basics
<1>16. DueInOrder'
  <2> SUFFICES ASSUME NEW i \in 1..Len(queue'), NEW j \in 1..Len(queue'), i < j
               PROVE  Left(queue[i])' <= Left(queue[j])'
    BY DEF DueInOrder
  <2>1. PICK u : u = queue'[i]
    OBVIOUS
  <2>2. PICK v : v = queue'[j]
    OBVIOUS
  <2>3. i \in 1..Len(queue) /\ u = queue[i] /\ u \in Timers \ {t}
    <3>1. i \in 1..Len(queue)
      BY <1>8, Basics
    <3> QED
      BY <1>4, <1>8, <2>1, <3>1, Basics
  <2>4. Left(u)' <= Left(v)'
    <3>1. CASE j = Len(queue) + 1
      BY <1>8, <1>15, <2>2, <2>3, <3>1
    <3>2. CASE j \in 1..Len(queue)
      <4>1. v = queue[j] /\ v \in Timers \ {t}
        BY <1>4, <1>8, <2>2, <3>2, Basics
      <4>2. Left(u) <= Left(v)
        BY <2>3, <3>2, <4>1 DEF RlIInv, DueInOrder
      <4> QED
        BY <1>15, <2>3, <4>1, <4>2
    <3>3. j = Len(queue) + 1 \/ j \in 1..Len(queue)
      BY <1>8, Basics, SMTT(30)
    <3> QED
      BY <3>1, <3>2, <3>3
  <2> QED
    BY <2>1, <2>2, <2>4
<1>17. OrphansDue' /\ AllStopped'
  BY <1>3, <1>7, <1>9, <1>11 DEF RlIInv, OrphansDue, AllStopped
<1>18. RecentOut'
  <2>1. ASSUME NEW a \in 0..(interval - 1)
        PROVE  SumFunctionOnSet(recent', 0..a) <= Cardinality(Arming)' + Cardinality(Young(a))'
    <3>1. SumFunctionOnSet(recent, 0..a) <= Cardinality(Arming) + Cardinality(Young(a))
      BY <1>11 DEF RlIInv, RecentOut
    <3>2. SumFunctionOnSet(recent, 0..a) \in Nat /\ Cardinality(Young(a)) \in Nat
      BY RateFromTimers
    <3>3. Young(a)' = Young(a) \cup {t} /\ t \notin Young(a)
      <4>1. interval >= interval - a
        BY Basics
      <4> QED
        BY <1>4, <1>7, <4>1 DEF Young
    <3>4. Cardinality(Young(a))' = Cardinality(Young(a)) + 1
      <4>1. IsFiniteSet(Young(a))
        BY Basics, Finite DEF Young
      <4>2. Cardinality(Young(a) \cup {t}) = Cardinality(Young(a)) + 1
        BY <3>3, <4>1, FS_AddElement
      <4> QED
        BY <3>3, <4>2
    <3> QED
      BY <1>3, <1>6, <3>1, <3>2, <3>4
  <2> QED
    BY <1>3, <1>11, <2>1 DEF RecentOut
<1> QED
  BY <1>12, <1>13, <1>14, <1>16, <1>17, <1>18 DEF RlIInv

\* A timer that has ticks left stands in the queue, and those behind it have
\* as many: so until the end every timer stands there.
LEMMA FrontIsDue ==
  ASSUME RlIInv, NEW t \in DOMAIN timers, timers[t] = Fired, queue # << >>
  PROVE  Left(queue[1]) = 0
<1> SUFFICES ASSUME Left(queue[1]) # 0 PROVE FALSE
  OBVIOUS
<1>1. 1 \in 1..Len(queue) /\ queue[1] \in Timers
  BY Basics DEF RlIInv, RlTypeOK
<1>2. Left(queue[1]) \in Nat /\ Left(queue[1]) > 0
  BY <1>1, Basics
<1>3. queue[1] \in DOMAIN timers /\ timers[queue[1]] > Due
  BY <1>2, Basics DEF Left
<1>4. ~stopBlocker
  BY <1>3, Basics DEF RlIInv, AllStopped
<1>5. ASSUME NEW i \in 1..Len(queue)
      PROVE  Left(queue[i]) > 0 /\ queue[i] \in DOMAIN timers
  <2>1. Left(queue[1]) <= Left(queue[i])
    <3>1. CASE i = 1
      BY <1>2, <3>1
    <3>2. CASE i > 1
      BY <1>1, <3>2 DEF RlIInv, DueInOrder
    <3> QED
      BY <3>1, <3>2
  <2>2. queue[i] \in Timers /\ Left(queue[i]) \in Nat
    BY Basics
  <2>3. Left(queue[i]) > 0
    BY <1>2, <2>1, <2>2
  <2> QED
    BY <2>3 DEF Left
<1>6. Entries \subseteq DOMAIN timers
  BY <1>5 DEF Entries
<1>7. Entries = DOMAIN timers
  <2>1. IsFiniteSet(DOMAIN timers) /\ Cardinality(Entries) = Cardinality(DOMAIN timers)
    BY <1>4, Basics, Finite DEF RlIInv, TokensExact, EntriesDiffer
  <2> QED
    BY <1>6, <2>1, FS_Subset
<1>8. PICK i \in 1..Len(queue) : queue[i] = t
  BY <1>7 DEF Entries
<1>9. Left(t) = 0
  BY Basics DEF Left
<1> QED
  BY <1>5, <1>8, <1>9

\* A callback that starts has no ticks left, as before.
LEMMA StartCallbackInv ==
  ASSUME RlIInv, NEW t \in Timers, StartCallback(t)
  PROVE  RlIInv'
<1>1. /\ t \in DOMAIN timers /\ timers[t] = Due /\ timers' = [timers EXCEPT ![t] = Fired]
      /\ UNCHANGED <<tokens, queue, tasks, stopped, stopBlocker, ctxDone, recent, rlPc>>
  BY DEF StartCallback
<1>2. /\ DOMAIN timers' = DOMAIN timers /\ timers'[t] = -1 /\ timers[t] = 0
      /\ \A u \in DOMAIN timers : u # t => timers'[u] = timers[u]
  BY <1>1, Basics
<1>3. \A u : Left(u)' = Left(u)
  BY <1>2, Basics DEF Left
<1>4. \A a \in 0..(interval - 1) : Young(a)' = Young(a)
  <2>1. \A a \in 0..(interval - 1) : interval - a \in Int /\ interval - a > 0
    BY Basics
  <2> QED
    BY <1>2, <2>1 DEF Young
<1>5. RlTypeOK'
  <2>1. DOMAIN timers' \subseteq Timers /\ \A u \in DOMAIN timers' : timers'[u] \in Fired..interval
    <3>1. -1 \in Fired..interval
      BY Basics
    <3> QED
      BY <1>2, <3>1 DEF RlIInv, RlTypeOK
  <2> QED
    BY <1>1, <2>1 DEF RlIInv, RlTypeOK
<1>6. TasksExact' /\ TokensExact' /\ EntriesDiffer'
  <2>1. TasksExact'
    BY <1>1 DEF RlIInv, TasksExact, Counted, At
  <2>2. Arming' = Arming /\ Entries' = Entries /\ DOMAIN timers' = DOMAIN timers
    BY <1>1, <1>2 DEF Arming, At, Entries
  <2> QED
    BY <1>1, <2>1, <2>2 DEF RlIInv, TokensExact, EntriesDiffer
<1>7. DueInOrder'
  BY <1>1, <1>3 DEF RlIInv, DueInOrder
<1>8. OrphansDue' /\ AllStopped'
  <2>1. \A u \in DOMAIN timers' : timers[u] <= Due => timers'[u] <= Due
    BY <1>2, Basics
  <2> QED
    BY <1>1, <1>2, <2>1 DEF RlIInv, OrphansDue, AllStopped, Entries
<1>9. RecentOut'
  BY <1>1, <1>4 DEF RlIInv, RecentOut, RateBound, Arming, At
<1> QED
  BY <1>5, <1>6, <1>7, <1>8, <1>9 DEF RlIInv

\* A callback takes the first entry and its own timer away (ratelimit.go:81-86).
LEMMA CallbackInv ==
  ASSUME RlIInv, NEW t \in Timers, Callback(t)
  PROVE  RlIInv'
<1>1. /\ t \in DOMAIN timers /\ timers[t] = Fired /\ queue # << >> /\ tokens < maxCount
      /\ queue' = Tail(queue) /\ tokens' = tokens + 1
      /\ timers' = [u \in DOMAIN timers \ {t} |-> timers[u]]
      /\ UNCHANGED <<tasks, stopped, stopBlocker, ctxDone, recent, rlPc>>
  BY DEF Callback, Restrict
<1>2. DOMAIN timers' = DOMAIN timers \ {t} /\ \A u \in DOMAIN timers' : timers'[u] = timers[u]
  BY <1>1
<1>3. PICK q : q = queue[1]
  OBVIOUS
<1>4. /\ Len(queue') = Len(queue) - 1 /\ queue' \in Seq(Timers) /\ 1 \in 1..Len(queue)
      /\ \A i \in 1..Len(queue') : i + 1 \in 1..Len(queue) /\ queue'[i] = queue[i + 1]
  BY <1>1, Basics DEF RlIInv, RlTypeOK
<1>5. \A i \in 1..Len(queue) : i # 1 => i - 1 \in 1..Len(queue') /\ queue'[i - 1] = queue[i]
  <2> SUFFICES ASSUME NEW i \in 1..Len(queue), i # 1
               PROVE  i - 1 \in 1..Len(queue') /\ queue'[i - 1] = queue[i]
    OBVIOUS
  <2>1. i - 1 \in 1..Len(queue') /\ (i - 1) + 1 = i
    BY <1>4, Basics
  <2> QED
    BY <1>4, <2>1
<1>6. Entries' = Entries \ {q} /\ q \in Entries
  <2>1. \A e : e \in Entries' <=> \E i \in 1..Len(queue') : e = queue'[i]
    BY DEF Entries
  <2>2. \A e : e \in Entries <=> \E i \in 1..Len(queue) : e = queue[i]
    BY DEF Entries
  <2>3. \A i \in 1..Len(queue) : queue[i] = q <=> i = 1
    BY <1>3, <1>4 DEF RlIInv, EntriesDiffer
  <2>4. \A i \in 1..Len(queue') : i + 1 # 1
    OBVIOUS
  <2>5. ASSUME NEW e \in Entries' PROVE e \in Entries \ {q}
    BY <1>4, <2>1, <2>2, <2>3, <2>4
  <2>6. ASSUME NEW e \in Entries \ {q} PROVE e \in Entries'
    BY <1>5, <2>1, <2>2, <2>3
  <2> QED
    BY <1>4, <2>2, <2>3, <2>5, <2>6
<1>7. /\ Cardinality(Entries)' = Cardinality(Entries) - 1
      /\ Cardinality(DOMAIN timers)' = Cardinality(DOMAIN timers) - 1
      /\ Cardinality(Entries) \in Nat /\ Cardinality(DOMAIN timers) \in Nat
  <2>1. /\ IsFiniteSet(DOMAIN timers) /\ Cardinality(DOMAIN timers) \in Nat
        /\ IsFiniteSet(Entries) /\ Cardinality(Entries) \in Nat
    BY Basics, Finite
  <2>2. Cardinality(Entries \ {q}) = Cardinality(Entries) - 1
    BY <1>6, <2>1, FS_RemoveElement
  <2>3. Cardinality(DOMAIN timers \ {t}) = Cardinality(DOMAIN timers) - 1
    BY <1>1, <2>1, FS_RemoveElement
  <2> QED
    BY <1>2, <1>6, <2>1, <2>2, <2>3
<1>8. \A u : Left(u)' = Left(u)
  <2>1. Left(t) = 0 /\ Left(t)' = 0
    BY <1>1, <1>2, Basics DEF Left
  <2>2. \A u : u # t => Left(u)' = Left(u)
    BY <1>2 DEF Left
  <2> QED
    BY <2>1, <2>2
<1>9. RlTypeOK'
  <2>1. DOMAIN timers' \subseteq Timers /\ \A u \in DOMAIN timers' : timers'[u] \in Fired..interval
    BY <1>2 DEF RlIInv, RlTypeOK
  <2>2. tokens' \in 0..maxCount
    BY <1>1, Basics
  <2> QED
    BY <1>1, <1>4, <2>1, <2>2 DEF RlIInv, RlTypeOK
<1>10. TasksExact' /\ TokensExact' /\ EntriesDiffer'
  <2>1. TasksExact'
    BY <1>1 DEF RlIInv, TasksExact, Counted, At
  <2>2. Arming' = Arming /\ Cardinality(Arming) \in Nat
    BY <1>1, Finite DEF Arming, At
  <2>3. tokens' + Cardinality(Arming') + Len(queue') = maxCount
    BY <1>1, <1>4, <2>2, Basics, SMTT(30) DEF RlIInv, TokensExact
  <2>4. Cardinality(DOMAIN timers)' <= Len(queue') /\ (~stopBlocker' => Cardinality(DOMAIN timers)' = Len(queue'))
    BY <1>1, <1>4, <1>7, Basics, SMTT(30) DEF RlIInv, TokensExact
  <2>5. Cardinality(Entries)' = Len(queue')
    BY <1>4, <1>7 DEF RlIInv, EntriesDiffer
  <2>6. ASSUME NEW i \in 1..Len(queue'), NEW j \in 1..Len(queue'), queue'[i] = queue'[j] PROVE i = j
    <3>1. i + 1 = j + 1
      BY <1>4, <2>6 DEF RlIInv, EntriesDiffer
    <3> QED
      BY <3>1
  <2> QED
    BY <2>1, <2>3, <2>4, <2>5, <2>6 DEF TokensExact, EntriesDiffer
<1>11. DueInOrder'
  <2> SUFFICES ASSUME NEW i \in 1..Len(queue'), NEW j \in 1..Len(queue'), i < j
               PROVE  Left(queue[i])' <= Left(queue[j])'
    BY DEF DueInOrder
  <2>1. Left(queue[i + 1]) <= Left(queue[j + 1])
    BY <1>4 DEF RlIInv, DueInOrder
  <2>2. PICK u : u = queue'[i]
    OBVIOUS
  <2>3. PICK v : v = queue'[j]
    OBVIOUS
  <2>4. u = queue[i + 1] /\ v = queue[j + 1]
    BY <1>4, <2>2, <2>3
  <2>5. Left(u)' <= Left(v)'
    BY <1>8, <2>1, <2>4
  <2> QED
    BY <2>2, <2>3, <2>5
<1>12. OrphansDue'
  <2> SUFFICES ASSUME NEW u \in DOMAIN timers', u \notin Entries' PROVE timers'[u] <= Due
    BY DEF OrphansDue
  <2>1. u \in DOMAIN timers /\ timers'[u] = timers[u]
    BY <1>2
  <2>2. CASE u \notin Entries
    BY <2>1, <2>2 DEF RlIInv, OrphansDue
  <2>3. CASE u = q
    <3>1. Left(q) = 0
      BY <1>1, <1>3, FrontIsDue
    <3> QED
      BY <2>1, <2>3, <3>1, Basics DEF Left
  <2> QED
    BY <1>6, <2>2, <2>3
<1>13. AllStopped'
  BY <1>1, <1>2 DEF RlIInv, AllStopped
<1>14. RecentOut'
  <2>1. ASSUME NEW a \in 0..(interval - 1) PROVE Young(a)' = Young(a)
    <3>1. interval - a \in Int /\ interval - a > 0
      BY Basics
    <3>2. t \notin Young(a)
      BY <1>1, <3>1, Basics DEF Young
    <3> QED
      BY <1>2, <3>2 DEF Young
  <2> QED
    BY <1>1, <2>1 DEF RlIInv, RecentOut, RateBound, Arming, At
<1> QED
  BY <1>9, <1>10, <1>11, <1>12, <1>13, <1>14 DEF RlIInv

\* Time passes for the tokens taken and for their timers alike.
LEMMA TickInv ==
  ASSUME RlIInv, Tick
  PROVE  RlIInv'
<1>1. /\ timers' = [t \in DOMAIN timers |-> IF timers[t] > Due THEN timers[t] - 1 ELSE timers[t]]
      /\ recent' = [a \in DOMAIN recent |-> IF a = 0 THEN 0 ELSE recent[a - 1]]
      /\ UNCHANGED <<tokens, queue, tasks, stopped, stopBlocker, ctxDone, rlPc>>
  BY DEF Tick
<1>2. /\ DOMAIN timers' = DOMAIN timers
      /\ \A t \in DOMAIN timers : /\ timers[t] > 0 => timers'[t] = timers[t] - 1
                                  /\ ~(timers[t] > 0) => timers'[t] = timers[t]
  BY <1>1, Basics
<1>3. \A t : /\ Left(t) > 0 => Left(t)' = Left(t) - 1
             /\ Left(t) = 0 => Left(t)' = 0
             /\ t \in Timers => Left(t) \in Nat /\ Left(t)' \in Nat
  <2> SUFFICES ASSUME NEW t
               PROVE  /\ Left(t) > 0 => Left(t)' = Left(t) - 1
                      /\ Left(t) = 0 => Left(t)' = 0
                      /\ t \in Timers => Left(t) \in Nat /\ Left(t)' \in Nat
    OBVIOUS
  <2>1. CASE t \in DOMAIN timers
    BY <1>2, <2>1, Basics DEF Left
  <2>2. CASE t \notin DOMAIN timers
    BY <1>2, <2>2, Basics DEF Left
  <2> QED
    BY <2>1, <2>2
<1>4. /\ recent \in [0..(interval - 1) -> Nat] /\ recent' \in [0..(interval - 1) -> Nat]
      /\ recent'[0] = 0 /\ \A a \in 1..(interval - 1) : recent'[a] = recent[a - 1]
  <2>1. recent \in [0..(interval - 1) -> Nat]
    BY DEF RlIInv, RlTypeOK
  <2>2. recent' = [a \in 0..(interval - 1) |-> IF a = 0 THEN 0 ELSE recent[a - 1]]
    BY <1>1, <2>1
  <2>3. \A a \in 0..(interval - 1) : a # 0 => a - 1 \in 0..(interval - 1)
    BY Basics
  <2>4. 0 \in 0..(interval - 1) /\ \A a \in 1..(interval - 1) : a \in 0..(interval - 1) /\ a # 0
    BY Basics
  <2> QED
    BY <2>1, <2>2, <2>3, <2>4
<1>5. /\ SumFunctionOnSet(recent', 0..0) = 0
      /\ \A a \in 1..(interval - 1) : SumFunctionOnSet(recent', 0..a) = SumFunctionOnSet(recent, 0..(a - 1))
  <2>1. PICK n : n = interval - 1
    OBVIOUS
  <2>2. n \in Nat /\ recent \in [0..n -> Int] /\ recent' \in [0..n -> Int]
    BY <1>4, <2>1, Basics
  <2>3. recent'[0] = 0 /\ \A a \in 1..n : recent'[a] = recent[a - 1]
    BY <1>4, <2>1
  <2> QED
    BY <2>1, <2>2, <2>3, SumShift, ZenonT(30)
<1>6. RlTypeOK'
  <2>1. DOMAIN timers' \subseteq Timers /\ \A t \in DOMAIN timers' : timers'[t] \in Fired..interval
    BY <1>2, Basics DEF RlIInv, RlTypeOK
  <2> QED
    BY <1>1, <1>4, <2>1 DEF RlIInv, RlTypeOK
<1>7. TasksExact' /\ TokensExact' /\ EntriesDiffer'
  <2>1. TasksExact'
    BY <1>1 DEF RlIInv, TasksExact, Counted, At
  <2>2. Arming' = Arming /\ Entries' = Entries /\ DOMAIN timers' = DOMAIN timers
    BY <1>1, <1>2 DEF Arming, At, Entries
  <2> QED
    BY <1>1, <2>1, <2>2 DEF RlIInv, TokensExact, EntriesDiffer
<1>8. DueInOrder'
  <2> SUFFICES ASSUME NEW i \in 1..Len(queue), NEW j \in 1..Len(queue), i < j
               PROVE  Left(queue[i])' <= Left(queue[j])'
    BY <1>1 DEF DueInOrder
  <2>1. PICK u : u = queue[i]
    OBVIOUS
  <2>2. PICK v : v = queue[j]
    OBVIOUS
  <2>3. Left(u) <= Left(v) /\ u \in Timers /\ v \in Timers
    BY <2>1, <2>2, Basics DEF RlIInv, DueInOrder
  <2>4. Left(u)' <= Left(v)'
    <3>1. /\ Left(u) > 0 => Left(u)' = Left(u) - 1
          /\ Left(u) = 0 => Left(u)' = 0
          /\ Left(u) \in Nat /\ Left(u)' \in Nat
      BY <1>3, <2>3
    <3>2. /\ Left(v) > 0 => Left(v)' = Left(v) - 1
          /\ Left(v) = 0 => Left(v)' = 0
          /\ Left(v) \in Nat /\ Left(v)' \in Nat
      BY <1>3, <2>3
    <3> QED
      BY <2>3, <3>1, <3>2
  <2> QED
    BY <1>1, <2>1, <2>2, <2>4
<1>9. OrphansDue' /\ AllStopped'
  <2>1. \A t \in DOMAIN timers : timers[t] <= Due => timers'[t] <= Due
    BY <1>2, Basics
  <2> QED
    BY <1>1, <1>2, <2>1 DEF RlIInv, OrphansDue, AllStopped, Entries
<1>10. ASSUME NEW a \in 1..(interval - 1) PROVE Young(a)' = Young(a - 1)
  <2>1. PICK k : k = interval - a
    OBVIOUS
  <2>2. k \in Nat /\ k > 0 /\ interval - (a - 1) = k + 1
    BY <2>1, Basics
  <2>3. \A t \in DOMAIN timers : timers'[t] >= k <=> timers[t] >= k + 1
    <3> SUFFICES ASSUME NEW t \in DOMAIN timers PROVE timers'[t] >= k <=> timers[t] >= k + 1
      OBVIOUS
    <3>1. timers[t] \in Int
      BY Basics
    <3>2. CASE timers[t] > 0
      BY <1>2, <2>2, <3>1, <3>2
    <3>3. CASE ~(timers[t] > 0)
      BY <1>2, <2>2, <3>1, <3>3
    <3> QED
      BY <3>2, <3>3
  <2> QED
    BY <1>2, <2>1, <2>2, <2>3 DEF Young
<1>11. ASSUME ~stopBlocker, NEW a \in 0..(interval - 1)
       PROVE  SumFunctionOnSet(recent', 0..a) <= Cardinality(Arming)' + Cardinality(Young(a)')
  <2>1. Cardinality(Arming)' = Cardinality(Arming) /\ Cardinality(Arming) \in Nat
    BY <1>1, Finite DEF Arming, At
  <2>2. CASE a = 0
    <3>1. Young(a)' \subseteq DOMAIN timers
      BY <1>2 DEF Young
    <3>2. Cardinality(Young(a)') \in Nat
      BY <3>1, Basics, Finite
    <3> QED
      BY <1>5, <2>1, <2>2, <3>2
  <2>3. CASE a \in 1..(interval - 1)
    <3>1. a - 1 \in 0..(interval - 1)
      BY <2>3, Basics
    <3>2. SumFunctionOnSet(recent, 0..(a - 1)) <= Cardinality(Arming) + Cardinality(Young(a - 1))
      BY <1>11, <3>1 DEF RlIInv, RecentOut
    <3> QED
      BY <1>5, <1>10, <2>1, <2>3, <3>2
  <2> QED
    BY <2>2, <2>3, Basics
<1>12. RateBound'
  <2>1. SumFunction(recent') = SumFunctionOnSet(recent', 0..(interval - 1))
    BY <1>4 DEF SumFunction
  <2>2. CASE interval = 1
    BY <1>5, <2>1, <2>2, Basics DEF RateBound
  <2>3. CASE interval > 1
    <3>1. interval - 1 \in 1..(interval - 1) /\ interval - 1 \in 0..(interval - 1)
          /\ (interval - 1) - 1 \in 0..(interval - 1)
      BY <2>3, Basics
    <3>2. SumFunction(recent') = SumFunctionOnSet(recent, 0..((interval - 1) - 1))
      BY <1>5, <2>1, <3>1
    <3>3. SumFunction(recent) = recent[interval - 1] + SumFunctionOnSet(recent, 0..((interval - 1) - 1))
      <4> DEFINE S == 0..(interval - 1)
      <4>1. DOMAIN recent = S /\ \A b \in S : recent[b] \in Int
        BY <1>4
      <4>2. IsFiniteSet(S)
        BY Basics, FS_Interval
      <4>3. S \ {interval - 1} = 0..((interval - 1) - 1)
        BY Basics
      <4>4. SumFunctionOnSet(recent, S) = recent[interval - 1] + SumFunctionOnSet(recent, S \ {interval - 1})
        <5> HIDE DEF S
        <5>1. interval - 1 \in S
          BY <3>1 DEF S
        <5> QED
          BY <4>1, <4>2, <5>1, SumRemove
      <4> QED
        BY <4>1, <4>3, <4>4 DEF SumFunction
    <3>4. recent[interval - 1] \in Nat /\ SumFunctionOnSet(recent, 0..((interval - 1) - 1)) \in Nat
          /\ SumFunction(recent) <= maxCount
      BY <1>4, <3>1, RateFromTimers DEF RateBound
    <3> QED
      BY <3>2, <3>3, <3>4, Basics DEF RateBound
  <2> QED
    BY <2>2, <2>3, Basics
<1>13. RecentOut'
  BY <1>1, <1>11, <1>12 DEF RecentOut
<1> QED
  BY <1>6, <1>7, <1>8, <1>9, <1>13 DEF RlIInv

\* Who finds all done stops what has ticks left: all that stands in the queue.
LEMMA CompleteInv ==
  ASSUME RlIInv, NEW g \in LimiterUsers, Check(g) \/ CheckStop(g)
  PROVE  RlIInv'
<1>1. PICK l \in {"idle", "waitStop"} : RlGoto(g, l)
  BY DEF Check, CheckStop, Return
<1>2. /\ checkTasksCompl /\ UNCHANGED <<tokens, queue, tasks, stopped, recent>>
      /\ rlPc[g] \in {"check", "checkStop"} /\ ctxDone' \in [LimiterUsers -> BOOLEAN]
  BY DEF Check, CheckStop, Return, RlIInv, RlTypeOK
<1>3. l \in RlPCs \ {"arm"} /\ l \notin Inside /\ rlPc[g] \notin Inside /\ rlPc[g] # "arm" /\ tasks' = tasks + 0 - 0
  BY <1>2, Basics DEF RlPCs, Inside
<1>4. stopped \in BOOLEAN /\ (stopBlocker => stopped /\ tasks = 0)
  BY DEF RlIInv, RlTypeOK, AllStopped
<1>5. CASE ~(stopped /\ tasks = 0)
  <2>1. UNCHANGED <<timers, stopBlocker>>
    BY <1>2, <1>5 DEF checkTasksCompl
  <2> QED
    BY <1>1, <1>2, <1>3, <1>4, <2>1, Quiet
<1>6. CASE stopped /\ tasks = 0
  <2>1. /\ stopBlocker' = TRUE
        /\ timers' = Restrict(timers, {t \in DOMAIN timers : t \in Entries => timers[t] = Fired})
    BY <1>2, <1>6 DEF checkTasksCompl
  <2>2. /\ DOMAIN timers' \subseteq DOMAIN timers
        /\ \A t \in DOMAIN timers' : timers'[t] = timers[t] /\ (t \in Entries => timers[t] = Fired)
    BY <2>1 DEF Restrict
  <2>3. \A t \in DOMAIN timers' : timers'[t] <= Due
    BY <2>2, Basics DEF RlIInv, OrphansDue
  <2>4. \A t : Left(t)' = 0
    <3>1. \A t \in DOMAIN timers' : ~(timers'[t] > Due)
      <4>1. \A t \in DOMAIN timers' : timers'[t] \in Int
        BY <2>2, Basics
      <4> QED
        BY <2>3, <4>1, Basics
    <3> QED
      BY <3>1 DEF Left
  <2>5. /\ rlPc' \in [LimiterUsers -> RlPCs]
        /\ Cardinality(Counted)' = Cardinality(Counted) + 0 - 0
        /\ Cardinality(Arming)' = Cardinality(Arming) + 0 - 0
    BY <1>1, <1>3, PcMoved
  <2>6. Cardinality(Counted)' = Cardinality(Counted) /\ Cardinality(Arming)' = Cardinality(Arming)
    BY <2>5, Finite DEF Counted, Arming
  <2>7. RlTypeOK'
    BY <1>2, <2>1, <2>2, <2>5 DEF RlIInv, RlTypeOK
  <2>8. TasksExact' /\ TokensExact' /\ EntriesDiffer'
    <3>1. Cardinality(DOMAIN timers)' <= Len(queue)'
      <4>1. IsFiniteSet(DOMAIN timers) /\ Cardinality(DOMAIN timers) \in Nat /\ Cardinality(DOMAIN timers') \in Nat
        BY <2>2, Basics, Finite
      <4>2. Cardinality(DOMAIN timers') <= Cardinality(DOMAIN timers)
        BY <2>2, <4>1, FS_Subset
      <4> QED
        BY <1>2, <4>1, <4>2, Basics DEF RlIInv, TokensExact
    <3>2. TasksExact'
      BY <1>2, <2>6 DEF RlIInv, TasksExact
    <3>3. TokensExact'
      BY <1>2, <2>1, <2>6, <3>1 DEF RlIInv, TokensExact
    <3>4. EntriesDiffer'
      BY <1>2 DEF RlIInv, EntriesDiffer, Entries
    <3> QED
      BY <3>2, <3>3, <3>4
  <2>9. DueInOrder' /\ OrphansDue' /\ AllStopped'
    <3>1. DueInOrder'
      BY <2>4 DEF DueInOrder
    <3> QED
      BY <1>2, <1>6, <2>3, <3>1 DEF OrphansDue, AllStopped
  <2>10. RecentOut'
    BY <1>2, <2>1, RateFromTimers DEF RecentOut, RateBound
  <2> QED
    BY <2>7, <2>8, <2>9, <2>10 DEF RlIInv
<1> QED
  BY <1>5, <1>6

---------------------------------------------------------------------------
(* ratelimit: the theorems.                                                *)

\* Every step keeps the invariant.
LEMMA RlNextIInv == RlIInv /\ [RlNext]_rlVars => RlIInv'
<1> SUFFICES ASSUME RlIInv, [RlNext]_rlVars PROVE RlIInv'
  OBVIOUS
<1>1. CASE Tick
  BY <1>1, TickInv
<1>2. ASSUME NEW t \in Timers, StartCallback(t) \/ Callback(t) PROVE RlIInv'
  BY <1>2, StartCallbackInv, CallbackInv
<1>3. ASSUME NEW g \in LimiterUsers,
             Enter(g) \/ SetStopped(g) \/ CancelContext(g) \/ TakeToken(g) \/ Running(g)
      PROVE  RlIInv'
  BY <1>3, QuietSteps, TakeTokenInv, ArmInv, CompleteInv DEF Running
<1>4. CASE UNCHANGED rlVars
  <2> USE <1>4 DEF rlVars, RlIInv
  <2>1. RlTypeOK'
    BY DEF RlTypeOK
  <2>2. TasksExact' /\ EntriesDiffer'
    BY DEF TasksExact, Counted, At, EntriesDiffer, Entries
  <2>3. TokensExact'
    BY DEF TokensExact, Arming, At
  <2>4. DueInOrder' /\ OrphansDue' /\ AllStopped'
    BY DEF DueInOrder, Left, OrphansDue, Entries, AllStopped
  <2>5. RecentOut'
    BY DEF RecentOut, RateBound, Arming, At, Young
  <2> QED
    BY <2>1, <2>2, <2>3, <2>4, <2>5
<1> QED
  BY <1>1, <1>2, <1>3, <1>4 DEF RlNext

\* The types, and which calls, queue entries and timers the tokens that are out
\* belong to, at every moment (ratelimit.go:13-27, 60-104).
THEOREM RateLimitInvariant == RlSpec => []RlIInv
<1>1. RlInit => RlIInv
  BY RlInitIInv
<1>2. RlIInv /\ [RlNext]_rlVars => RlIInv'
  BY RlNextIInv
<1> QED
  BY <1>1, <1>2, PTL DEF RlSpec

\* No window of the length of the interval has more than maxCount calls that
\* got a token, although callbacks run late and in any order (ratelimit.go:31-32).
THEOREM RateIsKept == RlSpec => []RateBound
<1>1. RlIInv => RateBound
  BY RateFromTimers
<1> QED
  BY <1>1, RateLimitInvariant, PTL

\* Until the end no token is lost or made up, and a callback always finds an
\* entry to pop and room for its token (ratelimit.go:79-86).
THEOREM TokensAreKept == RlSpec => []TokensConserved
<1>1. RlIInv => TokensConserved
  <2> SUFFICES ASSUME RlIInv PROVE TokensConserved
    OBVIOUS
  <2>1. /\ tokens + Cardinality(Arming) + Len(queue) = maxCount
        /\ Cardinality(DOMAIN timers) <= Len(queue)
        /\ ~stopBlocker => Cardinality(DOMAIN timers) = Len(queue)
    BY DEF RlIInv, TokensExact
  <2>2. Cardinality(Arming) \in Nat /\ IsFiniteSet(DOMAIN timers) /\ Cardinality(DOMAIN timers) \in Nat
        /\ Cardinality(Started) \in Nat /\ Cardinality(Started) <= Cardinality(DOMAIN timers)
    <3>1. Started \subseteq DOMAIN timers /\ DOMAIN timers \subseteq Timers
      BY Basics DEF Started
    <3>2. IsFiniteSet(DOMAIN timers) /\ Cardinality(DOMAIN timers) \in Nat /\ Cardinality(Started) \in Nat
      BY <3>1, Finite
    <3> QED
      BY <3>1, <3>2, FS_Subset, Finite DEF Arming
  <2>3. Arming = {g \in LimiterUsers : rlPc[g] = "arm"}
    BY DEF Arming, At
  <2>4. Cardinality(Started) <= Len(queue) /\ tokens + Cardinality(Started) <= maxCount
    BY <2>1, <2>2, Basics
  <2>5. ~stopBlocker => tokens + Cardinality(Arming) + Cardinality(DOMAIN timers) = maxCount
    BY <2>1
  <2> QED
    BY <2>3, <2>4, <2>5 DEF TokensConserved
<1> QED
  BY <1>1, RateLimitInvariant, PTL

\* Once stopBlocker1 is closed no call is under way and no timer has time left
\* to run (ratelimit.go:46-58, 98-104).
THEOREM StopIsClean == RlSpec => []StopLeavesNothing
<1>1. RlIInv => StopLeavesNothing
  <2> SUFFICES ASSUME RlIInv PROVE StopLeavesNothing
    OBVIOUS
  <2>1. StopWaitsForAll
    BY InsideRuns DEF StopWaitsForAll, Inside
  <2>2. NoTimerLeftTicking
    BY DEF RlIInv, AllStopped, NoTimerLeftTicking
  <2> QED
    BY <2>1, <2>2 DEF RlIInv, StopLeavesNothing
<1> QED
  BY <1>1, RateLimitInvariant, PTL
=============================================================================
