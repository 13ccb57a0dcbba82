------------------------------ MODULE KeyLock ------------------------------
(***************************************************************************)
(* keylock/keylock.go: a lock over sets of keys.  A LockKeys call that     *)
(* finds a key taken leaves a Waiter in one queue per key, in keysNeeded   *)
(* where the key is locked and in keysFree where it is not, and waits for  *)
(* its blocker or for its cancel channel.  Whoever frees keys wakes, for   *)
(* each of them, one waiter that needs nothing more.                       *)
(*                                                                         *)
(* A goroutine stands for one caller with its current Waiter.  Once nothing *)
(* refers to a Waiter its fields have their first values again; neededCnt  *)
(* has when no queue holds the waiter any more.  A section                 *)
(* under l.mu is one step, except wakeUp, whose iterations are steps taken *)
(* while mu is held.  The queues are sets: removeWaiter swaps the last     *)
(* waiter into the hole, so the code keeps no order worth modelling, and   *)
(* a wake takes any waiter that is ready.                                  *)
(***************************************************************************)
EXTENDS Integers, FiniteSets

CONSTANTS Goroutines, Keys, Free

ASSUME KeyLockAssumption == /\ IsFiniteSet(Keys)
                            /\ Free \notin Goroutines

VARIABLES
  mu,             \* the goroutine inside wakeUp, or Free
  todo,           \* the keys that wakeUp has still to visit
  allLockedKeys,
  keysNeeded,     \* keysNeeded[k]: waiters queued for the locked key k
  keysFree,       \* keysFree[k]: waiters queued for the unlocked key k
  neededCnt, usingKeys, inStarting, blocker,  \* the Waiter of each goroutine
  cancelled,      \* cancelled[g]: g's cancel channel is closed
  pc

queues == <<allLockedKeys, keysNeeded, keysFree, neededCnt>>
waiter == <<usingKeys, inStarting, blocker>>
vars == <<mu, todo, queues, waiter, cancelled, pc>>

PCs == {"idle", "calling", "waiting", "cancelling", "held", "waking"}

TypeOK ==
  /\ mu \in Goroutines \cup {Free}
  /\ todo \subseteq Keys
  /\ allLockedKeys \subseteq Keys
  /\ keysNeeded \in [Keys -> SUBSET Goroutines]
  /\ keysFree \in [Keys -> SUBSET Goroutines]
  /\ neededCnt \in [Goroutines -> Nat]
  /\ usingKeys \in [Goroutines -> SUBSET Keys]
  /\ inStarting \in [Goroutines -> BOOLEAN]
  /\ blocker \in [Goroutines -> 0..1]
  /\ cancelled \in [Goroutines -> BOOLEAN]
  /\ pc \in [Goroutines -> PCs]

Init ==
  /\ mu = Free
  /\ todo = {}
  /\ allLockedKeys = {}
  /\ keysNeeded = [k \in Keys |-> {}]
  /\ keysFree = [k \in Keys |-> {}]
  /\ neededCnt = [g \in Goroutines |-> 0]
  /\ usingKeys = [g \in Goroutines |-> {}]
  /\ inStarting = [g \in Goroutines |-> FALSE]
  /\ blocker = [g \in Goroutines |-> 0]
  /\ cancelled = [g \in Goroutines |-> FALSE]
  /\ pc = [g \in Goroutines |-> "idle"]

Goto(g, label) == pc' = [pc EXCEPT ![g] = label]

---------------------------------------------------------------------------
(* The helpers that need mu.                                               *)

\* The waiters of queues src join those of dst for the keys in K.
Joined(dst, src, K) ==
  [k \in Keys |-> IF k \in K THEN dst[k] \cup src[k] ELSE dst[k]]

Emptied(queue, K) == [k \in Keys |-> IF k \in K THEN {} ELSE queue[k]]

RemoveNothing(queue, w) == queue    \* mutant: the waiter is never found

removeWaiter(queue, w) ==
  [k \in Keys |-> IF k \in usingKeys[w] THEN queue[k] \ {w} ELSE queue[k]]

\* How many of the queues of the keys in K waiter g stands in.
Places(queue, K, g) == Cardinality({k \in K : g \in queue[k]})

lockKeys(K) ==
  /\ allLockedKeys' = allLockedKeys \cup K
  /\ neededCnt' = [g \in Goroutines |-> neededCnt[g] + Places(keysFree, K, g)]
  /\ keysNeeded' = Joined(keysNeeded, keysFree, K)
  /\ keysFree' = Emptied(keysFree, K)

freeKeys(K) ==
  /\ allLockedKeys' = allLockedKeys \ K
  /\ neededCnt' = [g \in Goroutines |-> neededCnt[g] - Places(keysNeeded, K, g)]
  /\ keysFree' = Joined(keysFree, keysNeeded, K)
  /\ keysNeeded' = Emptied(keysNeeded, K)

\* mutant: the woken waiter stays in its queues
LockAndKeepWaiter(w) == lockKeys(usingKeys[w])

\* lockKeys(w.usingKeys) followed by removeWaiter(w)
lockForWaiter(w) ==
  LET K == usingKeys[w] IN
  /\ allLockedKeys' = allLockedKeys \cup K
  /\ neededCnt' = [g \in Goroutines |->
                     IF g = w THEN 0 ELSE neededCnt[g] + Places(keysFree, K, g)]
  /\ keysNeeded' = removeWaiter(Joined(keysNeeded, keysFree, K), w)
  /\ keysFree' = removeWaiter(Emptied(keysFree, K), w)

\* The last reference to the waiter of g is dropped.
Forget(g) ==
  /\ usingKeys' = [usingKeys EXCEPT ![g] = {}]
  /\ inStarting' = [inStarting EXCEPT ![g] = FALSE]
  /\ blocker' = [blocker EXCEPT ![g] = 0]
  /\ cancelled' = [cancelled EXCEPT ![g] = FALSE]
  /\ Goto(g, "idle")

---------------------------------------------------------------------------
(* LockKeys up to its select.                                              *)

Call(g, K) ==
  /\ pc[g] = "idle"
  /\ usingKeys' = [usingKeys EXCEPT ![g] = K]
  /\ Goto(g, "calling")
  /\ UNCHANGED <<mu, todo, queues, inStarting, blocker, cancelled>>

\* The environment closes the cancel channel; closed before the select, it is
\* as good as closed at the select.
Cancel(g) ==
  /\ pc[g] = "waiting"
  /\ ~cancelled[g]
  /\ cancelled' = [cancelled EXCEPT ![g] = TRUE]
  /\ UNCHANGED <<mu, todo, queues, waiter, pc>>

GrantNow(g) ==
  /\ pc[g] = "calling"
  /\ mu = Free
  /\ usingKeys[g] \cap allLockedKeys = {}
  /\ lockKeys(usingKeys[g])
  /\ Goto(g, "held")
  /\ UNCHANGED <<mu, todo, waiter, cancelled>>

Enqueue(g) ==
  LET curNeeded == usingKeys[g] \cap allLockedKeys
      curFree   == usingKeys[g] \ allLockedKeys
  IN
  /\ pc[g] = "calling"
  /\ mu = Free
  /\ curNeeded # {}
  /\ neededCnt' = [neededCnt EXCEPT ![g] = Cardinality(curNeeded)]
  /\ keysNeeded' = [k \in Keys |-> keysNeeded[k] \cup IF k \in curNeeded THEN {g} ELSE {}]
  /\ keysFree' = [k \in Keys |-> keysFree[k] \cup IF k \in curFree THEN {g} ELSE {}]
  /\ Goto(g, "waiting")
  /\ UNCHANGED <<mu, todo, allLockedKeys, waiter, cancelled>>

---------------------------------------------------------------------------
(* The select and what follows it.                                         *)

Woken(g) ==
  /\ pc[g] = "waiting"
  /\ blocker[g] = 1
  /\ blocker' = [blocker EXCEPT ![g] = 0]
  /\ cancelled' = [cancelled EXCEPT ![g] = FALSE]
  /\ Goto(g, "held")
  /\ UNCHANGED <<mu, todo, queues, usingKeys, inStarting>>

\* The select may take the cancel branch although the blocker is ready too.
ChooseCancel(g) ==
  /\ pc[g] = "waiting"
  /\ cancelled[g]
  /\ Goto(g, "cancelling")
  /\ UNCHANGED <<mu, todo, queues, waiter, cancelled>>

\* mutant: the cancel branch does not look at inStarting
WithdrawAlways(g) ==
  /\ pc[g] = "cancelling"
  /\ mu = Free
  /\ keysNeeded' = removeWaiter(keysNeeded, g)
  /\ keysFree' = removeWaiter(keysFree, g)
  /\ neededCnt' = [neededCnt EXCEPT ![g] = 0]
  /\ Forget(g)
  /\ UNCHANGED <<mu, todo, allLockedKeys>>

Withdraw(g) ==
  /\ pc[g] = "cancelling"
  /\ mu = Free
  /\ ~inStarting[g]
  /\ keysNeeded' = removeWaiter(keysNeeded, g)
  /\ keysFree' = removeWaiter(keysFree, g)
  /\ neededCnt' = [neededCnt EXCEPT ![g] = 0]
  /\ Forget(g)
  /\ UNCHANGED <<mu, todo, allLockedKeys>>

\* freeKeys, then wakeUp begins: mu stays with g.
BeginRelease(g) ==
  /\ mu = Free
  /\ mu' = g
  /\ freeKeys(usingKeys[g])
  /\ todo' = usingKeys[g]
  /\ Goto(g, "waking")
  /\ UNCHANGED <<waiter, cancelled>>

\* The unlock function that LockKeys returned.
Unlock(g) == pc[g] = "held" /\ BeginRelease(g)

\* A cancelled call that was woken meanwhile gives its keys back.
GiveBack(g) == /\ pc[g] = "cancelling"
               /\ inStarting[g]
               /\ BeginRelease(g)

---------------------------------------------------------------------------
(* wakeUp                                                                  *)

AnyWaiter(k) == keysFree[k]         \* mutant: neededCnt is not looked at

Ready(k) == {w \in keysFree[k] : neededCnt[w] = 0}

\* mutant: the break leaves the loop over the keys
WakeOnlyOne(g, k, w) ==
  /\ mu = g
  /\ k \in todo
  /\ w \in Ready(k)
  /\ blocker[w] = 0
  /\ inStarting' = [inStarting EXCEPT ![w] = TRUE]
  /\ lockForWaiter(w)
  /\ blocker' = [blocker EXCEPT ![w] = 1]
  /\ todo' = {}
  /\ UNCHANGED <<mu, usingKeys, cancelled, pc>>

\* mutant: an unbuffered blocker, whose receiver may have left the select
WakeUnbuffered(g, k, w) ==
  /\ mu = g
  /\ k \in todo
  /\ w \in Ready(k)
  /\ pc[w] = "waiting"
  /\ blocker[w] = 0
  /\ inStarting' = [inStarting EXCEPT ![w] = TRUE]
  /\ lockForWaiter(w)
  /\ blocker' = [blocker EXCEPT ![w] = 1]
  /\ todo' = todo \ {k}
  /\ UNCHANGED <<mu, usingKeys, cancelled, pc>>

WakeOne(g, k, w) ==
  /\ mu = g
  /\ k \in todo
  /\ w \in Ready(k)
  /\ blocker[w] = 0                       \* room in the channel
  /\ inStarting' = [inStarting EXCEPT ![w] = TRUE]
  /\ lockForWaiter(w)
  /\ blocker' = [blocker EXCEPT ![w] = 1]
  /\ todo' = todo \ {k}
  /\ UNCHANGED <<mu, usingKeys, cancelled, pc>>

WakeNone(g, k) ==
  /\ mu = g
  /\ k \in todo
  /\ Ready(k) = {}
  /\ todo' = todo \ {k}
  /\ UNCHANGED <<mu, queues, waiter, cancelled, pc>>

EndRelease(g) ==
  /\ mu = g
  /\ todo = {}
  /\ mu' = Free
  /\ Forget(g)
  /\ UNCHANGED <<todo, queues>>

wakeUp(g) == \/ \E k \in Keys : \/ \E w \in Goroutines : WakeOne(g, k, w)
                                \/ WakeNone(g, k)
             \/ EndRelease(g)

\* The steps of a goroutine that wait for mu.
Locking(g) == GrantNow(g) \/ Enqueue(g) \/ Withdraw(g) \/ GiveBack(g)

Next == \E g \in Goroutines :
  \/ \E K \in SUBSET Keys : Call(g, K)
  \/ Cancel(g)
  \/ Locking(g)
  \/ Woken(g)
  \/ ChooseCancel(g)
  \/ Unlock(g)
  \/ wakeUp(g)

Spec == Init /\ [][Next]_vars

(***************************************************************************)
(* sync.Mutex does not starve a goroutine that waits for it (its           *)
(* starvation mode hands the mutex over), hence strong fairness for the    *)
(* steps that take mu.  Callers need not call, cancel or unlock.           *)
(***************************************************************************)
Fairness == \A g \in Goroutines : /\ SF_vars(Locking(g))
                                  /\ WF_vars(Woken(g) \/ ChooseCancel(g))
                                  /\ WF_vars(wakeUp(g))

LiveSpec == Spec /\ Fairness

---------------------------------------------------------------------------
(* Properties                                                              *)

\* g stands in the queues.
Queued(g) == pc[g] \in {"waiting", "cancelling"} /\ ~inStarting[g]

\* g has its keys: it holds them, or a wakeUp took them for it and the call
\* has not noticed yet (or chose to cancel and has not given them back yet).
Owner(g) == \/ pc[g] = "held"
            \/ pc[g] \in {"waiting", "cancelling"} /\ inStarting[g]

\* No key is in the hands of two callers (LockKeys/unlock, keylock.go:92-154).
MutualExclusion ==
  \A g, h \in Goroutines :
     g # h /\ Owner(g) /\ Owner(h) => usingKeys[g] \cap usingKeys[h] = {}

\* A key is marked locked exactly while an owner has it: a cancellation that
\* races with a wake-up neither leaks keys nor frees the keys of another.
LockedExact ==
  allLockedKeys = {k \in Keys : \E g \in Goroutines : Owner(g) /\ k \in usingKeys[g]}

\* The queues hold exactly the waiting calls, each in one queue per key and on
\* the side that tells whether the key is locked; nobody who returned is left.
QueuesExact ==
  \A k \in Keys :
    /\ keysNeeded[k] = {g \in Goroutines : Queued(g) /\ k \in usingKeys[g] \cap allLockedKeys}
    /\ keysFree[k] = {g \in Goroutines : Queued(g) /\ k \in usingKeys[g] \ allLockedKeys}

\* neededCnt of a queued waiter is the number of its keys that are locked.
CountExact ==
  \A g \in Goroutines :
    Queued(g) => neededCnt[g] = Cardinality(usingKeys[g] \cap allLockedKeys)

\* The three together: what wakeUp and LockKeys read from the queues, from
\* allLockedKeys and from neededCnt is the same story (keylock.go:29-74).
BookkeepingExact == LockedExact /\ QueuesExact /\ CountExact

\* Outside the mutex no queued waiter has all its keys unlocked: the release
\* that freed its last key woke it, or gave that key to another waiter.
NoLostWakeup ==
  mu = Free =>
    \A g \in Goroutines : Queued(g) => usingKeys[g] \cap allLockedKeys # {}

\* wakeUp never finds the blocker full: a send that blocks under mu would stop
\* every caller.
WakeNeverBlocks ==
  \A k \in todo : \A w \in Ready(k) : blocker[w] = 0

\* What a caller of LockKeys relies on, whatever cancellations and wake-ups it
\* races with (keylock.go:92-154).
LockInv == TypeOK /\ MutualExclusion /\ WakeNeverBlocks

\* A call whose cancel channel is closed returns, whatever the others do.
CancelReturns ==
  \A g \in Goroutines :
    (pc[g] \in {"waiting", "cancelling"} /\ cancelled[g]) ~> (pc[g] \in {"held", "idle"})

\* The queues implement the abstract lock: keys are granted in the step that
\* marks them locked and left in the step that frees them, and a request whose
\* keys stay free is granted.
phaseBar == [g \in Goroutines |-> IF Owner(g) THEN "granted"
                                  ELSE IF pc[g] \in {"idle", "waking"} THEN "idle"
                                  ELSE "asked"]
wantBar == [g \in Goroutines |-> IF phaseBar[g] = "idle" THEN {} ELSE usingKeys[g]]

Abstract == INSTANCE KeyLockSpec WITH phase <- phaseBar, want <- wantBar

ImplementsKeyLockSpec == Abstract!Spec
ImplementsLiveness == Abstract!LiveSpec
=============================================================================
