-------------------------- MODULE ConcurrentProofs --------------------------
(* Proofs about the small concurrent programs, each for any goroutines and  *)
(* any size of its data, about those that MCConcurrent puts together, and   *)
(* about cond as CondMonitor uses it.                                       *)
EXTENDS RWMutex, CondMonitor, MCConcurrent, SetLemmas

---------------------------------------------------------------------------
(* rwmutex                                                                 *)

\* The goroutines counted by cnt.
Counted == {g \in Goroutines : pc[g] \in {"firstReader", "reading", "runlock"}}

\* The one goroutine that can hold mutRead between steps is the first reader.
MutReadHeld == \A g \in Goroutines : pc[g] = "firstReader" <=> mutRead = g

\* mutWrite is taken exactly by a writer or by the readers together.
MutWriteHeld == mutWrite <=> Readers \cup Writers # {}

\* A first reader that waits for mutWrite is the only one that is counted.
FirstAlone == \A g \in Goroutines : pc[g] = "firstReader" => Counted = {g}

RWIInv == /\ TypeOK
          /\ CountExact
          /\ Exclusion
          /\ MutReadHeld
          /\ MutWriteHeld
          /\ FirstAlone

---------------------------------------------------------------------------
(* Counting readers.                                                       *)

\* The readers that the count stands for are counted.
LEMMA CountedFinite ==
  /\ IsFiniteSet(Counted)
  /\ Cardinality(Counted) \in Nat
  /\ Cardinality(Counted) = 0 <=> Counted = {}
<1>1. IsFiniteSet(Counted)
  BY RWMutexAssumption, FS_Subset DEF Counted
<1>2. QED
  BY <1>1, FS_CardinalityType, FS_EmptySet

\* A goroutine that starts to be counted adds one.
LEMMA CountEnter ==
  ASSUME CountExact, NEW g \in Goroutines, g \notin Counted, Counted' = Counted \cup {g},
         cnt' = cnt + 1
  PROVE  CountExact'
<1>1. Cardinality(Counted \cup {g}) = Cardinality(Counted) + 1
  BY CountedFinite, FS_AddElement
<1>2. QED
  BY <1>1 DEF CountExact, Counted

\* A goroutine that stops being counted takes one away.
LEMMA CountLeave ==
  ASSUME CountExact, NEW g \in Goroutines, g \in Counted, Counted' = Counted \ {g},
         cnt' = cnt - 1
  PROVE  CountExact' /\ cnt' \in Nat /\ (cnt = 1 <=> Counted = {g})
<1>1. Cardinality(Counted \ {g}) = Cardinality(Counted) - 1
  BY CountedFinite, FS_RemoveElement
<1>2. IsFiniteSet(Counted \ {g})
  BY CountedFinite, FS_Subset
<1>3. Cardinality(Counted \ {g}) \in Nat /\ (Cardinality(Counted \ {g}) = 0 <=> Counted \ {g} = {})
  BY <1>2, FS_CardinalityType, FS_EmptySet
<1>4. cnt = Cardinality(Counted) /\ cnt' = Cardinality(Counted \ {g})
  BY <1>1 DEF CountExact, Counted
<1>5. cnt = 1 <=> Counted = {g}
  BY <1>1, <1>3, <1>4, CountedFinite
<1>6. QED
  BY <1>3, <1>4, <1>5 DEF CountExact, Counted

---------------------------------------------------------------------------
(* Every step preserves the invariant.                                     *)

\* Both channels are empty and nobody is inside.
THEOREM RWInitIInv == Init => RWIInv
<1> SUFFICES ASSUME Init PROVE RWIInv
  OBVIOUS
<1>1. Counted = {} /\ Readers = {} /\ Writers = {}
  BY DEF Init, Counted, Readers, Writers
<1>2. CountExact
  BY <1>1, CountedFinite DEF Init, CountExact, Counted
<1>3. QED
  BY <1>1, <1>2, RWMutexAssumption
  DEF Init, RWIInv, TypeOK, PCs, Exclusion, MutReadHeld, MutWriteHeld, FirstAlone

\* Steps that move a goroutine between labels with the same role.
LEMMA SameRoleStep ==
  ASSUME RWIInv, NEW g \in Goroutines, CallRLock(g) \/ CallRUnlock(g) \/ CallLock(g)
  PROVE  RWIInv'
<1> USE DEF RWIInv, CallRLock, CallRUnlock, CallLock, Goto
<1>1. TypeOK'
  BY DEF TypeOK, PCs
<1>2. Counted' = Counted /\ Readers' = Readers /\ Writers' = Writers
  BY DEF TypeOK, Counted, Readers, Writers
<1>3. CountExact'
  BY <1>2 DEF CountExact, Counted
<1>4. MutReadHeld' /\ FirstAlone'
  BY <1>2 DEF TypeOK, MutReadHeld, FirstAlone
<1>5. Exclusion' /\ MutWriteHeld'
  BY <1>2 DEF Exclusion, MutWriteHeld
<1>6. QED
  BY <1>1, <1>3, <1>4, <1>5

\* A reader that enters is counted, the first one with mutWrite.
LEMMA RLockStep ==
  ASSUME RWIInv, NEW g \in Goroutines, RLock(g)
  PROVE  RWIInv'
<1>1. CASE RLockFirst(g)
  <2> USE <1>1 DEF RWIInv, RLockFirst, Goto
  <2>1. TypeOK'
    BY DEF TypeOK, PCs
  <2>2. /\ g \notin Counted /\ Counted' = Counted \cup {g}
        /\ Readers' = Readers /\ Writers' = Writers
    BY DEF TypeOK, Counted, Readers, Writers
  <2>3. Counted = {}
    BY CountedFinite DEF CountExact, Counted
  <2>4. CountExact'
    BY <2>2, CountEnter
  <2>5. MutReadHeld' /\ FirstAlone'
    BY <2>2, <2>3, RWMutexAssumption DEF TypeOK, MutReadHeld, FirstAlone, Counted
  <2>6. Exclusion' /\ MutWriteHeld'
    BY <2>2 DEF Exclusion, MutWriteHeld
  <2>7. QED
    BY <2>1, <2>4, <2>5, <2>6
<1>2. CASE FirstTakesWrite(g)
  <2> USE <1>2 DEF RWIInv, FirstTakesWrite, Goto
  <2>1. TypeOK'
    BY DEF TypeOK, PCs
  <2>2. /\ Counted' = Counted
        /\ Readers' = Readers \cup {g} /\ Writers' = Writers
    BY DEF TypeOK, Counted, Readers, Writers
  <2>3. CountExact'
    BY <2>2 DEF CountExact, Counted
  <2>4. MutReadHeld' /\ FirstAlone'
    BY <2>2, RWMutexAssumption DEF TypeOK, MutReadHeld, FirstAlone
  <2>5. Exclusion' /\ MutWriteHeld'
    BY <2>2 DEF Exclusion, MutWriteHeld
  <2>6. QED
    BY <2>1, <2>3, <2>4, <2>5
<1>3. CASE RLockNext(g)
  <2> USE <1>3 DEF RWIInv, RLockNext, Goto
  <2>1. TypeOK'
    BY DEF TypeOK, PCs
  <2>2. /\ g \notin Counted /\ Counted' = Counted \cup {g}
        /\ Readers' = Readers \cup {g} /\ Writers' = Writers
    BY DEF TypeOK, Counted, Readers, Writers
  <2>3. CountExact'
    BY <2>2, CountEnter
  <2>4. \A h \in Goroutines : pc[h] # "firstReader" /\ pc'[h] # "firstReader"
    BY RWMutexAssumption DEF TypeOK, MutReadHeld
  <2>5. Readers # {}
    BY <2>4, CountedFinite DEF CountExact, Counted, Readers
  <2>6. MutReadHeld' /\ FirstAlone'
    BY <2>4, RWMutexAssumption DEF MutReadHeld, FirstAlone
  <2>7. Exclusion' /\ MutWriteHeld'
    BY <2>2, <2>5 DEF Exclusion, MutWriteHeld
  <2>8. QED
    BY <2>1, <2>3, <2>6, <2>7
<1>4. QED
  BY <1>1, <1>2, <1>3 DEF RLock

\* A reader that leaves is no longer counted, the last one frees mutWrite.
LEMMA RUnlockStep ==
  ASSUME RWIInv, NEW g \in Goroutines, RUnlock(g)
  PROVE  RWIInv'
<1> USE DEF RWIInv, RUnlock, Goto
<1>1. /\ g \in Counted /\ Counted' = Counted \ {g}
      /\ g \in Readers /\ Readers' = Readers \ {g} /\ Writers' = Writers
  BY DEF TypeOK, Counted, Readers, Writers
<1>2. CountExact' /\ cnt' \in Nat /\ (cnt = 1 <=> Counted = {g})
  BY <1>1, CountLeave
<1>3. \A h \in Goroutines : pc[h] # "firstReader" /\ pc'[h] # "firstReader"
  BY RWMutexAssumption DEF TypeOK, MutReadHeld
<1>4. Counted = Readers
  BY <1>3 DEF Counted, Readers
<1>5. Writers = {}
  BY <1>1 DEF Exclusion
<1>6. TypeOK'
  BY <1>2 DEF TypeOK, PCs
<1>7. MutReadHeld' /\ FirstAlone'
  BY <1>3, RWMutexAssumption DEF MutReadHeld, FirstAlone
<1>8. Exclusion' /\ MutWriteHeld'
  BY <1>1, <1>2, <1>4, <1>5 DEF Exclusion, MutWriteHeld
<1>9. QED
  BY <1>2, <1>6, <1>7, <1>8

\* Writers do nothing but fill mutWrite and empty it.
LEMMA RWWriterStep ==
  ASSUME RWIInv, NEW g \in Goroutines, Lock(g) \/ Unlock(g)
  PROVE  RWIInv'
<1> USE DEF RWIInv, Lock, Unlock, Goto
<1>1. TypeOK'
  BY DEF TypeOK, PCs
<1>2. Counted' = Counted /\ Readers' = Readers
  BY DEF TypeOK, Counted, Readers
<1>3. CountExact'
  BY <1>2 DEF CountExact, Counted
<1>4. MutReadHeld' /\ FirstAlone'
  BY <1>2 DEF TypeOK, MutReadHeld, FirstAlone
<1>5. CASE Lock(g)
  <2>1. Writers' = Writers \cup {g}
    BY <1>5 DEF TypeOK, Writers
  <2>2. QED
    BY <1>1, <1>2, <1>3, <1>4, <1>5, <2>1 DEF Exclusion, MutWriteHeld
<1>6. CASE Unlock(g)
  <2>1. g \in Writers /\ Writers' = Writers \ {g}
    BY <1>6 DEF TypeOK, Writers
  <2>2. QED
    BY <1>1, <1>2, <1>3, <1>4, <1>6, <2>1 DEF Exclusion, MutWriteHeld
<1>7. QED
  BY <1>5, <1>6

\* Every step keeps the invariant.
THEOREM RWNextIInv == RWIInv /\ [Next]_vars => RWIInv'
<1> SUFFICES ASSUME RWIInv, [Next]_vars PROVE RWIInv'
  OBVIOUS
<1>1. ASSUME NEW g \in Goroutines, RLock(g) PROVE RWIInv'
  BY <1>1, RLockStep
<1>2. ASSUME NEW g \in Goroutines, RUnlock(g) PROVE RWIInv'
  BY <1>2, RUnlockStep
<1>3. ASSUME NEW g \in Goroutines, Lock(g) \/ Unlock(g) PROVE RWIInv'
  BY <1>3, RWWriterStep
<1>4. ASSUME NEW g \in Goroutines, CallRLock(g) \/ CallRUnlock(g) \/ CallLock(g) PROVE RWIInv'
  BY <1>4, SameRoleStep
<1>5. CASE UNCHANGED vars
  BY <1>5 DEF vars, RWIInv, TypeOK, CountExact, Exclusion, MutReadHeld, MutWriteHeld, FirstAlone,
     Counted, Readers, Writers
<1>6. QED
  BY <1>1, <1>2, <1>3, <1>4, <1>5 DEF Next

\* The invariant holds of every reachable state.
THEOREM RWInvariance == Spec => []RWIInv
  BY RWInitIInv, RWNextIInv, PTL DEF Spec

---------------------------------------------------------------------------
\* While somebody writes nobody else writes or reads (rwmutex.go:6).
THEOREM ReadersWriters == Spec => []Exclusion
<1>1. RWIInv => Exclusion
  BY DEF RWIInv
<1>2. QED
  BY <1>1, RWInvariance, PTL

\* The last reader out finds mutWrite taken (rwmutex.go:65-67).
THEOREM LastReader == Spec => []LastReaderCanLeave
<1>1. RWIInv => LastReaderCanLeave
  BY DEF RWIInv, MutWriteHeld, LastReaderCanLeave
<1>2. QED
  BY <1>1, RWInvariance, PTL

\* Nobody is let in beside a writer and nobody is stuck on the way out, as the
\* run checks it (rwmutex.go:49-81).
THEOREM LockSafe == Spec => []RWInv
<1>1. RWIInv => RWInv
  BY DEF RWIInv, MutWriteHeld, LastReaderCanLeave, RWInv
<1>2. QED
  BY <1>1, RWInvariance, PTL

---------------------------------------------------------------------------
(* waitgroup, with positive deltas only.  With a negative one              *)
(* NobodyStrandedAtZero is false.                                          *)

OnlyPositive == Deltas \subseteq Nat \ {0}

\* NobodyStrandedAtZero is inductive next to the types: the counter comes to
\* zero only in Done, at one, which releases everybody.
WgIInv == WgTypeOK /\ NobodyStrandedAtZero

---------------------------------------------------------------------------
\* The group starts at zero with nobody in Wait.
LEMMA WgInitIInv == WgInit => WgIInv
<1> SUFFICES ASSUME WgInit PROVE WgIInv
  OBVIOUS
<1>1. 0 \in (-MaxCnt)..MaxCnt
  BY WaitGroupAssumption
<1>2. WgTypeOK
  BY <1>1, Zenon DEF WgInit, WgTypeOK
<1>3. NobodyStrandedAtZero
  BY DEF WgInit, NobodyStrandedAtZero
<1> QED
  BY <1>2, <1>3 DEF WgIInv

\* A positive Add leaves the counter above zero with a waitBlocker that is open.
LEMMA AddKeeps ==
  ASSUME WgIInv, OnlyPositive, NEW g \in WgUsers, NEW d \in Deltas,
         wgCnt + d <= MaxCnt, Add(g, d)
  PROVE  WgIInv'
<1>1. wgCnt \in Nat /\ d \in Nat \ {0} /\ wgCnt' = wgCnt + d /\ wgCnt' \in 1..MaxCnt
  BY WaitGroupAssumption DEF OnlyPositive, Add, WgRunning, WgIInv, WgTypeOK
<1>2. ~(wgCnt + d < 0) /\ wgCnt' \in (-MaxCnt)..MaxCnt
  BY <1>1, WaitGroupAssumption
<1>3. waitClosed' = FALSE /\ ownChan' = ownChan
  BY <1>2, Zenon DEF Add
<1>4. WgTypeOK'
  BY <1>2, <1>3, Zenon DEF WgIInv, WgTypeOK
<1>5. NobodyStrandedAtZero'
  BY <1>1 DEF NobodyStrandedAtZero
<1> QED
  BY <1>4, <1>5 DEF WgIInv

\* The Done that reaches zero closes every channel that is open.
LEMMA DoneKeeps ==
  ASSUME WgIInv, NEW g \in WgUsers, Done(g)
  PROVE  WgIInv'
<1>1. wgCnt \in 0..MaxCnt /\ wgCnt' = wgCnt - 1 /\ wgCnt' \in (-MaxCnt)..MaxCnt
  BY WaitGroupAssumption DEF Done, WgRunning, WgIInv, WgTypeOK
<1>2. CASE wgCnt = 1
  <2>1. /\ waitClosed' = TRUE
        /\ ownChan' = [h \in WgUsers |-> IF ownChan[h] = "open" THEN "closed" ELSE ownChan[h]]
    BY <1>2 DEF Done
  <2>2. WgTypeOK'
    BY <1>1, <1>2, <2>1, WaitGroupAssumption DEF WgIInv, WgTypeOK
  <2>3. NobodyStrandedAtZero'
    BY <2>1 DEF NobodyStrandedAtZero
  <2> QED
    BY <2>2, <2>3 DEF WgIInv
<1>3. CASE wgCnt # 1
  <2>1. UNCHANGED <<waitClosed, ownChan>>
    BY <1>3 DEF Done
  <2>2. wgCnt' # 0
    BY <1>1, <1>3, WaitGroupAssumption
  <2>3. WgTypeOK'
    BY <1>1, <2>1, WaitGroupAssumption DEF WgIInv, WgTypeOK
  <2> QED
    BY <2>2, <2>3 DEF WgIInv, NobodyStrandedAtZero
<1> QED
  BY <1>2, <1>3

\* Wait blocks only while the counter is not at zero.
LEMMA WaitKeeps ==
  ASSUME WgIInv, NEW g \in WgUsers, Wait(g) \/ WaitReturns(g)
  PROVE  WgIInv'
<1>1. wgCnt' = wgCnt /\ waitClosed' = waitClosed
  BY DEF Wait, WaitReturns
<1>2. WgTypeOK'
  BY <1>1 DEF Wait, WaitReturns, WgIInv, WgTypeOK
<1>3. NobodyStrandedAtZero'
  BY <1>1 DEF Wait, WaitReturns, WgIInv, WgTypeOK, NobodyStrandedAtZero
<1> QED
  BY <1>2, <1>3 DEF WgIInv

\* Every step of a group with positive deltas keeps the invariant.
LEMMA WgNextIInv == OnlyPositive /\ WgIInv /\ [WgNext]_wgVars => WgIInv'
<1> SUFFICES ASSUME OnlyPositive, WgIInv, [WgNext]_wgVars PROVE WgIInv'
  OBVIOUS
<1>1. CASE WgNext
  <2>1. PICK g \in WgUsers : \/ \E d \in Deltas : wgCnt + d <= MaxCnt /\ Add(g, d)
                             \/ Done(g) \/ Wait(g) \/ WaitReturns(g)
    BY <1>1 DEF WgNext
  <2> QED
    BY <2>1, AddKeeps, DoneKeeps, WaitKeeps
<1>2. CASE UNCHANGED wgVars
  BY <1>2 DEF wgVars, WgIInv, WgTypeOK, NobodyStrandedAtZero
<1> QED
  BY <1>1, <1>2

\* Nobody's channel is closed but by the Done that reaches zero: a Wait that
\* blocks never finds waitBlocker closed, because the types say that it is
\* closed only at zero or below.
LEMMA StepReleases ==
  OnlyPositive /\ WgIInv /\ [WgNext]_wgVars =>
    [\A g \in WgUsers : ownChan[g] # "closed" /\ ownChan'[g] = "closed" => wgCnt' = 0]_wgVars
<1> SUFFICES ASSUME OnlyPositive, WgIInv, WgNext,
                    NEW h \in WgUsers, ownChan[h] # "closed", ownChan'[h] = "closed"
             PROVE  wgCnt' = 0
  OBVIOUS
<1>1. PICK g \in WgUsers : \/ \E d \in Deltas : wgCnt + d <= MaxCnt /\ Add(g, d)
                           \/ Done(g) \/ Wait(g) \/ WaitReturns(g)
  BY DEF WgNext
<1>2. CASE \E d \in Deltas : Add(g, d)
  BY <1>2 DEF Add
<1>3. CASE Done(g)
  BY <1>3 DEF Done
<1>4. CASE Wait(g)
  <2>1. ~waitClosed
    BY <1>4, WaitGroupAssumption DEF Wait, WgRunning, WgIInv, WgTypeOK
  <2> QED
    BY <1>4, <2>1 DEF Wait, WgIInv, WgTypeOK
<1>5. CASE WaitReturns(g)
  BY <1>5 DEF WaitReturns, WgIInv, WgTypeOK
<1> QED
  BY <1>1, <1>2, <1>3, <1>4, <1>5

---------------------------------------------------------------------------
\* The invariant holds of every reachable state of a group that is only ever
\* given positive deltas.
THEOREM WgInvariance == OnlyPositive => (WgSpec => []WgIInv)
<1> SUFFICES ASSUME OnlyPositive PROVE WgSpec => []WgIInv
  OBVIOUS
<1>1. WgIInv /\ [WgNext]_wgVars => WgIInv'
  BY WgNextIInv
<1> QED
  BY WgInitIInv, <1>1, PTL DEF WgSpec

\* The counter and the channel keep their types: no channel is closed twice.
THEOREM WgTypeCorrect == OnlyPositive => (WgSpec => []WgTypeOK)
<1>1. WgIInv => WgTypeOK
  BY DEF WgIInv
<1> QED
  BY WgInvariance, <1>1, PTL

\* At zero nobody is blocked in Wait, whatever the group was used for before
\* (waitgroup.go:23).
THEOREM NobodyStranded == OnlyPositive => (WgSpec => []NobodyStrandedAtZero)
<1>1. WgIInv => NobodyStrandedAtZero
  BY DEF WgIInv
<1> QED
  BY WgInvariance, <1>1, PTL

\* Nobody is released but by zero (waitgroup.go:78).
THEOREM Released == OnlyPositive => (WgSpec => ReleasedOnlyAtZero)
<1> SUFFICES ASSUME OnlyPositive PROVE WgSpec => ReleasedOnlyAtZero
  OBVIOUS
<1>1. WgSpec => []WgIInv
  BY WgInvariance
<1>2. WgIInv /\ [WgNext]_wgVars =>
        [\A g \in WgUsers : ownChan[g] # "closed" /\ ownChan'[g] = "closed" => wgCnt' = 0]_wgVars
  BY StepReleases
<1> QED
  BY <1>1, <1>2, PTL DEF WgSpec, ReleasedOnlyAtZero

---------------------------------------------------------------------------
(* once                                                                    *)

---------------------------------------------------------------------------
(* The inductive invariant: the two channels tell how far f has come.      *)

\* Before first is filled nobody is past it and locked is open.
NotBegun == ~first => /\ locked = 0
                      /\ \A g \in OnceUsers : oncePc[g] = "start"

\* Until locked is closed nobody is out of Do; once it is, nobody calls f.
LockedTells ==
  IF locked = 0 THEN \A g \in OnceUsers : oncePc[g] \in {"start", "calling", "waiting"}
                ELSE \A g \in OnceUsers : oncePc[g] # "calling"

OneCaller == \A g, h \in OnceUsers : oncePc[g] = "calling" /\ oncePc[h] = "calling" => g = h

OnceIInv == OnceTypeOK /\ NotBegun /\ LockedTells /\ OneCaller

---------------------------------------------------------------------------
\* At the start first is empty, locked open and nobody has called Do.
LEMMA OnceInitIInv == OnceInit => OnceIInv
<1> SUFFICES ASSUME OnceInit PROVE OnceIInv
  OBVIOUS
<1>0. 0 \in 0..1
  OBVIOUS
<1>1. OnceTypeOK
  BY <1>0, Zenon DEF OnceInit, OnceTypeOK
<1>2. NotBegun /\ LockedTells /\ OneCaller
  BY DEF OnceInit, NotBegun, LockedTells, OneCaller
<1> QED
  BY <1>1, <1>2 DEF OnceIInv

\* Each step keeps the invariant: first lets one goroutine through, and f of
\* that goroutine ends once.
LEMMA OnceNextIInv == OnceIInv /\ [OnceNext]_onceVars => OnceIInv'
<1> SUFFICES ASSUME OnceIInv, [OnceNext]_onceVars PROVE OnceIInv'
  OBVIOUS
<1> USE DEF OnceIInv, OnceTypeOK, NotBegun, LockedTells, OneCaller, OnceGoto
<1>1. ASSUME NEW g \in OnceUsers, CallF(g) PROVE OnceIInv'
  BY <1>1 DEF CallF
<1>2. ASSUME NEW g \in OnceUsers, Follow(g) PROVE OnceIInv'
  BY <1>2 DEF Follow
<1>3. ASSUME NEW g \in OnceUsers, FReturns(g) \/ FPanics(g) PROVE OnceIInv'
  <2>1. locked = 0 /\ locked' = 1 /\ first /\ first' = first
    BY <1>3 DEF FReturns, FPanics
  <2>2. \A h \in OnceUsers \ {g} : oncePc'[h] = oncePc[h] /\ oncePc[h] # "calling"
    BY <1>3 DEF FReturns, FPanics
  <2>3. oncePc'[g] \in {"returned", "panicked"} /\ oncePc' \in [OnceUsers -> {"start", "calling", "waiting", "returned", "panicked"}]
    BY <1>3 DEF FReturns, FPanics
  <2> QED
    BY <2>1, <2>2, <2>3
<1>4. ASSUME NEW g \in OnceUsers, OnceReturns(g) PROVE OnceIInv'
  BY <1>4 DEF OnceReturns
<1>5. CASE UNCHANGED onceVars
  BY <1>5 DEF onceVars
<1> QED
  BY <1>1, <1>2, <1>3, <1>4, <1>5 DEF OnceNext

\* A step that ends with g in f began with first empty, so before f was over.
LEMMA StepCalls ==
  OnceIInv /\ [OnceNext]_onceVars =>
    [\A g \in OnceUsers : locked > 0 /\ oncePc[g] # "calling" => oncePc'[g] # "calling"]_onceVars
<1> SUFFICES ASSUME OnceIInv, OnceNext, NEW h \in OnceUsers, locked > 0, oncePc[h] # "calling"
             PROVE  oncePc'[h] # "calling"
  OBVIOUS
<1>1. first
  BY DEF OnceIInv, OnceTypeOK, NotBegun
<1>2. PICK g \in OnceUsers : CallF(g) \/ Follow(g) \/ FReturns(g) \/ FPanics(g) \/ OnceReturns(g)
  BY DEF OnceNext
<1> QED
  BY <1>1, <1>2 DEF OnceIInv, OnceTypeOK, CallF, Follow, FReturns, FPanics, OnceReturns, OnceGoto

---------------------------------------------------------------------------
\* The invariant holds of every reachable state.
THEOREM OnceInvariance == OnceSpec => []OnceIInv
  BY OnceInitIInv, OnceNextIInv, PTL DEF OnceSpec

\* The channels keep their types: locked is closed at most once.
THEOREM OnceTypeCorrect == OnceSpec => []OnceTypeOK
<1>1. OnceIInv => OnceTypeOK
  BY DEF OnceIInv
<1> QED
  BY OnceInvariance, <1>1, PTL

\* As long as f runs, locked is open and the others wait for it.
LEMMA OnceIsKept == OnceIInv => NoReturnDuringF
BY DEF OnceIInv, OnceTypeOK, LockedTells, OneCaller, NoReturnDuringF

\* While f runs every other Do is inside (once.go:28-32).
THEOREM NobodyLeaves == OnceSpec => []NoReturnDuringF
  BY OnceInvariance, OnceIsKept, PTL

\* f is called once (once.go:21).
THEOREM Called == OnceSpec => CalledOnce
  BY OnceInvariance, StepCalls, PTL DEF OnceSpec, CalledOnce

---------------------------------------------------------------------------
(* chat                                                                    *)

\* Who is in the map, who is still to be served, and whose channel is closed.
ChatIInv ==
  /\ conn \in [Conns -> {"accepted", "arrived", "entering", "scan", "said", "leaving", "left", "closed"}]
  /\ chClients = {c \in Conns : conn[c] \in {"scan", "said", "leaving"}}
  /\ toDeliver \subseteq chClients
  /\ \A c \in chClosed : c \in Conns /\ conn[c] \in {"left", "closed"}

\* The broadcaster takes nothing in hand before the last message is with
\* everybody, so whoever leaves is not waited for.
LEMMA ChatStep == ChatIInv /\ [ChatNext]_chatVars => ChatIInv'
<1> SUFFICES ASSUME ChatIInv, [ChatNext]_chatVars PROVE ChatIInv'
  OBVIOUS
<1> USE DEF ChatIInv
<1>1. ASSUME NEW c \in Conns, ConnStep(c) PROVE ChatIInv'
  <2>1. /\ \A d \in Conns \ {c} : conn'[d] = conn[d]
        /\ conn' \in [Conns -> {"accepted", "arrived", "entering", "scan", "said", "leaving", "left", "closed"}]
    BY <1>1 DEF ConnStep, TellWho, TakeMessage, Enter, Leave, ConnAt
  <2>2. CASE TellWho(c)
    BY <2>1, <2>2 DEF TellWho, ConnAt
  <2>3. CASE TakeMessage(c)
    BY <2>1, <2>3 DEF TakeMessage, ConnAt
  <2>4. CASE Enter(c)
    BY <2>1, <2>4 DEF Enter, ConnAt
  <2>5. CASE Leave(c)
    BY <2>1, <2>5 DEF Leave, ConnAt
  <2> QED
    BY <1>1, <2>2, <2>3, <2>4, <2>5 DEF ConnStep
<1>2. ASSUME NEW c \in Conns, TypeLine(c) \/ HangUp(c) PROVE ChatIInv'
  <2>1. /\ \A d \in Conns \ {c} : conn'[d] = conn[d]
        /\ conn' \in [Conns -> {"accepted", "arrived", "entering", "scan", "said", "leaving", "left", "closed"}]
        /\ conn[c] = "scan" /\ conn'[c] \in {"said", "leaving"} /\ UNCHANGED <<chClients, toDeliver, chClosed>>
    BY <1>2 DEF TypeLine, HangUp, ConnAt
  <2> QED
    BY <2>1
<1>3. ASSUME NEW c \in Conns, WriterStep(c) PROVE ChatIInv'
  BY <1>3 DEF WriterStep, Deliver1, Written, WriterOver
<1>4. CASE UNCHANGED chatVars
  BY <1>4 DEF chatVars
<1> QED
  BY <1>1, <1>2, <1>3, <1>4 DEF ChatNext

\* Nobody has come yet.
LEMMA ChatInitIInv == ChatInit => ChatIInv
BY DEF ChatInit, ChatIInv

\* The broadcaster serves who is in the map, and those have their channel open.
LEMMA ChatServesTheMap == ChatIInv => NoSendToTheGone
BY DEF ChatIInv, NoSendToTheGone

\* Nobody is sent a message on a closed channel, for any number of clients and
\* lines (chat.go:31-38, 51-61).
THEOREM ChatNeverSendsToTheGone == ChatInit /\ [][ChatNext]_chatVars => []NoSendToTheGone
  BY ChatInitIInv, ChatServesTheMap, ChatStep, PTL

---------------------------------------------------------------------------
(* memo1 to memo4, synconce and bincache                                   *)

MemoTypes ==
  /\ memo \in {"memo1", "memo2", "memo3", "memo4", "synconce", "bincache"}
  /\ entry \in [MemoKeys -> Int] /\ fCalls \in [MemoKeys -> Nat]
  /\ getter \in [Getters -> [at : {"start", "locked", "calling", "store", "wait", "returned"},
                             key : MemoKeys, value : Int]]
  /\ memoMu \in SUBSET Getters

\* The mutex has one owner, who is in a section, or in f if the cache is memo2.
MutexOwned ==
  /\ \A g, h \in memoMu : g = h
  /\ \A g \in Getters : /\ getter[g].at = "locked" => g \in memoMu
                        /\ getter[g].at = "calling" /\ memo = "memo2" => g \in memoMu

\* What is in the map was computed, and only some caches put entries there
\* that are not ready.
EntriesComputed ==
  \A k \in MemoKeys : /\ entry[k] \in -1..fCalls[k]
                      /\ entry[k] = -1 => memo \in {"memo4", "synconce"}

\* What a Get is about to do agrees with the cache that it is a Get of.
GettersAgree ==
  \A g \in Getters :
    /\ getter[g].at \in {"store", "returned"} => getter[g].value \in 1..fCalls[getter[g].key]
    /\ getter[g].at = "store" => memo \in {"memo3", "bincache"}
    /\ getter[g].at = "wait" => memo \in {"memo4", "synconce"} /\ entry[getter[g].key] # 0
    /\ getter[g].at = "calling" => memo # "memo1"

\* Where f is called once: not before the entry is claimed, and by who claims it.
OneClaims ==
  memo \notin {"memo3", "bincache"} =>
    /\ \A k \in MemoKeys : fCalls[k] <= 1 /\ (entry[k] <= 0 => fCalls[k] = 0)
    /\ \A g \in Getters : getter[g].at = "calling" =>
         /\ entry[getter[g].key] = (IF memo = "memo2" THEN 0 ELSE -1)
         /\ \A h \in Getters : getter[h].at = "calling" /\ getter[h].key = getter[g].key => h = g

MemoIInv == MemoTypes /\ MutexOwned /\ EntriesComputed /\ GettersAgree /\ OneClaims

\* Each step of a Get keeps the invariant.
LEMMA MemoStep == MemoIInv /\ [MemoNext]_memoVars => MemoIInv'
<1> SUFFICES ASSUME MemoIInv, [MemoNext]_memoVars PROVE MemoIInv'
  OBVIOUS
<1> DEFINE Labels == {"start", "locked", "calling", "store", "wait", "returned"}
<1>1. ASSUME NEW g \in Getters, NEW k \in MemoKeys, getter[g].key = k, GetAlone(g, k) PROVE MemoIInv'
  <2>1. /\ getter' \in [Getters -> [at : Labels, key : MemoKeys, value : Int]]
        /\ getter'[g].key = k /\ \A h \in Getters \ {g} : getter'[h] = getter[h]
    BY <1>1 DEF GetAlone, At, Returns, Value, MemoIInv, MemoTypes
  <2>2. MemoTypes'
    BY <1>1, <2>1 DEF GetAlone, MemoIInv, MemoTypes, Value
  <2>3. MutexOwned'
    BY <1>1, <2>1 DEF GetAlone, At, Returns, MemoIInv, MemoTypes, MutexOwned, GettersAgree
  <2>4. EntriesComputed'
    BY <1>1 DEF GetAlone, Value, MemoIInv, MemoTypes, EntriesComputed, GettersAgree
  <2>5. GettersAgree'
    BY <1>1, <2>1 DEF GetAlone, At, Returns, Value, MemoIInv, MemoTypes, EntriesComputed, GettersAgree
  <2>6. OneClaims'
    BY <1>1, <2>1, SMTT(30) DEF GetAlone, At, Returns, Value, MemoIInv, MemoTypes, MutexOwned, EntriesComputed, GettersAgree, OneClaims
  <2> QED
    BY <2>2, <2>3, <2>4, <2>5, <2>6 DEF MemoIInv
<1>2. ASSUME NEW g \in Getters, NEW k \in MemoKeys, getter[g].key = k, LockMemo(g) PROVE MemoIInv'
  <2>1. /\ getter' \in [Getters -> [at : Labels, key : MemoKeys, value : Int]]
        /\ getter'[g].key = k /\ \A h \in Getters \ {g} : getter'[h] = getter[h]
    BY <1>2 DEF LockMemo, At, Returns, Value, MemoIInv, MemoTypes
  <2>2. MemoTypes'
    BY <1>2, <2>1 DEF LockMemo, MemoIInv, MemoTypes, Value
  <2>3. MutexOwned'
    BY <1>2, <2>1 DEF LockMemo, At, Returns, MemoIInv, MemoTypes, MutexOwned, GettersAgree
  <2>4. EntriesComputed'
    BY <1>2 DEF LockMemo, Value, MemoIInv, MemoTypes, EntriesComputed, GettersAgree
  <2>5. GettersAgree'
    BY <1>2, <2>1 DEF LockMemo, At, Returns, Value, MemoIInv, MemoTypes, EntriesComputed, GettersAgree
  <2>6. OneClaims'
    BY <1>2, <2>1 DEF LockMemo, At, Returns, Value, MemoIInv, MemoTypes, MutexOwned, EntriesComputed, GettersAgree, OneClaims
  <2> QED
    BY <2>2, <2>3, <2>4, <2>5, <2>6 DEF MemoIInv
<1>3. ASSUME NEW g \in Getters, NEW k \in MemoKeys, getter[g].key = k, LookupUnderMutex(g, k) PROVE MemoIInv'
  <2>1. /\ getter' \in [Getters -> [at : Labels, key : MemoKeys, value : Int]]
        /\ getter'[g].key = k /\ \A h \in Getters \ {g} : getter'[h] = getter[h]
    BY <1>3 DEF LookupUnderMutex, At, Returns, Value, MemoIInv, MemoTypes
  <2>2. MemoTypes'
    BY <1>3, <2>1 DEF LookupUnderMutex, MemoIInv, MemoTypes, Value
  <2>3. MutexOwned'
    BY <1>3, <2>1 DEF LookupUnderMutex, At, Returns, MemoIInv, MemoTypes, MutexOwned, GettersAgree
  <2>4. EntriesComputed'
    BY <1>3 DEF LookupUnderMutex, Value, MemoIInv, MemoTypes, EntriesComputed, GettersAgree
  <2>5. GettersAgree'
    BY <1>3, <2>1, SMTT(30) DEF LookupUnderMutex, At, Returns, Value, MemoIInv, MemoTypes, EntriesComputed, GettersAgree
  <2>6. OneClaims'
    BY <1>3, <2>1 DEF LookupUnderMutex, At, Returns, Value, MemoIInv, MemoTypes, MutexOwned, EntriesComputed, GettersAgree, OneClaims
  <2> QED
    BY <2>2, <2>3, <2>4, <2>5, <2>6 DEF MemoIInv
<1>4. ASSUME NEW g \in Getters, NEW k \in MemoKeys, getter[g].key = k, LookupAndUnlock(g, k) PROVE MemoIInv'
  <2>1. /\ getter' \in [Getters -> [at : Labels, key : MemoKeys, value : Int]]
        /\ getter'[g].key = k /\ \A h \in Getters \ {g} : getter'[h] = getter[h]
    BY <1>4 DEF LookupAndUnlock, At, Returns, Value, MemoIInv, MemoTypes
  <2>2. MemoTypes'
    BY <1>4, <2>1 DEF LookupAndUnlock, MemoIInv, MemoTypes, Value
  <2>3. MutexOwned'
    BY <1>4, <2>1 DEF LookupAndUnlock, At, Returns, MemoIInv, MemoTypes, MutexOwned, GettersAgree
  <2>4. EntriesComputed'
    BY <1>4 DEF LookupAndUnlock, Value, MemoIInv, MemoTypes, EntriesComputed, GettersAgree
  <2>5. GettersAgree'
    BY <1>4, <2>1 DEF LookupAndUnlock, At, Returns, Value, MemoIInv, MemoTypes, EntriesComputed, GettersAgree
  <2>6. OneClaims'
    BY <1>4, <2>1 DEF LookupAndUnlock, At, Returns, Value, MemoIInv, MemoTypes, MutexOwned, EntriesComputed, GettersAgree, OneClaims
  <2> QED
    BY <2>2, <2>3, <2>4, <2>5, <2>6 DEF MemoIInv
<1>5. ASSUME NEW g \in Getters, NEW k \in MemoKeys, getter[g].key = k, EnterOrWait(g, k) PROVE MemoIInv'
  <2>1. /\ getter' \in [Getters -> [at : Labels, key : MemoKeys, value : Int]]
        /\ getter'[g].key = k /\ \A h \in Getters \ {g} : getter'[h] = getter[h]
    BY <1>5 DEF EnterOrWait, At, Returns, Value, MemoIInv, MemoTypes
  <2>2. MemoTypes'
    BY <1>5, <2>1 DEF EnterOrWait, MemoIInv, MemoTypes, Value
  <2>3. MutexOwned'
    BY <1>5, <2>1 DEF EnterOrWait, At, Returns, MemoIInv, MemoTypes, MutexOwned, GettersAgree
  <2>4. EntriesComputed'
    BY <1>5 DEF EnterOrWait, Value, MemoIInv, MemoTypes, EntriesComputed, GettersAgree
  <2>5. GettersAgree'
    BY <1>5, <2>1 DEF EnterOrWait, At, Returns, Value, MemoIInv, MemoTypes, EntriesComputed, GettersAgree
  <2>6. OneClaims'
    BY <1>5, <2>1 DEF EnterOrWait, At, Returns, Value, MemoIInv, MemoTypes, MutexOwned, EntriesComputed, GettersAgree, OneClaims
  <2> QED
    BY <2>2, <2>3, <2>4, <2>5, <2>6 DEF MemoIInv
<1>6. ASSUME NEW g \in Getters, NEW k \in MemoKeys, getter[g].key = k, LoadOrStore(g, k) PROVE MemoIInv'
  <2>1. /\ getter' \in [Getters -> [at : Labels, key : MemoKeys, value : Int]]
        /\ getter'[g].key = k /\ \A h \in Getters \ {g} : getter'[h] = getter[h]
    BY <1>6 DEF LoadOrStore, At, Returns, Value, MemoIInv, MemoTypes
  <2>2. MemoTypes'
    BY <1>6, <2>1 DEF LoadOrStore, MemoIInv, MemoTypes, Value
  <2>3. MutexOwned'
    BY <1>6, <2>1 DEF LoadOrStore, At, Returns, MemoIInv, MemoTypes, MutexOwned, GettersAgree
  <2>4. EntriesComputed'
    BY <1>6 DEF LoadOrStore, Value, MemoIInv, MemoTypes, EntriesComputed, GettersAgree
  <2>5. GettersAgree'
    BY <1>6, <2>1 DEF LoadOrStore, At, Returns, Value, MemoIInv, MemoTypes, EntriesComputed, GettersAgree
  <2>6. OneClaims'
    BY <1>6, <2>1, SMTT(30) DEF LoadOrStore, At, Returns, Value, MemoIInv, MemoTypes, MutexOwned, EntriesComputed, GettersAgree, OneClaims
  <2> QED
    BY <2>2, <2>3, <2>4, <2>5, <2>6 DEF MemoIInv
<1>7. ASSUME NEW g \in Getters, NEW k \in MemoKeys, getter[g].key = k, WaitReady(g, k) PROVE MemoIInv'
  <2>1. /\ getter' \in [Getters -> [at : Labels, key : MemoKeys, value : Int]]
        /\ getter'[g].key = k /\ \A h \in Getters \ {g} : getter'[h] = getter[h]
    BY <1>7 DEF WaitReady, At, Returns, Value, MemoIInv, MemoTypes
  <2>2. MemoTypes'
    BY <1>7, <2>1 DEF WaitReady, MemoIInv, MemoTypes, Value
  <2>3. MutexOwned'
    BY <1>7, <2>1 DEF WaitReady, At, Returns, MemoIInv, MemoTypes, MutexOwned, GettersAgree
  <2>4. EntriesComputed'
    BY <1>7 DEF WaitReady, Value, MemoIInv, MemoTypes, EntriesComputed, GettersAgree
  <2>5. GettersAgree'
    BY <1>7, <2>1, SMTT(30) DEF WaitReady, At, Returns, Value, MemoIInv, MemoTypes, EntriesComputed, GettersAgree
  <2>6. OneClaims'
    BY <1>7, <2>1 DEF WaitReady, At, Returns, Value, MemoIInv, MemoTypes, MutexOwned, EntriesComputed, GettersAgree, OneClaims
  <2> QED
    BY <2>2, <2>3, <2>4, <2>5, <2>6 DEF MemoIInv
<1>8. ASSUME NEW g \in Getters, NEW k \in MemoKeys, getter[g].key = k, LoadBinary(g, k) PROVE MemoIInv'
  <2>1. /\ getter' \in [Getters -> [at : Labels, key : MemoKeys, value : Int]]
        /\ getter'[g].key = k /\ \A h \in Getters \ {g} : getter'[h] = getter[h]
    BY <1>8 DEF LoadBinary, At, Returns, Value, MemoIInv, MemoTypes
  <2>2. MemoTypes'
    BY <1>8, <2>1 DEF LoadBinary, MemoIInv, MemoTypes, Value
  <2>3. MutexOwned'
    BY <1>8, <2>1 DEF LoadBinary, At, Returns, MemoIInv, MemoTypes, MutexOwned, GettersAgree
  <2>4. EntriesComputed'
    BY <1>8 DEF LoadBinary, Value, MemoIInv, MemoTypes, EntriesComputed, GettersAgree
  <2>5. GettersAgree'
    BY <1>8, <2>1 DEF LoadBinary, At, Returns, Value, MemoIInv, MemoTypes, EntriesComputed, GettersAgree
  <2>6. OneClaims'
    BY <1>8, <2>1 DEF LoadBinary, At, Returns, Value, MemoIInv, MemoTypes, MutexOwned, EntriesComputed, GettersAgree, OneClaims
  <2> QED
    BY <2>2, <2>3, <2>4, <2>5, <2>6 DEF MemoIInv
<1>9. ASSUME NEW g \in Getters, NEW k \in MemoKeys, getter[g].key = k, CallMemoF(g, k) PROVE MemoIInv'
  <2>1. /\ getter' \in [Getters -> [at : Labels, key : MemoKeys, value : Int]]
        /\ getter'[g].key = k /\ \A h \in Getters \ {g} : getter'[h] = getter[h]
    BY <1>9 DEF CallMemoF, At, Returns, Value, MemoIInv, MemoTypes
  <2>2. MemoTypes'
    BY <1>9, <2>1 DEF CallMemoF, MemoIInv, MemoTypes, Value
  <2>3. MutexOwned'
    BY <1>9, <2>1 DEF CallMemoF, At, Returns, MemoIInv, MemoTypes, MutexOwned, GettersAgree
  <2>4. EntriesComputed'
    BY <1>9 DEF CallMemoF, Value, MemoIInv, MemoTypes, EntriesComputed, GettersAgree
  <2>5. GettersAgree'
    BY <1>9, <2>1 DEF CallMemoF, At, Returns, Value, MemoIInv, MemoTypes, EntriesComputed, GettersAgree
  <2>6. OneClaims'
    BY <1>9, <2>1 DEF CallMemoF, At, Returns, Value, MemoIInv, MemoTypes, MutexOwned, EntriesComputed, GettersAgree, OneClaims
  <2> QED
    BY <2>2, <2>3, <2>4, <2>5, <2>6 DEF MemoIInv
<1>10. ASSUME NEW g \in Getters, NEW k \in MemoKeys, getter[g].key = k, StoreResult(g, k) PROVE MemoIInv'
  <2>1. /\ getter' \in [Getters -> [at : Labels, key : MemoKeys, value : Int]]
        /\ getter'[g].key = k /\ \A h \in Getters \ {g} : getter'[h] = getter[h]
    BY <1>10 DEF StoreResult, At, Returns, Value, MemoIInv, MemoTypes
  <2>2. MemoTypes'
    BY <1>10, <2>1 DEF StoreResult, MemoIInv, MemoTypes, Value
  <2>3. MutexOwned'
    BY <1>10, <2>1 DEF StoreResult, At, Returns, MemoIInv, MemoTypes, MutexOwned, GettersAgree
  <2>4. EntriesComputed'
    BY <1>10 DEF StoreResult, Value, MemoIInv, MemoTypes, EntriesComputed, GettersAgree
  <2>5. GettersAgree'
    BY <1>10, <2>1 DEF StoreResult, At, Returns, Value, MemoIInv, MemoTypes, EntriesComputed, GettersAgree
  <2>6. OneClaims'
    BY <1>10, <2>1 DEF StoreResult, At, Returns, Value, MemoIInv, MemoTypes, MutexOwned, EntriesComputed, GettersAgree, OneClaims
  <2> QED
    BY <2>2, <2>3, <2>4, <2>5, <2>6 DEF MemoIInv
<1>11. CASE UNCHANGED memoVars
  BY <1>11 DEF memoVars, MemoIInv, MemoTypes, MutexOwned, EntriesComputed, GettersAgree, OneClaims
<1> QED
  BY <1>1, <1>2, <1>3, <1>4, <1>5, <1>6, <1>7, <1>8, <1>9, <1>10, <1>11 DEF MemoNext, GetStep

\* No Get has begun.
LEMMA MemoInitIInv == MemoInit => MemoIInv
<1> SUFFICES ASSUME MemoInit PROVE MemoIInv
  OBVIOUS
<1>1. \A g \in Getters : getter[g].at = "start"
  BY DEF MemoInit
<1>2. MemoTypes
  BY DEF MemoInit, MemoTypes
<1> QED
  BY <1>1, <1>2 DEF MemoInit, MemoIInv, MutexOwned, EntriesComputed, GettersAgree, OneClaims

\* The invariant says what Get returns and how often f was called.
LEMMA MemoIsRight == MemoIInv => ComputedOnce
BY DEF MemoIInv, GettersAgree, OneClaims, ComputedOnce

\* Every Get returns what f has computed for its key, and f is called once for
\* a key where the cache promises it, for any callers and keys
\* (memo3/memo.go:37-38, memo4/memo.go:42-56).
THEOREM MemoComputesOnce == MemoSpec => []ComputedOnce
  BY MemoInitIInv, MemoIsRight, MemoStep, PTL DEF MemoSpec

---------------------------------------------------------------------------
(* du1 to du4                                                              *)

DuTypes ==
  /\ du \in 1..4 /\ sizesOpen \in BOOLEAN /\ done \in BOOLEAN /\ duMain \in {"loop", "drain", "over"}
  /\ walk \in [Dirs -> {"none", "started", "waiting", "reading", "sending", "over"}]
  /\ todo \in [Dirs -> [dirs : SUBSET Dirs, files : Nat]]
  /\ nfiles \in Nat /\ listed \in Nat

\* Only a walker that sends has entries, and a directory is visited once: those
\* that are still to be visited have not been.
WalkOnce ==
  \A d \in Dirs :
    /\ walk[d] # "sending" => todo[d].files = 0 /\ todo[d].dirs = {}
    /\ todo[d].dirs \subseteq Subdirs[d] /\ \A e \in todo[d].dirs : walk[e] = "none"
    /\ walk[d] \in {"none", "started", "waiting", "reading"} => \A e \in Subdirs[d] : walk[e] = "none"

FilesToDo == [d \in Dirs |-> todo[d].files]

\* Until a key is pressed each file that was listed is counted or still to come.
AllCounted == ~done => /\ duMain # "drain"
                       /\ nfiles + SumFunctionOnSet(FilesToDo, Dirs) = listed

DuIInv == /\ DuTypes /\ WalkOnce /\ AllCounted
          /\ ~sizesOpen => \A d \in Dirs : walk[d] \in {"none", "over"}
          /\ duMain = "over" => ~sizesOpen

\* The sums that the invariant speaks of are numbers.
LEMMA FilesToDoSum ==
  ASSUME DuTypes
  PROVE  /\ FilesToDo \in [Dirs -> Int] /\ SumFunctionOnSet(FilesToDo, Dirs) \in Int
         /\ \A d \in Dirs : FilesToDo[d] = todo[d].files /\ todo[d].files \in Nat
<1>1. FilesToDo \in [Dirs -> Int] /\ \A d \in Dirs : FilesToDo[d] = todo[d].files /\ todo[d].files \in Nat
  BY DEF DuTypes, FilesToDo
<1>2. SumFunctionOnSet(FilesToDo, Dirs) \in Int
  BY <1>1, DuAssumption, SumInt
<1> QED
  BY <1>1, <1>2

\* A step that changes what d has still to do changes the sum by as much.
LEMMA FilesToDoChange ==
  ASSUME DuTypes, DuTypes', NEW d \in Dirs, \A e \in Dirs \ {d} : todo'[e].files = todo[e].files
  PROVE  SumFunctionOnSet(FilesToDo, Dirs)' =
           SumFunctionOnSet(FilesToDo, Dirs) + todo'[d].files - todo[d].files
<1>1. PICK f : f = FilesToDo
  OBVIOUS
<1>2. PICK g : g = FilesToDo'
  OBVIOUS
<1>3. /\ f \in [Dirs -> Int] /\ g \in [Dirs -> Int] /\ f[d] = todo[d].files /\ g[d] = todo'[d].files
      /\ \A x \in Dirs : x # d => f[x] = g[x]
  BY <1>1, <1>2 DEF DuTypes, FilesToDo
<1>4. SumFunctionOnSet(g, Dirs) = SumFunctionOnSet(f, Dirs) + g[d] - f[d]
  BY <1>3, DuAssumption, SumChange
<1>5. SumFunctionOnSet(FilesToDo, Dirs)' = SumFunctionOnSet(g, Dirs)
  BY <1>2
<1> QED
  BY <1>1, <1>3, <1>4, <1>5

\* A directory is read: what is found is listed and is still to do.
LEMMA DuFound ==
  ASSUME DuIInv, NEW d \in Dirs, ReadDir(d) \/ ReadAndRelease(d)
  PROVE  DuIInv'
<1>1. PICK found \in Listings(d) : todo' = [todo EXCEPT ![d] = found] /\ listed' = listed + found.files
  BY DEF ReadDir, ReadAndRelease, Found
<1>2. found \in [dirs : SUBSET Dirs, files : Nat] /\ found.dirs \subseteq Subdirs[d]
  BY <1>1, DuAssumption DEF Listings, AllEntries, NoEntries
<1>3. /\ walk[d] \in {"started", "reading"} /\ walk'[d] = "sending" /\ todo'[d] = found
      /\ \A e \in Dirs \ {d} : walk'[e] = walk[e] /\ todo'[e] = todo[e]
      /\ UNCHANGED <<du, sizesOpen, done, duMain, nfiles>>
  BY <1>1 DEF ReadDir, ReadAndRelease, WalkAt, DuIInv, DuTypes
<1>4. DuTypes'
  BY <1>1, <1>2, <1>3 DEF ReadDir, ReadAndRelease, WalkAt, DuIInv, DuTypes
<1>5. d \notin Subdirs[d]
  <2>1. d \in Subdirs[d] => walk[d] = "none"
    BY <1>3 DEF DuIInv, WalkOnce
  <2> QED
    BY <1>3, <2>1
<1>6. WalkOnce'
  <2>1. \A e \in Dirs : walk'[e] = "none" <=> walk[e] = "none"
    BY <1>3
  <2>2. \A e \in Subdirs[d] : walk'[e] = "none"
    BY <1>3, <2>1, DuAssumption DEF DuIInv, WalkOnce
  <2> QED
    BY <1>2, <1>3, <2>1, <2>2, DuAssumption DEF DuIInv, WalkOnce, DuTypes
<1>7. AllCounted'
  <2>1. todo[d].files = 0 /\ listed \in Nat /\ nfiles \in Nat /\ found.files \in Nat
    BY <1>2, <1>3 DEF DuIInv, DuTypes, WalkOnce
  <2>2. SumFunctionOnSet(FilesToDo, Dirs)' = SumFunctionOnSet(FilesToDo, Dirs) + found.files - 0
    BY <1>3, <1>4, <2>1, FilesToDoChange DEF DuIInv
  <2> QED
    BY <1>1, <1>3, <2>1, <2>2, FilesToDoSum DEF DuIInv, AllCounted
<1> QED
  BY <1>3, <1>4, <1>6, <1>7 DEF DuIInv

\* A file goes to main.
LEMMA DuSends ==
  ASSUME DuIInv, NEW d \in Dirs, SendSize(d)
  PROVE  DuIInv'
<1>1. /\ walk[d] = "sending" /\ todo[d].files > 0 /\ todo[d].files \in Nat /\ todo[d].dirs \subseteq Dirs
      /\ UNCHANGED <<du, walk, sizesOpen, done, duMain, listed>>
  BY DEF SendSize, DuIInv, DuTypes
<1>2. /\ todo'[d].files = todo[d].files - 1 /\ todo'[d].dirs = todo[d].dirs
      /\ \A e \in Dirs \ {d} : todo'[e] = todo[e]
      /\ todo' \in [Dirs -> [dirs : SUBSET Dirs, files : Nat]]
  BY <1>1 DEF SendSize, DuIInv, DuTypes
<1>3. DuTypes'
  BY <1>1, <1>2 DEF SendSize, DuIInv, DuTypes
<1>4. WalkOnce'
  BY <1>1, <1>2 DEF DuIInv, WalkOnce
<1>5. AllCounted'
  <2>1. SumFunctionOnSet(FilesToDo, Dirs)' = SumFunctionOnSet(FilesToDo, Dirs) + todo'[d].files - todo[d].files
    BY <1>2, <1>3, FilesToDoChange DEF DuIInv
  <2>2. ~done => duMain = "loop" /\ nfiles' = nfiles + 1
    BY <1>1 DEF SendSize, DuIInv, DuTypes, AllCounted
  <2>3. nfiles \in Nat /\ listed \in Nat
    BY DEF DuIInv, DuTypes
  <2> QED
    BY <1>1, <1>2, <2>1, <2>2, <2>3, FilesToDoSum DEF DuIInv, AllCounted
<1> QED
  BY <1>1, <1>3, <1>4, <1>5 DEF DuIInv

\* A subdirectory is visited for the first time: it is in no other directory.
LEMMA DuVisits ==
  ASSUME DuIInv, NEW d \in Dirs, NEW e \in Dirs, VisitDirIn(d, e)
  PROVE  DuIInv'
<1>1. /\ walk[d] = "sending" /\ e \in todo[d].dirs /\ e \in Subdirs[d] /\ walk[e] = "none" /\ e # d
      /\ UNCHANGED <<du, sizesOpen, done, duMain, nfiles, listed>>
  BY DEF VisitDirIn, DuIInv, WalkOnce
<1>2. /\ todo'[d].files = todo[d].files /\ todo'[d].dirs = todo[d].dirs \ {e}
      /\ \A x \in Dirs \ {d} : todo'[x] = todo[x]
      /\ todo' \in [Dirs -> [dirs : SUBSET Dirs, files : Nat]]
  BY <1>1 DEF VisitDirIn, DuIInv, DuTypes
<1>3. /\ walk'[e] = "started" /\ \A x \in Dirs \ {e} : walk'[x] = walk[x]
      /\ walk' \in [Dirs -> {"none", "started", "waiting", "reading", "sending", "over"}]
  BY DEF VisitDirIn, WalkAt, DuIInv, DuTypes
<1>4. DuTypes'
  BY <1>1, <1>2, <1>3 DEF DuIInv, DuTypes
<1>5. \A x \in Dirs \ {d} : e \notin Subdirs[x] /\ e \notin todo[x].dirs
  BY <1>1, DuAssumption DEF DuIInv, WalkOnce
<1>6. ASSUME NEW x \in Dirs
      PROVE  /\ walk'[x] # "sending" => todo'[x].files = 0 /\ todo'[x].dirs = {}
             /\ todo'[x].dirs \subseteq Subdirs[x] /\ \A y \in todo'[x].dirs : walk'[y] = "none"
             /\ walk'[x] \in {"none", "started", "waiting", "reading"} => \A y \in Subdirs[x] : walk'[y] = "none"
  <2>1. CASE x = d
    BY <1>1, <1>2, <1>3, <2>1, DuAssumption DEF DuIInv, WalkOnce
  <2>2. CASE x # d
    <3>1. todo'[x] = todo[x] /\ Subdirs[x] \subseteq Dirs \ {e} /\ todo[x].dirs \subseteq Subdirs[x]
      BY <1>2, <1>5, <2>2, DuAssumption DEF DuIInv, WalkOnce
    <3>2. \A y \in Subdirs[x] : walk'[y] = walk[y]
      BY <1>3, <3>1
    <3>3. /\ walk'[x] # "sending" => walk[x] # "sending"
          /\ walk'[x] \in {"none", "started", "waiting", "reading"} => walk[x] \in {"none", "started", "waiting", "reading"}
      BY <1>1, <1>3
    <3> QED
      BY <3>1, <3>2, <3>3 DEF DuIInv, WalkOnce
  <2> QED
    BY <2>1, <2>2
<1>7. WalkOnce'
  BY <1>6 DEF WalkOnce
<1>8. AllCounted'
  <2>1. SumFunctionOnSet(FilesToDo, Dirs)' = SumFunctionOnSet(FilesToDo, Dirs) + todo'[d].files - todo[d].files
    BY <1>2, <1>4, FilesToDoChange DEF DuIInv
  <2> QED
    BY <1>1, <1>2, <2>1, FilesToDoSum DEF DuIInv, AllCounted
<1> QED
  BY <1>1, <1>3, <1>4, <1>7, <1>8 DEF DuIInv

\* A walker goes on or ends, without entries.
LEMMA DuWalks ==
  ASSUME DuIInv, NEW d \in Dirs,
         NotCancelled(d) \/ AcquireToken(d) \/ WalkCancelled(d) \/ WalkEnds(d)
  PROVE  DuIInv'
<1>1. /\ walk[d] \in {"started", "waiting", "sending"} /\ walk'[d] \in {"waiting", "reading", "over"}
      /\ walk[d] = "sending" => todo[d].files = 0 /\ todo[d].dirs = {} /\ walk'[d] = "over"
      /\ \A e \in Dirs \ {d} : walk'[e] = walk[e]
      /\ walk' \in [Dirs -> {"none", "started", "waiting", "reading", "sending", "over"}]
      /\ UNCHANGED <<du, todo, sizesOpen, done, duMain, nfiles, listed>>
  BY DEF NotCancelled, AcquireToken, WalkCancelled, WalkEnds, WalkAt, NoEntries, DuIInv, DuTypes
<1>2. DuTypes'
  BY <1>1 DEF DuIInv, DuTypes
<1>3. WalkOnce'
  <2>1. \A e \in Dirs : walk'[e] = "none" <=> walk[e] = "none"
    BY <1>1
  <2> QED
    BY <1>1, <2>1, DuAssumption DEF DuIInv, WalkOnce
<1>4. AllCounted'
  BY <1>1 DEF DuIInv, AllCounted, FilesToDo
<1> QED
  BY <1>1, <1>2, <1>3, <1>4 DEF DuIInv

\* Every step keeps the invariant.
LEMMA DuStep == DuIInv /\ [DuNext]_duVars => DuIInv'
<1> SUFFICES ASSUME DuIInv, [DuNext]_duVars PROVE DuIInv'
  OBVIOUS
<1>1. CASE PressKey \/ Drain \/ CloseSizes \/ MainReturns
  <2>1. UNCHANGED <<du, walk, todo, nfiles, listed>>
    BY <1>1 DEF PressKey, Drain, CloseSizes, MainReturns
  <2>2. DuTypes'
    BY <1>1, <2>1 DEF PressKey, Drain, CloseSizes, MainReturns, DuIInv, DuTypes
  <2>3. WalkOnce'
    BY <2>1 DEF DuIInv, WalkOnce
  <2>4. AllCounted'
    BY <1>1, <2>1 DEF PressKey, Drain, CloseSizes, MainReturns, DuIInv, AllCounted, FilesToDo
  <2> QED
    BY <1>1, <2>1, <2>2, <2>3, <2>4 DEF PressKey, Drain, CloseSizes, MainReturns, DuIInv
<1>2. ASSUME NEW d \in Dirs, WalkStep(d) PROVE DuIInv'
  BY <1>2, DuFound, DuSends, DuVisits, DuWalks DEF WalkStep
<1>3. CASE UNCHANGED duVars
  BY <1>3 DEF duVars, DuIInv, DuTypes, WalkOnce, AllCounted, FilesToDo
<1> QED
  BY <1>1, <1>2, <1>3 DEF DuNext

\* No directory has been read.
LEMMA DuInitIInv == DuInit => DuIInv
<1> SUFFICES ASSUME DuInit PROVE DuIInv
  OBVIOUS
<1>1. DuTypes /\ \A d \in Dirs : todo[d].files = 0 /\ todo[d].dirs = {}
  BY DEF DuInit, DuTypes, NoEntries
<1>2. WalkOnce
  BY <1>1, DuAssumption DEF DuInit, WalkOnce
<1>3. SumFunctionOnSet(FilesToDo, Dirs) = 0
  BY <1>1, FilesToDoSum, DuAssumption, SumZero
<1>4. AllCounted
  BY <1>3 DEF DuInit, AllCounted
<1> QED
  BY <1>1, <1>2, <1>4 DEF DuInit, DuIInv

\* When all walkers are over they have nothing left to send.
LEMMA DuIsClosedLast == DuIInv => SizesClosedLast
<1> SUFFICES ASSUME DuIInv, duMain = "over", ~done PROVE nfiles = listed
  BY DEF DuIInv, SizesClosedLast
<1>1. \A d \in Dirs : FilesToDo[d] = 0
  BY FilesToDoSum DEF DuIInv, WalkOnce
<1>2. SumFunctionOnSet(FilesToDo, Dirs) = 0
  BY <1>1, DuAssumption, SumZero
<1> QED
  BY <1>2 DEF DuIInv, DuTypes, AllCounted

\* fileSizes is closed when no walker is left, and main has counted what was
\* found, for any tree and any number of tokens (du3:39-49, du4:65-88).
THEOREM DuCountsAll == DuSpec => []SizesClosedLast
  BY DuInitIInv, DuIsClosedLast, DuStep, PTL DEF DuSpec

---------------------------------------------------------------------------
(* MergeChans                                                              *)

Values == Inputs \X Nat

MergeTypes ==
  /\ inputCap \in [Inputs -> 0..MaxInputCap] /\ inputClosed \in SUBSET Inputs
  /\ input \in [Inputs -> Seq(Nat)] /\ sentOn \in [Inputs -> Nat]
  /\ forwarder \in [Inputs -> Int]
  /\ mainCh \in Seq(Values) /\ received \in Seq(Values) /\ mainClosed \in BOOLEAN

\* q holds the last of the numbers up to n.
LastOf(q, n) == \A i \in 1..Len(q) : q[i] = n - Len(q) + i

\* Another number is put in at the end, and one is taken out at the front.
LEMMA LastOfMore ==
  ASSUME NEW q \in Seq(Nat), NEW n \in Nat, LastOf(q, n)
  PROVE  /\ Append(q, n + 1) \in Seq(Nat) /\ Len(Append(q, n + 1)) = Len(q) + 1
         /\ LastOf(Append(q, n + 1), n + 1)
<1>1. PICK p : p = Append(q, n + 1)
  OBVIOUS
<1>2. /\ p \in Seq(Nat) /\ Len(q) \in Nat /\ Len(p) = Len(q) + 1 /\ p[Len(q) + 1] = n + 1
      /\ \A i \in 1..Len(q) : p[i] = q[i]
  BY <1>1
<1>3. ASSUME NEW i \in 1..Len(p) PROVE p[i] = (n + 1) - Len(p) + i
  <2>1. CASE i = Len(q) + 1
    BY <1>2, <2>1
  <2>2. CASE i # Len(q) + 1
    <3>1. i \in 1..Len(q) /\ i \in Int
      BY <1>2, <2>2
    <3>2. q[i] = n - Len(q) + i
      BY <3>1 DEF LastOf
    <3> QED
      BY <1>2, <3>1, <3>2
  <2> QED
    BY <2>1, <2>2
<1> QED
  BY <1>1, <1>2, <1>3 DEF LastOf

\* What is left when the first is taken.
LEMMA LastOfLess ==
  ASSUME NEW q \in Seq(Nat), NEW n \in Nat, LastOf(q, n), q # <<>>
  PROVE  /\ Tail(q) \in Seq(Nat) /\ Len(Tail(q)) = Len(q) - 1
         /\ LastOf(Tail(q), n) /\ Head(q) = n - Len(Tail(q))
<1>1. PICK p : p = Tail(q)
  OBVIOUS
<1>2. /\ p \in Seq(Nat) /\ Len(q) \in Nat /\ Len(q) > 0 /\ Len(p) = Len(q) - 1 /\ Head(q) = q[1]
      /\ \A i \in 1..Len(p) : p[i] = q[i + 1]
  BY <1>1
<1>3. ASSUME NEW i \in 1..Len(p) PROVE p[i] = n - Len(p) + i
  <2>1. i + 1 \in 1..Len(q) /\ i \in Int
    BY <1>2
  <2>2. q[i + 1] = n - Len(q) + (i + 1)
    BY <2>1 DEF LastOf
  <2> QED
    BY <1>2, <2>1, <2>2
<1>4. q[1] = n - Len(q) + 1
  <2>1. 1 \in 1..Len(q)
    BY <1>2
  <2> QED
    BY <2>1 DEF LastOf
<1> QED
  BY <1>1, <1>2, <1>3, <1>4 DEF LastOf

\* How many values of c are past its forwarder.
Passed(c) == sentOn[c] - Len(input[c]) - (IF forwarder[c] > 0 THEN 1 ELSE 0)

InOrder(c) == \A i, j \in From(c) : i < j => Merged[i][2] < Merged[j][2]

\* What waits in c is what was sent last, the forwarder has the one before, and
\* those before that have come out, in order.
PassedInOrder(c) ==
  /\ Passed(c) \in Nat /\ forwarder[c] >= -1
  /\ LastOf(input[c], sentOn[c])
  /\ forwarder[c] > 0 => forwarder[c] = Passed(c) + 1
  /\ forwarder[c] = -1 => input[c] = <<>> /\ c \in inputClosed
  /\ Out(c) = 1..Passed(c)
  /\ InOrder(c)

MergeIInv == /\ MergeTypes /\ Len(mainCh) <= TotalCap
             /\ \A c \in Inputs : PassedInOrder(c)
             /\ mainClosed => \A c \in Inputs : forwarder[c] = -1

\* What is merged so far, and the room that the merged channel has.
LEMMA MergeBasics ==
  ASSUME MergeTypes
  PROVE  /\ Merged \in Seq(Values) /\ TotalCap \in Int
         /\ \A c \in Inputs : /\ From(c) \subseteq DOMAIN Merged
                              /\ Passed(c) \in Int /\ Len(input[c]) \in Nat
<1>1. Merged \in Seq(Values)
  BY DEF MergeTypes, Merged
<1>2. \A c \in Inputs : inputCap[c] \in Int
  BY MergeAssumption DEF MergeTypes
<1>3. TotalCap \in Int
  BY <1>2, MergeAssumption, SumInt DEF TotalCap
<1>4. \A c \in Inputs : From(c) \subseteq DOMAIN Merged /\ Passed(c) \in Int /\ Len(input[c]) \in Nat
  BY DEF From, MergeTypes, Passed
<1> QED
  BY <1>1, <1>3, <1>4

\* A step that lets nothing out keeps what is known of an input that it leaves alone.
LEMMA InputKept ==
  ASSUME NEW c \in Inputs, PassedInOrder(c), Merged' = Merged,
         sentOn'[c] = sentOn[c], input'[c] = input[c], forwarder'[c] = forwarder[c],
         inputClosed \subseteq inputClosed'
  PROVE  PassedInOrder(c)'
BY DEF PassedInOrder, InOrder, Passed, From, Out, LastOf

\* A value comes out behind all others, and is the next of its input.
LEMMA OneMore ==
  ASSUME MergeIInv, NEW c \in Inputs, forwarder[c] > 0, Merged' = Append(Merged, <<c, forwarder[c]>>),
         forwarder' = [forwarder EXCEPT ![c] = 0], UNCHANGED <<sentOn, input, inputClosed>>
  PROVE  \A d \in Inputs : PassedInOrder(d)'
<1>1. PICK m : m = Merged
  OBVIOUS
<1>2. PICK v : v = forwarder[c]
  OBVIOUS
<1>3. PICK n : n = Len(m) + 1
  OBVIOUS
<1>4. /\ m \in Seq(Values) /\ n \in Nat /\ v \in Int /\ v = Passed(c) + 1 /\ Passed(c) \in Nat
      /\ DOMAIN m = 1..(n - 1) /\ DOMAIN Merged' = 1..n
      /\ Merged'[n] = <<c, v>> /\ \A i \in 1..(n - 1) : Merged'[i] = m[i]
  BY <1>1, <1>2, <1>3, MergeBasics DEF MergeIInv, MergeTypes, PassedInOrder
<1>5. /\ From(c)' = From(c) \cup {n} /\ \A d \in Inputs \ {c} : From(d)' = From(d)
      /\ \A d \in Inputs : From(d) \subseteq 1..(n - 1) /\ \A i \in From(d) : Merged'[i] = Merged[i]
  BY <1>1, <1>4 DEF From
<1>6. /\ forwarder'[c] = 0 /\ \A d \in Inputs \ {c} : forwarder'[d] = forwarder[d]
      /\ Passed(c)' = Passed(c) + 1
  BY DEF MergeIInv, MergeTypes, Passed
<1>7. PassedInOrder(c)'
  <2>1. PassedInOrder(c)
    BY DEF MergeIInv
  <2>2. Out(c)' = Out(c) \cup {v}
    BY <1>4, <1>5 DEF Out
  <2>3. Out(c)' = 1..Passed(c)'
    <3>1. Out(c) = 1..Passed(c)
      BY <2>1 DEF PassedInOrder
    <3> QED
      BY <1>4, <1>6, <2>2, <3>1
  <2>4. \A i \in From(c) : Merged[i][2] < v
    <3>1. \A i \in From(c) : Merged[i][2] \in Out(c)
      BY DEF Out
    <3>2. Out(c) = 1..Passed(c)
      BY <2>1 DEF PassedInOrder
    <3> QED
      BY <1>4, <3>1, <3>2
  <2>5. InOrder(c)'
    BY <1>4, <1>5, <2>1, <2>4 DEF PassedInOrder, InOrder
  <2>6. Passed(c)' \in Nat
    BY <1>4, <1>6
  <2>7. LastOf(input[c], sentOn[c])'
    BY <2>1 DEF PassedInOrder, LastOf
  <2>8. forwarder'[c] >= -1 /\ ~(forwarder'[c] > 0) /\ forwarder'[c] # -1
    BY <1>6
  <2> QED
    BY <2>3, <2>5, <2>6, <2>7, <2>8 DEF PassedInOrder
<1>8. ASSUME NEW d \in Inputs \ {c} PROVE PassedInOrder(d)'
  <2>1. PassedInOrder(d) /\ Passed(d)' = Passed(d)
    BY <1>6 DEF MergeIInv, Passed
  <2>2. \A i \in From(d) : Merged'[i] = Merged[i]
    BY <1>5
  <2>3. Out(d)' = Out(d)
    <3>1. From(d)' = From(d)
      BY <1>5
    <3>2. Out(d)' = {Merged'[i][2] : i \in From(d)}
      BY <3>1 DEF Out
    <3>3. {Merged'[i][2] : i \in From(d)} = {Merged[i][2] : i \in From(d)}
      BY <2>2
    <3> QED
      BY <3>2, <3>3 DEF Out
  <2>4. LastOf(input[d], sentOn[d])'
    BY <2>1 DEF LastOf, PassedInOrder
  <2>5. InOrder(d)'
    BY <1>5, <2>1, <2>2 DEF InOrder, PassedInOrder
  <2>6. forwarder'[d] = forwarder[d] /\ input' = input /\ inputClosed' = inputClosed
    BY <1>6
  <2> QED
    BY <2>1, <2>3, <2>4, <2>5, <2>6 DEF PassedInOrder
<1> QED
  BY <1>7, <1>8

\* What happens at the inputs.
LEMMA InputSteps ==
  ASSUME MergeIInv, NEW c \in Inputs, SendInput(c) \/ CloseInput(c) \/ TakeInput(c) \/ ForwarderEnds(c)
  PROVE  MergeIInv'
<1>1. /\ UNCHANGED <<inputCap, mainCh, mainClosed, received>> /\ Merged' = Merged /\ TotalCap' = TotalCap
      /\ inputClosed \subseteq inputClosed'
      /\ \A d \in Inputs \ {c} : sentOn'[d] = sentOn[d] /\ input'[d] = input[d] /\ forwarder'[d] = forwarder[d]
  BY DEF SendInput, CloseInput, TakeInput, ForwarderEnds, Merged, TotalCap, MergeIInv, MergeTypes
<1>2. \A d \in Inputs \ {c} : PassedInOrder(d)'
  BY <1>1, InputKept DEF MergeIInv
<1>3. PassedInOrder(c) /\ Out(c)' = Out(c) /\ InOrder(c)'
  BY <1>1 DEF MergeIInv, PassedInOrder, From, Out, InOrder
<1>4. CASE SendInput(c)
  <2>1. PICK q : q = input[c]
    OBVIOUS
  <2>2. /\ q \in Seq(Nat) /\ sentOn[c] \in Nat /\ sentOn'[c] = sentOn[c] + 1 /\ forwarder[c] \in Int
        /\ UNCHANGED inputClosed /\ c \notin inputClosed /\ inputCap[c] \in Int
    BY <1>4, <2>1, MergeAssumption DEF SendInput, MergeIInv, MergeTypes
  <2>3. CASE Len(input[c]) < inputCap[c]
    <3>1. input' = [input EXCEPT ![c] = Append(q, sentOn[c] + 1)] /\ forwarder' = forwarder
      BY <1>4, <2>1, <2>3 DEF SendInput
    <3>2. PICK p : p = Append(q, sentOn[c] + 1)
      OBVIOUS
    <3>3. input'[c] = p /\ p \in Seq(Nat) /\ Len(p) = Len(q) + 1 /\ Len(q) \in Nat /\ LastOf(p, sentOn[c] + 1)
          /\ input' \in [Inputs -> Seq(Nat)]
      BY <1>3, <2>1, <2>2, <3>1, <3>2, LastOfMore DEF PassedInOrder, MergeIInv, MergeTypes
    <3>4. Passed(c)' = Passed(c)
      BY <2>1, <2>2, <3>1, <3>3 DEF Passed
    <3>5. PassedInOrder(c)'
      BY <1>1, <1>3, <2>2, <3>1, <3>3, <3>4 DEF PassedInOrder
    <3>6. MergeTypes'
      <4>1. sentOn' \in [Inputs -> Nat] /\ inputClosed' \in SUBSET Inputs
        BY <1>4, <2>2 DEF SendInput, MergeIInv, MergeTypes
      <4> QED
        BY <1>1, <3>1, <3>3, <4>1 DEF MergeIInv, MergeTypes
    <3>7. forwarder'[c] = forwarder[c]
      BY <3>1
    <3> QED
      BY <1>1, <1>2, <3>1, <3>5, <3>6 DEF MergeIInv
  <2>4. CASE ~(Len(input[c]) < inputCap[c])
    <3>1. /\ forwarder[c] = 0 /\ forwarder'[c] = sentOn[c] + 1 /\ input' = input /\ q = <<>>
      BY <1>4, <2>1, <2>4 DEF SendInput, MergeIInv, MergeTypes
    <3>2. Passed(c) = sentOn[c] /\ Passed(c)' = sentOn[c]
      BY <2>1, <2>2, <3>1 DEF Passed
    <3>3. PassedInOrder(c)'
      <4>1. LastOf(input[c], sentOn[c])' /\ input'[c] = <<>>
        BY <2>1, <2>2, <3>1 DEF LastOf
      <4>2. sentOn[c] >= 0 /\ sentOn[c] + 1 > 0
        BY <2>2
      <4> QED
        BY <1>1, <1>3, <2>1, <2>2, <3>1, <3>2, <4>1, <4>2 DEF PassedInOrder
    <3>4. MergeTypes'
      BY <1>1, <1>4, <2>2, <2>4 DEF SendInput, MergeIInv, MergeTypes
    <3>5. ~mainClosed
      BY <3>1 DEF MergeIInv
    <3> QED
      BY <1>1, <1>2, <3>3, <3>4, <3>5 DEF MergeIInv
  <2> QED
    BY <2>3, <2>4
<1>5. CASE CloseInput(c)
  <2>1. UNCHANGED <<input, sentOn, forwarder>> /\ inputClosed' = inputClosed \cup {c}
    BY <1>5 DEF CloseInput
  <2>2. PassedInOrder(c)'
    BY <1>1, <1>3, <2>1, InputKept
  <2>3. MergeTypes'
    BY <1>1, <2>1 DEF MergeIInv, MergeTypes
  <2> QED
    BY <1>1, <1>2, <2>1, <2>2, <2>3 DEF MergeIInv
<1>6. CASE TakeInput(c)
  <2>1. PICK q : q = input[c]
    OBVIOUS
  <2>2. /\ q \in Seq(Nat) /\ q # <<>> /\ forwarder[c] = 0 /\ forwarder'[c] = Head(q) /\ input'[c] = Tail(q)
        /\ UNCHANGED <<sentOn, inputClosed>> /\ sentOn[c] \in Nat
        /\ input' \in [Inputs -> Seq(Nat)]
    BY <1>6, <2>1 DEF TakeInput, MergeIInv, MergeTypes
  <2>3. PICK p : p = Tail(q)
    OBVIOUS
  <2>4. /\ p \in Seq(Nat) /\ Len(q) \in Nat /\ Len(p) \in Nat /\ Len(p) = Len(q) - 1
        /\ LastOf(p, sentOn[c]) /\ Head(q) = sentOn[c] - Len(p)
    <3>1. LastOf(q, sentOn[c])
      BY <1>3, <2>1 DEF PassedInOrder
    <3>2. /\ Tail(q) \in Seq(Nat) /\ Len(Tail(q)) = Len(q) - 1
          /\ LastOf(Tail(q), sentOn[c]) /\ Head(q) = sentOn[c] - Len(Tail(q))
      BY <2>2, <3>1, LastOfLess
    <3>3. Len(q) \in Nat /\ Len(Tail(q)) \in Nat
      BY <2>2, <3>2
    <3> QED
      BY <2>3, <3>2, <3>3
  <2>5. Passed(c) = sentOn[c] - Len(q) /\ Passed(c) \in Nat
    BY <1>3, <2>1, <2>2, <2>4 DEF Passed, PassedInOrder
  <2>6. Head(q) = Passed(c) + 1 /\ Head(q) > 0
    BY <2>2, <2>4, <2>5
  <2>7. Passed(c)' = Passed(c)
    BY <2>2, <2>3, <2>4, <2>5, <2>6 DEF Passed
  <2>8. LastOf(input[c], sentOn[c])'
    BY <2>2, <2>3, <2>4
  <2>9. PassedInOrder(c)'
    BY <1>1, <1>3, <2>2, <2>5, <2>6, <2>7, <2>8 DEF PassedInOrder
  <2>10. MergeTypes'
    <3>1. Head(q) \in Int
      BY <2>5, <2>6
    <3> QED
      BY <1>1, <1>6, <2>2, <3>1 DEF TakeInput, MergeIInv, MergeTypes
  <2>11. ~mainClosed
    BY <2>2 DEF MergeIInv
  <2> QED
    BY <1>1, <1>2, <2>9, <2>10, <2>11 DEF MergeIInv
<1>7. CASE ForwarderEnds(c)
  <2>1. /\ forwarder[c] = 0 /\ forwarder'[c] = -1 /\ input[c] = <<>> /\ c \in inputClosed
        /\ UNCHANGED <<input, inputClosed, sentOn>>
    BY <1>7 DEF ForwarderEnds, MergeIInv, MergeTypes
  <2>2. Passed(c)' = Passed(c) /\ LastOf(input[c], sentOn[c])'
    BY <1>3, <2>1 DEF Passed, PassedInOrder, LastOf
  <2>3. PassedInOrder(c)'
    BY <1>1, <1>3, <2>1, <2>2 DEF PassedInOrder
  <2>4. MergeTypes'
    BY <1>1, <1>7 DEF ForwarderEnds, MergeIInv, MergeTypes
  <2>5. ~mainClosed
    BY <2>1 DEF MergeIInv
  <2> QED
    BY <1>1, <1>2, <2>3, <2>4, <2>5 DEF MergeIInv
<1> QED
  BY <1>4, <1>5, <1>6, <1>7

\* A value leaves its forwarder, for the channel or for the receiver.
LEMMA ForwardSteps ==
  ASSUME MergeIInv, NEW c \in Inputs, ForwardInput(c) \/ ReceiveDirect(c)
  PROVE  MergeIInv'
<1>1. /\ forwarder[c] > 0 /\ forwarder' = [forwarder EXCEPT ![c] = 0] /\ ~mainClosed
      /\ UNCHANGED <<inputCap, input, inputClosed, sentOn, mainClosed>>
      /\ <<c, forwarder[c]>> \in Values
  BY DEF ForwardInput, ReceiveDirect, MergeIInv, MergeTypes, Values
<1>2. PICK v : v = <<c, forwarder[c]>>
  OBVIOUS
<1>3. TotalCap \in Int /\ TotalCap' = TotalCap /\ mainCh \in Seq(Values) /\ received \in Seq(Values)
  BY <1>1, MergeBasics DEF TotalCap, MergeIInv, MergeTypes
<1>4. /\ Merged' = Append(Merged, v) /\ Len(mainCh') <= TotalCap'
      /\ mainCh' \in Seq(Values) /\ received' \in Seq(Values)
  <2>1. CASE ForwardInput(c)
    <3>1. mainCh' = Append(mainCh, v) /\ received' = received /\ Len(mainCh) < TotalCap
      BY <1>2, <2>1 DEF ForwardInput
    <3>2. v \in Values
      BY <1>1, <1>2
    <3>3. received \o Append(mainCh, v) = Append(received \o mainCh, v)
      BY <1>3, <3>2
    <3> QED
      BY <1>3, <3>1, <3>2, <3>3 DEF Merged
  <2>2. CASE ReceiveDirect(c)
    <3>1. received' = Append(received, v) /\ mainCh' = mainCh /\ TotalCap = 0
      BY <1>2, <2>2 DEF ReceiveDirect
    <3>2. mainCh = <<>>
      BY <1>3, <3>1 DEF MergeIInv
    <3>3. v \in Values
      BY <1>1, <1>2
    <3>4. Append(received, v) \o <<>> = Append(received, v) /\ received \o <<>> = received
      BY <1>3, <3>3
    <3> QED
      BY <1>3, <3>1, <3>2, <3>3, <3>4 DEF Merged
  <2> QED
    BY <2>1, <2>2
<1>5. \A d \in Inputs : PassedInOrder(d)'
  BY <1>1, <1>2, <1>4, OneMore
<1>6. MergeTypes'
  BY <1>1, <1>4 DEF MergeIInv, MergeTypes
<1> QED
  BY <1>1, <1>4, <1>5, <1>6 DEF MergeIInv

\* Every step keeps the invariant: the receiver takes what comes first.
LEMMA MergeStep == MergeIInv /\ [MergeNext]_mergeVars => MergeIInv'
<1> SUFFICES ASSUME MergeIInv, [MergeNext]_mergeVars PROVE MergeIInv'
  OBVIOUS
<1>1. ASSUME UNCHANGED <<inputCap, input, inputClosed, sentOn, forwarder>>, Merged' = Merged,
             mainCh' \in Seq(Values), received' \in Seq(Values), mainClosed' \in BOOLEAN,
             Len(mainCh') <= Len(mainCh), mainClosed' => \A c \in Inputs : forwarder[c] = -1
      PROVE  MergeIInv'
  <2>1. TotalCap' = TotalCap /\ TotalCap \in Int
    BY <1>1, MergeBasics DEF TotalCap, MergeIInv
  <2>2. Len(mainCh') \in Nat /\ Len(mainCh) \in Nat
    BY <1>1 DEF MergeIInv, MergeTypes
  <2>3. Len(mainCh') <= TotalCap'
    BY <1>1, <2>1, <2>2 DEF MergeIInv
  <2>4. \A c \in Inputs : PassedInOrder(c)'
    BY <1>1, InputKept DEF MergeIInv
  <2> QED
    BY <1>1, <2>3, <2>4 DEF MergeIInv, MergeTypes
<1>2. CASE ReceiveMerged
  <2>1. PICK h : h = Head(mainCh)
    OBVIOUS
  <2>2. /\ mainCh \in Seq(Values) /\ mainCh # <<>> /\ received \in Seq(Values)
        /\ received' = Append(received, h) /\ mainCh' = Tail(mainCh)
        /\ UNCHANGED <<inputCap, input, inputClosed, sentOn, forwarder, mainClosed>>
    BY <1>2, <2>1 DEF ReceiveMerged, MergeIInv, MergeTypes
  <2>3. h \in Values /\ Tail(mainCh) \in Seq(Values) /\ Len(Tail(mainCh)) = Len(mainCh) - 1
        /\ Len(mainCh) \in Nat
    BY <2>1, <2>2
  <2>4. Append(received, h) \o Tail(mainCh) = received \o mainCh
    BY <2>1, <2>2, <2>3
  <2>5. received' \in Seq(Values) /\ Merged' = Merged
    BY <2>2, <2>3, <2>4 DEF Merged
  <2> QED
    BY <1>1, <2>2, <2>3, <2>5 DEF MergeIInv, MergeTypes
<1>3. CASE CloseMerged
  <2>1. /\ UNCHANGED <<inputCap, input, inputClosed, sentOn, forwarder, mainCh, received>>
        /\ mainClosed' = TRUE /\ \A c \in Inputs : forwarder[c] = -1
    BY <1>3 DEF CloseMerged
  <2>2. mainCh' \in Seq(Values) /\ received' \in Seq(Values) /\ Merged' = Merged /\ Len(mainCh') <= Len(mainCh)
    BY <2>1 DEF MergeIInv, MergeTypes, Merged
  <2> QED
    BY <1>1, <2>1, <2>2
<1>4. ASSUME NEW c \in Inputs, SendInput(c) \/ CloseInput(c) \/ ForwarderStep(c) \/ ReceiveDirect(c)
      PROVE  MergeIInv'
  BY <1>4, InputSteps, ForwardSteps DEF ForwarderStep
<1>5. CASE UNCHANGED mergeVars
  <2>1. /\ UNCHANGED <<inputCap, input, inputClosed, sentOn, forwarder, mainCh, received, mainClosed>>
    BY <1>5 DEF mergeVars
  <2>2. mainCh' \in Seq(Values) /\ received' \in Seq(Values) /\ Merged' = Merged /\ Len(mainCh') <= Len(mainCh)
        /\ mainClosed' \in BOOLEAN /\ (mainClosed' => \A c \in Inputs : forwarder[c] = -1)
    BY <2>1 DEF MergeIInv, MergeTypes, Merged
  <2> QED
    BY <1>1, <2>1, <2>2
<1> QED
  BY <1>2, <1>3, <1>4, <1>5 DEF MergeNext

\* Nothing has been sent.
LEMMA MergeInitIInv == MergeInit => MergeIInv
<1> SUFFICES ASSUME MergeInit PROVE MergeIInv
  OBVIOUS
<1>1. MergeTypes
  <2>1. <<>> \in Seq(Nat) /\ <<>> \in Seq(Values)
    OBVIOUS
  <2>2. input \in [Inputs -> Seq(Nat)] /\ mainCh \in Seq(Values) /\ received \in Seq(Values)
    BY <2>1 DEF MergeInit
  <2>3. sentOn \in [Inputs -> Nat] /\ forwarder \in [Inputs -> Int]
    BY DEF MergeInit
  <2> QED
    BY <2>2, <2>3 DEF MergeInit, MergeTypes
<1>2. Merged = <<>> /\ \A c \in Inputs : From(c) = {} /\ Passed(c) = 0 /\ Out(c) = {}
  BY DEF MergeInit, Merged, From, Passed, Out
<1>3. 0 <= TotalCap
  BY MergeAssumption, SumNat DEF MergeInit, TotalCap
<1>4. \A c \in Inputs : PassedInOrder(c)
  <2> SUFFICES ASSUME NEW c \in Inputs PROVE PassedInOrder(c)
    OBVIOUS
  <2>1. input[c] = <<>> /\ forwarder[c] = 0
    BY DEF MergeInit
  <2>2. LastOf(input[c], sentOn[c]) /\ InOrder(c)
    BY <1>2, <2>1 DEF LastOf, InOrder
  <2>3. Out(c) = 1..Passed(c) /\ Passed(c) \in Nat
    <3>1. 1..0 = {}
      OBVIOUS
    <3>2. Out(c) = {} /\ Passed(c) = 0
      BY <1>2
    <3>3. Out(c) = 1..Passed(c)
      BY <3>1, <3>2, Zenon
    <3> QED
      BY <3>2, <3>3
  <2>4. forwarder[c] >= -1 /\ ~(forwarder[c] > 0) /\ forwarder[c] # -1
    BY <2>1
  <2> QED
    BY <2>2, <2>3, <2>4 DEF PassedInOrder
<1> QED
  BY <1>1, <1>3, <1>4 DEF MergeInit, MergeIInv

\* When mainCh is closed no forwarder has anything left.
LEMMA MergeIsWhole == MergeIInv => MergeKeepsAll
<1> SUFFICES ASSUME MergeIInv, NEW c \in Inputs
             PROVE  \E n \in 0..sentOn[c] : Out(c) = 1..n /\ (mainClosed => n = sentOn[c])
  BY DEF MergeIInv, MergeKeepsAll, PassedInOrder, InOrder
<1>1. /\ Passed(c) \in Nat /\ sentOn[c] \in Nat /\ Len(input[c]) \in Nat /\ forwarder[c] \in Int
      /\ Out(c) = 1..Passed(c)
  BY DEF MergeIInv, MergeTypes, PassedInOrder
<1>2. Passed(c) <= sentOn[c]
  BY <1>1 DEF Passed
<1>3. mainClosed => forwarder[c] = -1 /\ Len(input[c]) = 0
  BY DEF MergeIInv, PassedInOrder
<1>4. mainClosed => Passed(c) = sentOn[c]
  BY <1>1, <1>3 DEF Passed
<1> QED
  BY <1>1, <1>2, <1>4

\* What is sent on any input comes out once and in order, whatever the number
\* and the capacities of the inputs (genericsum.go:57-74).
THEOREM MergeLosesNothing == MergeSpec => []MergeKeepsAll
  BY MergeInitIInv, MergeIsWhole, MergeStep, PTL DEF MergeSpec

---------------------------------------------------------------------------
(* The programs together, as MCConcurrent runs them.                       *)

\* The program that runs keeps its invariant, the others stay ended.
ConcIInv ==
  /\ WgIInv
  /\ IF program = "once" THEN OnceIInv ELSE OnceEnded
  /\ IF program = "du" THEN DuIInv ELSE DuEnded
  /\ IF program = "memo" THEN MemoIInv ELSE MemoEnded
  /\ IF program = "merge" THEN MergeIInv ELSE MergeEnded
  /\ IF program = "chat" THEN ChatIInv ELSE ChatEnded

\* It holds when one program begins.
LEMMA ConcInitIInv == ConcInit => ConcIInv
BY WgInitIInv, OnceInitIInv, DuInitIInv, MemoInitIInv, MergeInitIInv, ChatInitIInv
   DEF ConcInit, ConcIInv

\* An invariant holds after a step that leaves its variables alone.
LEMMA OthersStay ==
  /\ OnlyPositive /\ WgIInv /\ UNCHANGED wgVars => WgIInv'
  /\ OnceEnded /\ UNCHANGED onceVars => OnceEnded'
  /\ DuEnded /\ UNCHANGED duVars => DuEnded'
  /\ MemoEnded /\ UNCHANGED memoVars => MemoEnded'
  /\ MergeEnded /\ UNCHANGED mergeVars => MergeEnded'
  /\ ChatEnded /\ UNCHANGED chatVars => ChatEnded'
<1>1. OnlyPositive /\ WgIInv /\ UNCHANGED wgVars => WgIInv'
  BY WgNextIInv
<1>2. OnceEnded /\ UNCHANGED onceVars => OnceEnded'
  BY DEF OnceEnded, onceVars
<1>3. DuEnded /\ UNCHANGED duVars => DuEnded'
  BY DEF DuEnded, duVars
<1>4. MemoEnded /\ UNCHANGED memoVars => MemoEnded'
  BY DEF MemoEnded, memoVars
<1>5. MergeEnded /\ UNCHANGED mergeVars => MergeEnded'
  BY DEF MergeEnded, mergeVars
<1>6. ChatEnded /\ UNCHANGED chatVars => ChatEnded'
  BY DEF ChatEnded, chatVars
<1> QED
  BY <1>1, <1>2, <1>3, <1>4, <1>5, <1>6

\* A step is one of the program that runs.
LEMMA ConcNextIInv == OnlyPositive /\ ConcIInv /\ [ConcNext]_concVars => ConcIInv'
<1> SUFFICES ASSUME OnlyPositive, ConcIInv, [ConcNext]_concVars PROVE ConcIInv'
  OBVIOUS
<1>1. /\ program' = program
      /\ [WgNext]_wgVars
      /\ IF program = "once" THEN [OnceNext]_onceVars ELSE UNCHANGED onceVars
      /\ IF program = "du" THEN [DuNext]_duVars ELSE UNCHANGED duVars
      /\ IF program = "memo" THEN [MemoNext]_memoVars ELSE UNCHANGED memoVars
      /\ IF program = "merge" THEN [MergeNext]_mergeVars ELSE UNCHANGED mergeVars
      /\ IF program = "chat" THEN [ChatNext]_chatVars ELSE UNCHANGED chatVars
  BY DEF ConcNext, concVars
<1>2. WgIInv'
  BY <1>1, WgNextIInv DEF ConcIInv
<1>3. IF program = "once" THEN OnceIInv' ELSE OnceEnded'
  BY <1>1, OnceNextIInv, OthersStay DEF ConcIInv
<1>4. IF program = "du" THEN DuIInv' ELSE DuEnded'
  BY <1>1, DuStep, OthersStay DEF ConcIInv
<1>5. IF program = "memo" THEN MemoIInv' ELSE MemoEnded'
  BY <1>1, MemoStep, OthersStay DEF ConcIInv
<1>6. IF program = "merge" THEN MergeIInv' ELSE MergeEnded'
  BY <1>1, MergeStep, OthersStay DEF ConcIInv
<1>7. IF program = "chat" THEN ChatIInv' ELSE ChatEnded'
  BY <1>1, ChatStep, OthersStay DEF ConcIInv
<1> QED
  BY <1>1, <1>2, <1>3, <1>4, <1>5, <1>6, <1>7 DEF ConcIInv

\* The programs keep their invariants next to each other.
THEOREM ConcInvariance == OnlyPositive => (ConcSpec => []ConcIInv)
<1> SUFFICES ASSUME OnlyPositive PROVE ConcSpec => []ConcIInv
  OBVIOUS
<1>1. ConcIInv /\ [ConcNext]_concVars => ConcIInv'
  BY ConcNextIInv
<1> QED
  BY ConcInitIInv, <1>1, PTL DEF ConcSpec

---------------------------------------------------------------------------
\* A set whose elements are all equal has one at most.
LEMMA AtMostOneElement ==
  ASSUME NEW S, \A x, y \in S : x = y
  PROVE  Cardinality(S) <= 1
<1>1. CASE S = {}
  BY <1>1, FS_EmptySet
<1>2. ASSUME NEW x \in S PROVE Cardinality(S) = 1
  <2>1. S = {x}
    OBVIOUS
  <2> QED
    BY <2>1, FS_Singleton
<1> QED
  BY <1>1, <1>2

\* The types: neither the waitBlocker of a wait group nor the channel locked of
\* a Once is closed twice, and the mutex of a memo has one owner at most
\* (waitgroup.go:65-75, once.go:34-40, memo2/memo.go:33-42).
THEOREM ConcTypeCorrect == OnlyPositive => (ConcSpec => []ConcTypeOK)
<1>1. ConcIInv => ConcTypeOK
  <2> SUFFICES ASSUME ConcIInv PROVE ConcTypeOK
    OBVIOUS
  <2>1. WgTypeOK
    BY DEF ConcIInv, WgIInv
  <2>2. OnceTypeOK
    <3>1. OnceEnded => OnceTypeOK
      BY DEF OnceEnded, OnceTypeOK
    <3> QED
      BY <3>1 DEF ConcIInv, OnceIInv
  <2>3. DuTypeOK
    BY DEF ConcIInv, DuIInv, DuTypes, DuEnded, NoEntries, DuTypeOK
  <2>4. MemoTypeOK
    <3>1. entry \in [MemoKeys -> Int]
      BY DEF ConcIInv, MemoIInv, MemoTypes, MemoEnded
    <3>2. Cardinality(memoMu) <= 1
      BY AtMostOneElement DEF ConcIInv, MemoIInv, MutexOwned, MemoEnded
    <3>3. \A g \in Getters : getter[g].at \in {"start", "locked", "calling", "store", "wait", "returned"}
      BY DEF ConcIInv, MemoIInv, MemoTypes, MemoEnded
    <3> QED
      BY <3>1, <3>2, <3>3 DEF MemoTypeOK
  <2> QED
    BY <2>1, <2>2, <2>3, <2>4 DEF ConcTypeOK
<1> QED
  BY ConcInvariance, <1>1, PTL

\* Nobody is blocked in Wait at zero and nobody leaves Do while f runs
\* (waitgroup.go:23, once.go:28-32).
THEOREM ConcLetsGoInTime == OnlyPositive => (ConcSpec => []LetGoInTime)
<1>1. ConcIInv => LetGoInTime
  <2> SUFFICES ASSUME ConcIInv PROVE LetGoInTime
    OBVIOUS
  <2>1. NobodyStrandedAtZero
    BY DEF ConcIInv, WgIInv
  <2>2. NoReturnDuringF
    BY OnceIsKept DEF ConcIInv, OnceEnded, NoReturnDuringF
  <2> QED
    BY <2>1, <2>2 DEF LetGoInTime
<1> QED
  BY ConcInvariance, <1>1, PTL

\* du, MergeChans and chat close no channel before the last send, and lose
\* nothing of what was sent (du4:65-88, genericsum.go:57-74, chat.go:31-61).
THEOREM ConcKeepsAll == OnlyPositive => (ConcSpec => []ChannelsKeepAll)
<1>1. ConcIInv => ChannelsKeepAll
  <2> SUFFICES ASSUME ConcIInv PROVE ChannelsKeepAll
    OBVIOUS
  <2>1. SizesClosedLast
    BY DuIsClosedLast DEF ConcIInv, DuEnded, SizesClosedLast
  <2>2. MergeKeepsAll
    <3>1. CASE MergeEnded
      <4>1. Merged = <<>>
        BY <3>1 DEF MergeEnded, Merged
      <4>2. \A c \in Inputs : From(c) = {} /\ Out(c) = {} /\ sentOn[c] = 0
        BY <3>1, <4>1 DEF From, Out, MergeEnded
      <4>3. 1..0 = {} /\ 0 \in 0..0
        OBVIOUS
      <4>4. \A c \in Inputs : \E n \in 0..sentOn[c] : Out(c) = 1..n /\ (mainClosed => n = sentOn[c])
        BY <4>2, <4>3, Zenon
      <4> QED
        BY <4>2, <4>4 DEF MergeKeepsAll
    <3> QED
      BY <3>1, MergeIsWhole DEF ConcIInv
  <2>3. NoSendToTheGone
    BY ChatServesTheMap DEF ConcIInv, ChatEnded, NoSendToTheGone
  <2> QED
    BY <2>1, <2>2, <2>3 DEF ChannelsKeepAll
<1> QED
  BY ConcInvariance, <1>1, PTL

---------------------------------------------------------------------------
(* cond: the inductive invariant.                                          *)

\* Only consumers call Wait, so whoever a Signal takes will look for an item.
OnlyConsumersWait == \A g \in CondUsers : condPc[g] \in {"queued", "blocked"} => g \in Consumers

MonitorIInv == MTypeOK /\ QueueIsTheWaiters /\ OnlyConsumersWait /\ EveryItemIsAnnounced

---------------------------------------------------------------------------
(* cond: the queue as a sequence.                                          *)

\* A new waiter at the end.
LEMMA AppendWaiter ==
  ASSUME NEW S, NEW q \in Seq(S), IsInjective(q), NEW g \in S, g \notin ToSet(q)
  PROVE  /\ Append(q, g) \in Seq(S)
         /\ IsInjective(Append(q, g))
         /\ ToSet(Append(q, g)) = ToSet(q) \cup {g}
         /\ Append(q, g) # << >>
<1> DEFINE new == Append(q, g)
           n == Len(q)
<1>1. /\ new \in Seq(S) /\ n \in Nat
      /\ DOMAIN q = 1..n /\ DOMAIN new = 1..(n + 1)
      /\ \A i \in 1..n : new[i] = q[i]
      /\ new[n + 1] = g
      /\ new # << >>
  OBVIOUS
<1>2. ToSet(new) = ToSet(q) \cup {g}
  BY <1>1 DEF ToSet
<1>3. IsInjective(new)
  BY <1>1 DEF ToSet, IsInjective
<1> QED
  BY <1>1, <1>2, <1>3

\* The front leaves, and only it.
LEMMA DropWaiter ==
  ASSUME NEW S, NEW q \in Seq(S), IsInjective(q), q # << >>
  PROVE  /\ Head(q) \in ToSet(q) /\ Head(q) \in S
         /\ Tail(q) \in Seq(S)
         /\ IsInjective(Tail(q))
         /\ ToSet(Tail(q)) = ToSet(q) \ {Head(q)}
<1> DEFINE n == Len(q)
           t == Tail(q)
<1>1. /\ n \in Nat \ {0} /\ DOMAIN q = 1..n
      /\ t \in Seq(S) /\ DOMAIN t = 1..(n - 1)
      /\ \A i \in 1..(n - 1) : t[i] = q[i + 1]
      /\ Head(q) = q[1] /\ q[1] \in S
  OBVIOUS
<1> HIDE DEF n, t
<1>2. Head(q) \in ToSet(q)
  BY <1>1 DEF ToSet
<1>3. \A i, j \in 1..n : q[i] = q[j] => i = j
  BY <1>1 DEF IsInjective
<1>4. IsInjective(t)
  <2>1. ASSUME NEW i \in 1..(n - 1), NEW j \in 1..(n - 1), t[i] = t[j] PROVE i = j
    <3>1. i + 1 \in 1..n /\ j + 1 \in 1..n /\ q[i + 1] = q[j + 1]
      BY <1>1, <2>1
    <3> QED
      BY <1>1, <1>3, <3>1
  <2> QED
    BY <1>1, <2>1 DEF IsInjective
<1>5. ASSUME NEW x \in ToSet(t) PROVE x \in ToSet(q) \ {Head(q)}
  <2>1. PICK i \in 1..(n - 1) : t[i] = x
    BY <1>1, <1>5 DEF ToSet
  <2>2. i + 1 \in 1..n /\ q[i + 1] = x /\ 1 \in 1..n /\ i + 1 # 1
    BY <1>1, <2>1
  <2> QED
    BY <1>1, <1>3, <2>2 DEF ToSet
<1>6. ASSUME NEW x \in ToSet(q) \ {Head(q)} PROVE x \in ToSet(t)
  <2>1. PICK i \in 1..n : q[i] = x /\ i # 1
    BY <1>1, <1>6 DEF ToSet
  <2>2. i - 1 \in 1..(n - 1) /\ t[i - 1] = x
    BY <1>1, <2>1
  <2> QED
    BY <1>1, <2>2 DEF ToSet
<1> QED
  BY <1>1, <1>2, <1>4, <1>5, <1>6 DEF t

\* Nobody is in an empty queue.
LEMMA EmptyQueue == ToSet(<< >>) = {} /\ IsInjective(<< >>)
  BY DEF ToSet, IsInjective

\* Broadcast's loop visits everybody in the queue.
LEMMA ContainsIsMember ==
  ASSUME NEW S, NEW q \in Seq(S), NEW g
  PROVE  Contains(q, g) <=> g \in ToSet(q)
  BY DEF Contains, ToSet

---------------------------------------------------------------------------
(* cond: counting who is on the way to an item.                            *)

\* Both sets are counted.
LEMMA CountsFinite ==
  /\ IsFiniteSet(Awake) /\ Cardinality(Awake) \in Nat
  /\ IsFiniteSet(Owing) /\ Cardinality(Owing) \in Nat
<1>1. Awake \in SUBSET CondUsers /\ Owing \in SUBSET CondUsers
  BY MonitorAssumption DEF Awake, Owing
<1> QED
  BY <1>1, MonitorAssumption, FS_Subset, FS_CardinalityType

\* If nobody falls asleep and nobody forgets to signal, and no item is added,
\* everything stays announced.
LEMMA StillAnnounced ==
  ASSUME MonitorIInv, avail' = avail, queue' = queue, Awake \subseteq Awake', Owing' = Owing
  PROVE  EveryItemIsAnnounced'
<1>1. IsFiniteSet(Awake') /\ Cardinality(Awake') \in Nat
  <2>1. Awake' \in SUBSET CondUsers
    BY MonitorAssumption DEF Awake
  <2> QED
    BY <2>1, MonitorAssumption, FS_Subset, FS_CardinalityType
<1>2. Cardinality(Awake) <= Cardinality(Awake')
  BY <1>1, FS_Subset
<1>3. avail \in Nat
  BY MonitorAssumption DEF MonitorIInv, MTypeOK
<1> QED
  BY <1>1, <1>2, <1>3, CountsFinite DEF MonitorIInv, EveryItemIsAnnounced

---------------------------------------------------------------------------
(* cond: one lemma per action.                                             *)

\* A move of g that is neither into Wait nor out of the queue.
LEMMA QuietMove ==
  ASSUME MonitorIInv, NEW g \in CondUsers, NEW l \in {"idle", "locked", "blocked", "relocking"},
         condPc' = [condPc EXCEPT ![g] = l],
         L' \in CondUsers \cup {Nobody},
         UNCHANGED <<queue, closed, owes>>,
         avail' \in 0..MaxAvail,
         condPc[g] \in {"queued", "blocked"} => l = "blocked" \/ closed[g],
         l = "blocked" => condPc[g] = "queued"
  PROVE  MTypeOK' /\ QueueIsTheWaiters' /\ OnlyConsumersWait'
<1>1. MTypeOK'
  BY DEF MonitorIInv, MTypeOK, CondTypeOK
<1>2. \A h \in CondUsers : condPc'[h] = IF h = g THEN l ELSE condPc[h]
  BY DEF MonitorIInv, MTypeOK, CondTypeOK
<1>3. \A h \in CondUsers : (condPc'[h] \in {"queued", "blocked"} /\ ~closed[h])
                            <=> (condPc[h] \in {"queued", "blocked"} /\ ~closed[h])
  BY <1>2
<1>4. QueueIsTheWaiters'
  BY <1>3 DEF MonitorIInv, QueueIsTheWaiters
<1>5. OnlyConsumersWait'
  BY <1>2 DEF MonitorIInv, OnlyConsumersWait
<1> QED
  BY <1>1, <1>4, <1>5

\* The item and the consumer that takes it go together.
LEMMA TakeStep == ASSUME MonitorIInv, NEW g \in CondUsers, Take(g) PROVE MonitorIInv'
<1> USE DEF Take, UnlockL, CondGoto
<1>1. avail \in 0..MaxAvail /\ avail > 0 /\ avail' = avail - 1 /\ MaxAvail \in Nat
  BY MonitorAssumption DEF MonitorIInv, MTypeOK
<1>2. MTypeOK' /\ QueueIsTheWaiters' /\ OnlyConsumersWait'
  <2>1. /\ condPc[g] = "locked" /\ condPc' = [condPc EXCEPT ![g] = "idle"]
        /\ L' = Nobody /\ avail' \in 0..MaxAvail
        /\ UNCHANGED <<queue, closed, owes>>
    BY <1>1
  <2> QED
    BY <2>1, QuietMove
<1>3. g \in Awake /\ Awake' = Awake \ {g} /\ Owing' = Owing
  BY DEF MonitorIInv, MTypeOK, CondTypeOK, Awake, Owing
<1>4. Cardinality(Awake') = Cardinality(Awake) - 1
  BY <1>3, CountsFinite, FS_RemoveElement
<1> QED
  BY <1>1, <1>2, <1>3, <1>4, CountsFinite DEF MonitorIInv, EveryItemIsAnnounced

\* Nobody queues while there is an item.
LEMMA WaitStep == ASSUME MonitorIInv, NEW g \in CondUsers, WaitForItem(g) PROVE MonitorIInv'
<1> USE DEF WaitForItem, Enqueue, CondGoto
<1>1. g \notin ToSet(queue)
  BY DEF MonitorIInv, QueueIsTheWaiters
<1>2. /\ queue' \in Seq(CondUsers) /\ IsInjective(queue')
      /\ ToSet(queue') = ToSet(queue) \cup {g}
  BY <1>1, AppendWaiter DEF MonitorIInv, MTypeOK, CondTypeOK
<1>3. MTypeOK'
  BY <1>2 DEF MonitorIInv, MTypeOK, CondTypeOK
<1>4. condPc \in [CondUsers -> {"idle", "locked", "queued", "blocked", "relocking"}]
      /\ closed \in [CondUsers -> BOOLEAN]
  BY DEF MonitorIInv, MTypeOK, CondTypeOK
<1>5. \A h \in CondUsers : condPc'[h] = IF h = g THEN "queued" ELSE condPc[h]
  BY <1>4
<1>6. ~closed'[g]
  BY <1>4
<1>7. \A h \in CondUsers : h # g => closed'[h] = closed[h]
  BY <1>4
<1>8. QueueIsTheWaiters'
  <2>1. ToSet(queue) = {h \in CondUsers : condPc[h] \in {"queued", "blocked"} /\ ~closed[h]}
    BY DEF MonitorIInv, QueueIsTheWaiters
  <2>2. \A h \in CondUsers : h \in ToSet(queue') <=> (condPc'[h] \in {"queued", "blocked"} /\ ~closed'[h])
    <3> TAKE h \in CondUsers
    <3>1. CASE h = g
      BY <1>2, <1>5, <1>6, <3>1
    <3>2. CASE h # g
      BY <1>2, <1>5, <1>7, <2>1, <3>2
    <3> QED
      BY <3>1, <3>2
  <2>3. ToSet(queue') \subseteq CondUsers
    BY <1>2, <2>1
  <2> QED
    BY <2>2, <2>3, Zenon DEF QueueIsTheWaiters
<1>9. OnlyConsumersWait'
  BY <1>5 DEF MonitorIInv, OnlyConsumersWait
<1>10. EveryItemIsAnnounced'
  <2>1. Awake' \in SUBSET CondUsers /\ Owing' \in SUBSET CondUsers
    BY MonitorAssumption DEF Awake, Owing
  <2>2. Cardinality(Awake') \in Nat /\ Cardinality(Owing') \in Nat
    BY <2>1, MonitorAssumption, FS_Subset, FS_CardinalityType
  <2> QED
    BY <2>2 DEF EveryItemIsAnnounced
<1> QED
  BY <1>3, <1>8, <1>9, <1>10 DEF MonitorIInv

\* Whoever adds an item owes a signal for it.
LEMMA PutStep == ASSUME MonitorIInv, NEW g \in CondUsers, Put(g) PROVE MonitorIInv'
<1> USE DEF Put, condVars
<1>1. avail \in 0..MaxAvail /\ avail < MaxAvail /\ avail' = avail + 1 /\ MaxAvail \in Nat
  BY MonitorAssumption DEF MonitorIInv, MTypeOK
<1>2. MTypeOK' /\ QueueIsTheWaiters' /\ OnlyConsumersWait'
  BY <1>1 DEF MonitorIInv, MTypeOK, CondTypeOK, QueueIsTheWaiters, OnlyConsumersWait
<1>3. g \notin Owing /\ Owing' = Owing \cup {g} /\ Awake' = Awake
  BY DEF MonitorIInv, MTypeOK, Awake, Owing, Put
<1>4. Cardinality(Owing') = Cardinality(Owing) + 1
  BY <1>3, CountsFinite, FS_AddElement
<1> QED
  BY <1>1, <1>2, <1>3, <1>4, CountsFinite DEF MonitorIInv, EveryItemIsAnnounced

\* The front of the queue awakes in exchange for the signal owed.
LEMMA SignalStep ==
  ASSUME MonitorIInv, NEW g \in CondUsers, owes[g], Signal,
         owes' = [owes EXCEPT ![g] = FALSE], avail' = avail
  PROVE  MonitorIInv'
<1> DEFINE h == Head(queue)
<1> USE DEF Signal, PopFront
<1>1. queue \in Seq(CondUsers) /\ IsInjective(queue) /\ queue # << >>
  BY DEF MonitorIInv, MTypeOK, CondTypeOK
<1>2. /\ h \in ToSet(queue) /\ h \in CondUsers
      /\ queue' \in Seq(CondUsers) /\ IsInjective(queue')
      /\ ToSet(queue') = ToSet(queue) \ {h}
  BY <1>1, DropWaiter
<1> HIDE DEF h
<1>3. closed' = [closed EXCEPT ![h] = TRUE] /\ UNCHANGED <<L, condPc>>
  BY DEF h
<1>4. MTypeOK'
  BY <1>2, <1>3 DEF MonitorIInv, MTypeOK, CondTypeOK
<1>5. \A i \in CondUsers : closed'[i] = IF i = h THEN TRUE ELSE closed[i]
  BY <1>3 DEF MonitorIInv, MTypeOK, CondTypeOK
<1>6. QueueIsTheWaiters'
  BY <1>2, <1>3, <1>5 DEF MonitorIInv, QueueIsTheWaiters
<1>7. OnlyConsumersWait'
  BY <1>3 DEF MonitorIInv, OnlyConsumersWait
<1>8. condPc[h] \in {"queued", "blocked"} /\ ~closed[h] /\ h \in Consumers
  BY <1>2 DEF MonitorIInv, QueueIsTheWaiters, OnlyConsumersWait
<1>9. h \notin Awake /\ Awake' = Awake \cup {h}
  BY <1>3, <1>5, <1>8, MonitorAssumption DEF Awake
<1>10. Cardinality(Awake') = Cardinality(Awake) + 1
  BY <1>9, CountsFinite, FS_AddElement
<1>11. Cardinality(Owing') >= Cardinality(Owing) - 1 /\ Cardinality(Owing') \in Nat
  <2>1. CASE g \in Owing
    <3>1. Owing' = Owing \ {g}
      BY DEF MonitorIInv, MTypeOK, Owing
    <3>2. IsFiniteSet(Owing') /\ Cardinality(Owing') = Cardinality(Owing) - 1
      BY <2>1, <3>1, CountsFinite, FS_RemoveElement
    <3>3. Cardinality(Owing') \in Nat
      BY <3>2, FS_CardinalityType
    <3> QED
      BY <3>2, <3>3, CountsFinite
  <2>2. CASE g \notin Owing
    <3>1. Owing' = Owing
      BY <2>2 DEF MonitorIInv, MTypeOK, Owing
    <3> QED
      BY <3>1, CountsFinite
  <2> QED
    BY <2>1, <2>2
<1>12. EveryItemIsAnnounced'
  BY <1>1, <1>10, <1>11, CountsFinite, MonitorAssumption
  DEF MonitorIInv, MTypeOK, EveryItemIsAnnounced
<1> QED
  BY <1>4, <1>6, <1>7, <1>12 DEF MonitorIInv

\* Nothing is owed to an empty queue.
LEMMA EmptyingStep ==
  ASSUME MonitorIInv, NEW g \in CondUsers, owes' = [owes EXCEPT ![g] = FALSE], avail' = avail,
         UNCHANGED <<L, condPc>>, queue' = << >>,
         closed' = [h \in CondUsers |-> closed[h] \/ h \in ToSet(queue)]
  PROVE  MonitorIInv'
<1>1. MTypeOK'
  BY EmptyQueue DEF MonitorIInv, MTypeOK, CondTypeOK
<1>2. \A h \in CondUsers : condPc[h] \in {"queued", "blocked"} => closed'[h]
  BY DEF MonitorIInv, QueueIsTheWaiters
<1>3. QueueIsTheWaiters' /\ OnlyConsumersWait'
  BY <1>2, EmptyQueue DEF MonitorIInv, QueueIsTheWaiters, OnlyConsumersWait
<1> QED
  BY <1>1, <1>3 DEF MonitorIInv, EveryItemIsAnnounced

\* A signal to an empty queue is no signal; the others are above.
LEMMA TellStep == ASSUME MonitorIInv, NEW g \in CondUsers, Tell(g) PROVE MonitorIInv'
<1>1. owes[g] /\ owes' = [owes EXCEPT ![g] = FALSE] /\ avail' = avail
  BY DEF Tell
<1>2. CASE queue = << >>
  <2>1. UNCHANGED <<L, queue, closed, condPc>>
    BY <1>2 DEF Tell, condVars
  <2>2. closed' = [h \in CondUsers |-> closed[h] \/ h \in ToSet(queue)]
    BY <1>2, <2>1, EmptyQueue DEF MonitorIInv, MTypeOK, CondTypeOK
  <2> QED
    BY <1>1, <1>2, <2>1, <2>2, EmptyingStep
<1>3. CASE Signal
  BY <1>1, <1>3, SignalStep
<1>4. CASE Broadcast
  <2>1. closed' = [h \in CondUsers |-> closed[h] \/ h \in ToSet(queue)]
    BY <1>4, ContainsIsMember DEF Broadcast, MonitorIInv, MTypeOK, CondTypeOK
  <2> QED
    BY <1>1, <1>4, <2>1, EmptyingStep DEF Broadcast
<1> QED
  BY <1>2, <1>3, <1>4 DEF Tell

\* The rest moves a goroutine and leaves everything announced.
LEMMA PassingStep == ASSUME MonitorIInv, NEW g \in CondUsers, Passing(g) PROVE MonitorIInv'
<1>1. UNCHANGED <<queue, closed, avail, owes>> /\ avail' \in 0..MaxAvail
  BY DEF Passing, LockL, UnlockL, WaitUnlocks, WakesUp, Relock, MonitorIInv, MTypeOK
<1>2. L' \in CondUsers \cup {Nobody}
  BY DEF Passing, LockL, UnlockL, WaitUnlocks, WakesUp, Relock, MonitorIInv, MTypeOK, CondTypeOK
<1>3. PICK l \in {"idle", "locked", "blocked", "relocking"} :
        /\ condPc' = [condPc EXCEPT ![g] = l]
        /\ \/ condPc[g] = "idle" /\ l = "locked"
           \/ g \in Producers /\ condPc[g] = "locked" /\ l = "idle"
           \/ condPc[g] = "queued" /\ l = "blocked"
           \/ condPc[g] = "blocked" /\ closed[g] /\ l = "relocking"
           \/ condPc[g] = "relocking" /\ l = "locked"
  BY DEF Passing, LockL, UnlockL, WaitUnlocks, WakesUp, Relock, CondGoto
<1>4. MTypeOK' /\ QueueIsTheWaiters' /\ OnlyConsumersWait'
  BY <1>1, <1>2, <1>3, QuietMove
<1>5. Awake \subseteq Awake'
  <2>1. \A h \in CondUsers : condPc'[h] = IF h = g THEN l ELSE condPc[h]
    BY <1>3 DEF MonitorIInv, MTypeOK, CondTypeOK
  <2> QED
    BY <1>1, <1>3, <2>1, MonitorAssumption DEF Awake
<1>6. Owing' = Owing
  BY <1>1 DEF Owing
<1> QED
  BY <1>1, <1>4, <1>5, <1>6, StillAnnounced DEF MonitorIInv

---------------------------------------------------------------------------
(* cond: the theorems.                                                     *)

\* The invariant holds throughout, whoever signals and with or without L.
THEOREM MonitorInvariance == MSpec => []MonitorIInv
<1>1. MInit => MonitorIInv
  BY EmptyQueue, MonitorAssumption
  DEF MInit, CondInit, MonitorIInv, MTypeOK, CondTypeOK, QueueIsTheWaiters, OnlyConsumersWait,
      EveryItemIsAnnounced
<1>2. MonitorIInv /\ [MNext]_mvars => MonitorIInv'
  <2> SUFFICES ASSUME MonitorIInv, [MNext]_mvars PROVE MonitorIInv'
    OBVIOUS
  <2>1. CASE UNCHANGED mvars
    BY <2>1 DEF mvars, condVars, MonitorIInv, MTypeOK, CondTypeOK, QueueIsTheWaiters, OnlyConsumersWait,
                EveryItemIsAnnounced, Awake, Owing
  <2>2. CASE MNext
    BY <2>2, TakeStep, WaitStep, PutStep, TellStep, PassingStep DEF MNext
  <2> QED
    BY <2>1, <2>2
<1> QED
  BY <1>1, <1>2, PTL DEF MSpec

\* An item is never taken twice, and nobody stands in the queue twice.
THEOREM MonitorTypeCorrect == MSpec => []MTypeOK
BY MonitorInvariance, PTL DEF MonitorIInv

\* The queue holds exactly those who wait and are not woken (cond.go:48-92).
THEOREM QueueExact == MSpec => []QueueIsTheWaiters
BY MonitorInvariance, PTL DEF MonitorIInv

\* No wake-up is lost between the look at the condition and the sleep.
THEOREM NoWakeUpLost == MSpec => []EveryItemIsAnnounced
BY MonitorInvariance, PTL DEF MonitorIInv

\* Queue and items tell the same story, as the run checks it (cond.go:48-92).
THEOREM MonitorSafe == MSpec => []MonitorInv
<1>1. MonitorIInv => MonitorInv
  BY DEF MonitorIInv, MonitorInv
<1> QED
  BY MonitorInvariance, <1>1, PTL
=============================================================================
