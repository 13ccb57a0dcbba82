------------------------------ MODULE RWMutex ------------------------------
(***************************************************************************)
(* rwmutex/rwmutex.go: a readers-writer lock out of two one-place channels *)
(* used as mutexes.  mutRead guards the reader count; mutWrite is held by  *)
(* a writer, or by all readers together: the first of them takes it while  *)
(* holding mutRead, and the last one, often another goroutine, frees it.   *)
(***************************************************************************)
EXTENDS Integers, FiniteSets

CONSTANTS Goroutines, Free

ASSUME RWMutexAssumption == /\ IsFiniteSet(Goroutines)
                            /\ Free \notin Goroutines

VARIABLES mutRead,    \* the goroutine that holds mutRead, or Free
          mutWrite,   \* TRUE while the channel of mutWrite is full
          cnt,
          pc

vars == <<mutRead, mutWrite, cnt, pc>>

PCs == {"idle", "rlock", "firstReader", "reading", "runlock", "lock", "writing"}

TypeOK == /\ mutRead \in Goroutines \cup {Free}
          /\ mutWrite \in BOOLEAN
          /\ cnt \in Nat
          /\ pc \in [Goroutines -> PCs]

Init == /\ mutRead = Free
        /\ mutWrite = FALSE
        /\ cnt = 0
        /\ pc = [g \in Goroutines |-> "idle"]

Goto(g, label) == pc' = [pc EXCEPT ![g] = label]

---------------------------------------------------------------------------
CallRLock(g) == /\ pc[g] = "idle"
                /\ Goto(g, "rlock")
                /\ UNCHANGED <<mutRead, mutWrite, cnt>>

\* rw.cnt becomes 1: mutRead is kept until mutWrite is taken.
RLockFirst(g) == /\ pc[g] = "rlock"
                 /\ mutRead = Free
                 /\ cnt = 0
                 /\ mutRead' = g
                 /\ cnt' = 1
                 /\ Goto(g, "firstReader")
                 /\ UNCHANGED mutWrite

\* mutant: mutRead is not unlocked
FirstKeepsRead(g) == /\ pc[g] = "firstReader"
                     /\ ~mutWrite
                     /\ mutWrite' = TRUE
                     /\ Goto(g, "reading")
                     /\ UNCHANGED <<mutRead, cnt>>

FirstTakesWrite(g) == /\ pc[g] = "firstReader"
                      /\ ~mutWrite
                      /\ mutWrite' = TRUE
                      /\ mutRead' = Free
                      /\ Goto(g, "reading")
                      /\ UNCHANGED cnt

\* mutant: only the first reader is counted
RLockUncounted(g) == /\ pc[g] = "rlock"
                     /\ mutRead = Free
                     /\ cnt # 0
                     /\ Goto(g, "reading")
                     /\ UNCHANGED <<mutRead, mutWrite, cnt>>

RLockNext(g) == /\ pc[g] = "rlock"
                /\ mutRead = Free
                /\ cnt # 0
                /\ cnt' = cnt + 1
                /\ Goto(g, "reading")
                /\ UNCHANGED <<mutRead, mutWrite>>

CallRUnlock(g) == /\ pc[g] = "reading"
                  /\ Goto(g, "runlock")
                  /\ UNCHANGED <<mutRead, mutWrite, cnt>>

\* mutant: every reader frees mutWrite
RUnlockEach(g) == /\ pc[g] = "runlock"
                  /\ mutRead = Free
                  /\ cnt' = cnt - 1
                  /\ mutWrite' = FALSE
                  /\ Goto(g, "idle")
                  /\ UNCHANGED mutRead

\* The receive that frees mutWrite would block if the channel were empty.
RUnlock(g) == /\ pc[g] = "runlock"
              /\ mutRead = Free
              /\ cnt' = cnt - 1
              /\ IF cnt = 1 THEN mutWrite /\ mutWrite' = FALSE ELSE UNCHANGED mutWrite
              /\ Goto(g, "idle")
              /\ UNCHANGED mutRead

---------------------------------------------------------------------------
CallLock(g) == /\ pc[g] = "idle"
               /\ Goto(g, "lock")
               /\ UNCHANGED <<mutRead, mutWrite, cnt>>

Lock(g) == /\ pc[g] = "lock"
           /\ ~mutWrite
           /\ mutWrite' = TRUE
           /\ Goto(g, "writing")
           /\ UNCHANGED <<mutRead, cnt>>

Unlock(g) == /\ pc[g] = "writing"
             /\ mutWrite
             /\ mutWrite' = FALSE
             /\ Goto(g, "idle")
             /\ UNCHANGED <<mutRead, cnt>>

---------------------------------------------------------------------------
RLock(g) == RLockFirst(g) \/ FirstTakesWrite(g) \/ RLockNext(g)

Next == \E g \in Goroutines : \/ CallRLock(g) \/ RLock(g) \/ CallRUnlock(g) \/ RUnlock(g)
                              \/ CallLock(g) \/ Lock(g) \/ Unlock(g)

Spec == Init /\ [][Next]_vars

(***************************************************************************)
(* Go queues the senders blocked on a channel in order, so a goroutine     *)
(* that waits to fill mutRead or mutWrite is served if the channel is      *)
(* emptied again and again: strong fairness.  (A goroutine waits for one   *)
(* channel at a time, so one condition covers all of them.)  Whoever got   *)
(* the lock gives it back.  Nobody has to ask for it.                      *)
(***************************************************************************)
Blocking(g) == RLock(g) \/ RUnlock(g) \/ Lock(g)

Fairness == \A g \in Goroutines : /\ SF_vars(Blocking(g))
                                  /\ WF_vars(CallRUnlock(g) \/ Unlock(g))

LiveSpec == Spec /\ Fairness

---------------------------------------------------------------------------
(* Properties                                                              *)

Readers == {g \in Goroutines : pc[g] \in {"reading", "runlock"}}
Writers == {g \in Goroutines : pc[g] = "writing"}

\* While somebody writes nobody else writes or reads (rwmutex.go:6).
Exclusion == \A w \in Writers : Writers = {w} /\ Readers = {}

\* cnt is the number of readers that hold the lock or are about to get it
\* (rwmutex.go:49-69); the other properties rest on it.
CountExact ==
  cnt = Cardinality({g \in Goroutines : pc[g] \in {"firstReader", "reading", "runlock"}})

\* The last reader out finds mutWrite taken, whoever took it, so RUnlock does
\* not block with mutRead held (rwmutex.go:65-67).
LastReaderCanLeave == Readers # {} => mutWrite

\* The two together: nobody is let in beside a writer, and nobody is stuck on
\* the way out (rwmutex.go:49-81).
RWInv == TypeOK /\ Exclusion /\ LastReaderCanLeave

\* Every RLock gets the lock as long as those who have it give it back.
RLockReturns == \A g \in Goroutines : pc[g] \in {"rlock", "firstReader"} ~> pc[g] = "reading"

\* Every RUnlock returns, although it waits for mutRead.
RUnlockReturns == \A g \in Goroutines : pc[g] = "runlock" ~> pc[g] = "idle"

\* Neither end of a reader's section hangs: a first reader that waits for the
\* writer with mutRead held keeps nobody from leaving (rwmutex.go:49-69).
ReadersGoOn == RLockReturns /\ RUnlockReturns

\* "the lock eventually becomes available; a blocked Lock call excludes new
\* readers" (rwmutex.go:12-14).
LockReturns == \A g \in Goroutines : pc[g] = "lock" ~> pc[g] = "writing"
=============================================================================
