------------------------------- MODULE Cond -------------------------------
(***************************************************************************)
(* cond/cond.go: a condition variable out of a queue of channels.  Wait    *)
(* queues a new channel, unlocks L, blocks on the channel and locks L      *)
(* again.  Signal closes the channel in front, Broadcast all of them.  A   *)
(* section under the mutexed channel is one step.                          *)
(*                                                                         *)
(* A goroutine stands for the channel of its current Wait.  L is a Locker  *)
(* of the caller, held by one goroutine at a time.                         *)
(***************************************************************************)
EXTENDS Integers, Sequences, SequencesExt

CONSTANTS CondUsers, Nobody

VARIABLES L,        \* the goroutine that holds c.L, or Nobody
          queue,
          closed,   \* closed[g]: the channel of g's Wait is closed
          condPc

condVars == <<L, queue, closed, condPc>>

CondTypeOK == /\ L \in CondUsers \cup {Nobody}
              /\ queue \in Seq(CondUsers) /\ IsInjective(queue)
              /\ closed \in [CondUsers -> BOOLEAN]
              /\ condPc \in [CondUsers -> {"idle", "locked", "queued", "blocked", "relocking"}]

CondInit == /\ L = Nobody
            /\ queue = <<>>
            /\ closed = [g \in CondUsers |-> FALSE]
            /\ condPc = [g \in CondUsers |-> "idle"]

CondGoto(g, label) == condPc' = [condPc EXCEPT ![g] = label]

---------------------------------------------------------------------------
(* The caller's use of L.                                                  *)

LockL(g) == /\ condPc[g] = "idle"
            /\ L = Nobody
            /\ L' = g
            /\ CondGoto(g, "locked")
            /\ UNCHANGED <<queue, closed>>

UnlockL(g) == /\ condPc[g] = "locked"
              /\ L' = Nobody
              /\ CondGoto(g, "idle")
              /\ UNCHANGED <<queue, closed>>

---------------------------------------------------------------------------
(* Wait                                                                    *)

Enqueue(g) == /\ condPc[g] = "locked"
              /\ queue' = Append(queue, g)
              /\ closed' = [closed EXCEPT ![g] = FALSE]
              /\ CondGoto(g, "queued")
              /\ UNCHANGED L

WaitUnlocks(g) == /\ condPc[g] = "queued"
                  /\ L' = Nobody
                  /\ CondGoto(g, "blocked")
                  /\ UNCHANGED <<queue, closed>>

WakesUp(g) == /\ condPc[g] = "blocked"
              /\ closed[g]
              /\ CondGoto(g, "relocking")
              /\ UNCHANGED <<L, queue, closed>>

Relock(g) == /\ condPc[g] = "relocking"
             /\ L = Nobody
             /\ L' = g
             /\ CondGoto(g, "locked")
             /\ UNCHANGED <<queue, closed>>

---------------------------------------------------------------------------
(* Signal and Broadcast, with or without L.                                *)

\* mutant: the newest waiter is taken
PopBack == /\ queue' = Front(queue)
           /\ closed' = [closed EXCEPT ![Last(queue)] = TRUE]

\* mutant: the front is dropped and its channel stays open
DropFront == /\ queue' = Tail(queue)
             /\ UNCHANGED closed

PopFront == /\ queue' = Tail(queue)
            /\ closed' = [closed EXCEPT ![Head(queue)] = TRUE]

\* With an empty queue Signal and Broadcast do nothing.
Signal == /\ queue # <<>>
          /\ PopFront
          /\ UNCHANGED <<L, condPc>>

Broadcast == /\ queue # <<>>
             /\ closed' = [g \in CondUsers |-> closed[g] \/ Contains(queue, g)]
             /\ queue' = <<>>
             /\ UNCHANGED <<L, condPc>>

\* A goroutine calls them holding L or not.
CanSignal(g) == condPc[g] \in {"idle", "locked"}

---------------------------------------------------------------------------
(* Properties                                                              *)

\* A goroutine that has queued and is not woken is in the queue, in no other
\* place twice, and nobody else is: no signal is lost on a Wait that is over
\* and no waiter is out of reach (cond.go:48-76).
QueueIsTheWaiters ==
  ToSet(queue) = {g \in CondUsers : condPc[g] \in {"queued", "blocked"} /\ ~closed[g]}

\* If signals keep coming every waiter is served: the queue is first in, first
\* out (cond.go:72-75).
SignalsReachEverybody ==
  []<><<Signal>>_condVars => \A g \in CondUsers : condPc[g] = "blocked" ~> condPc[g] = "locked"
=============================================================================
