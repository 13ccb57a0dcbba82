---------------------------- MODULE CondMonitor ----------------------------
(***************************************************************************)
(* The use of Cond that cond/cond.go documents and cond_test.go exercises: *)
(* a consumer calls Wait in a loop until its condition holds, a producer   *)
(* changes the condition under L and calls Signal or Broadcast, before or  *)
(* after unlocking L.  The condition is that some item is available.       *)
(***************************************************************************)
EXTENDS Cond, FiniteSets

CONSTANTS Consumers, Producers,
          MaxAvail    \* bound on the items

ASSUME MonitorAssumption ==
  /\ CondUsers = Consumers \cup Producers /\ Consumers \cap Producers = {}
  /\ IsFiniteSet(CondUsers) /\ Nobody \notin CondUsers
  /\ MaxAvail \in Nat

VARIABLES avail,   \* items available
          owes     \* owes[g]: g has added an item and not signalled yet

mvars == <<condVars, avail, owes>>

MInit == /\ CondInit
         /\ avail = 0
         /\ owes = [g \in CondUsers |-> FALSE]

MTypeOK == /\ CondTypeOK
           /\ avail \in 0..MaxAvail
           /\ owes \in [CondUsers -> BOOLEAN]

\* mutant: Wait under an if in place of a loop
TakeUnchecked(c) == /\ c \in Consumers
                    /\ UnlockL(c)
                    /\ avail' = avail - 1
                    /\ UNCHANGED owes

Take(c) == /\ c \in Consumers
           /\ avail > 0
           /\ UnlockL(c)
           /\ avail' = avail - 1
           /\ UNCHANGED owes

\* mutant: the condition is not looked at before Wait
WaitUnchecked(c) == /\ c \in Consumers
                    /\ Enqueue(c)
                    /\ UNCHANGED <<avail, owes>>

WaitForItem(c) == /\ c \in Consumers
                  /\ avail = 0
                  /\ Enqueue(c)
                  /\ UNCHANGED <<avail, owes>>

Put(p) == /\ p \in Producers
          /\ condPc[p] = "locked"
          /\ ~owes[p]
          /\ avail < MaxAvail
          /\ avail' = avail + 1
          /\ owes' = [owes EXCEPT ![p] = TRUE]
          /\ UNCHANGED condVars

Tell(p) == /\ owes[p]
           /\ CanSignal(p)
           /\ IF queue = <<>> THEN UNCHANGED condVars ELSE Signal \/ Broadcast
           /\ owes' = [owes EXCEPT ![p] = FALSE]
           /\ UNCHANGED avail

\* Taking L, leaving it, and the steps inside Wait.
Passing(g) == /\ \/ ~owes[g] /\ LockL(g)
                 \/ g \in Producers /\ UnlockL(g)
                 \/ WaitUnlocks(g) \/ WakesUp(g) \/ Relock(g)
              /\ UNCHANGED <<avail, owes>>

MNext == \E g \in CondUsers :
           Take(g) \/ WaitForItem(g) \/ Put(g) \/ Tell(g) \/ Passing(g)

MSpec == MInit /\ [][MNext]_mvars

\* L is fair to those who wait for it, which are consumers; Wait goes on, and
\* the holder of L gives it back; a producer that has added an item signals.
MFairness ==
  /\ \A c \in Consumers : /\ SF_mvars(Relock(c) /\ UNCHANGED <<avail, owes>>)
                          /\ WF_mvars((WaitUnlocks(c) \/ WakesUp(c)) /\ UNCHANGED <<avail, owes>>)
                          /\ WF_mvars(Take(c) \/ WaitForItem(c))
  /\ \A p \in Producers : WF_mvars(Tell(p)) /\ WF_mvars(UnlockL(p) /\ UNCHANGED <<avail, owes>>)

MLiveSpec == MSpec /\ MFairness

---------------------------------------------------------------------------
(* Properties                                                              *)

\* Consumers outside the queue that will look at the condition (again).
Awake == {c \in Consumers : \/ condPc[c] \in {"locked", "relocking"}
                            \/ condPc[c] \in {"queued", "blocked"} /\ closed[c]}

\* Producers that have added an item and will signal.
Owing == {p \in Producers : owes[p]}

\* While somebody is queued every available item has a goroutine on its way to
\* it: a producer that still signals, or a consumer that is awake.  A wake-up
\* between Wait's look at the condition and its sleep is not lost.
EveryItemIsAnnounced ==
  queue # <<>> => avail <= Cardinality(Awake) + Cardinality(Owing)

\* The queue of the condition and the items behind it tell the same story: who
\* waits is queued, and who is queued will hear of an item (cond.go:48-92).
MonitorInv == MTypeOK /\ QueueIsTheWaiters /\ EveryItemIsAnnounced

\* A consumer does not sleep on while there are items.
NoSleepOnItems ==
  \A c \in Consumers : (condPc[c] = "blocked" /\ avail > 0) ~> (condPc[c] # "blocked" \/ avail = 0)
=============================================================================
