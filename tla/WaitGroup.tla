----------------------------- MODULE WaitGroup -----------------------------
(***************************************************************************)
(* waitgroup/waitgroup.go: a reusable counter to wait for.  Every section  *)
(* under the mutexed channel is one step.  Wait blocks on the channel it   *)
(* found in waitBlocker; the Done that reaches zero closes that channel,   *)
(* and the next Add makes a new one.                                       *)
(*                                                                         *)
(* Channels have no names here: a goroutine in Wait knows whether its own  *)
(* channel is open (then it is the one in waitBlocker) or closed.  A       *)
(* negative counter is a panic, which ends the program.                    *)
(***************************************************************************)
EXTENDS Integers

CONSTANTS WgUsers,
          Deltas,    \* the arguments of Add
          MaxCnt     \* bound on the counter

ASSUME WaitGroupAssumption == Deltas \subseteq Int /\ MaxCnt \in Nat \ {0}

VARIABLES wgCnt,       \* cnt
          waitClosed,  \* the channel in waitBlocker is closed
          ownChan      \* ownChan[g]: the channel that Wait of g blocks on

wgVars == <<wgCnt, waitClosed, ownChan>>

\* waitBlocker is closed only at zero: Done never closes it twice (a panic
\* inside the section), and no Wait finds it closed while there is something
\* to wait for (waitgroup.go:47-51, 73-75).
WgTypeOK == /\ wgCnt \in (-MaxCnt) .. MaxCnt
            /\ waitClosed \in BOOLEAN
            /\ ownChan \in [WgUsers -> {"none", "open", "closed"}]
            /\ waitClosed => wgCnt <= 0

WgInit == /\ wgCnt = 0
          /\ waitClosed = FALSE
          /\ ownChan = [g \in WgUsers |-> "none"]

WgRunning(g) == wgCnt >= 0 /\ ownChan[g] = "none"

\* A closed waitBlocker is replaced, unless the counter went negative.
Add(g, d) == /\ WgRunning(g)
             /\ wgCnt' = wgCnt + d
             /\ waitClosed' = (waitClosed /\ wgCnt + d < 0)
             /\ UNCHANGED ownChan

\* mutant: one goroutine left is taken for none
DoneEarly(g) == /\ WgRunning(g)
                /\ wgCnt' = wgCnt - 1
                /\ IF wgCnt = 2
                   THEN /\ waitClosed' = TRUE
                        /\ ownChan' = [h \in WgUsers |->
                             IF ownChan[h] = "open" THEN "closed" ELSE ownChan[h]]
                   ELSE UNCHANGED <<waitClosed, ownChan>>

Done(g) == /\ WgRunning(g)
           /\ wgCnt' = wgCnt - 1
           /\ IF wgCnt = 1
              THEN /\ waitClosed' = TRUE
                   /\ ownChan' = [h \in WgUsers |->
                        IF ownChan[h] = "open" THEN "closed" ELSE ownChan[h]]
              ELSE UNCHANGED <<waitClosed, ownChan>>

\* A Wait that finds the counter at zero returns at once.
Wait(g) == /\ WgRunning(g)
           /\ wgCnt # 0
           /\ ownChan' = [ownChan EXCEPT ![g] = IF waitClosed THEN "closed" ELSE "open"]
           /\ UNCHANGED <<wgCnt, waitClosed>>

WaitReturns(g) == /\ wgCnt >= 0
                  /\ ownChan[g] = "closed"
                  /\ ownChan' = [ownChan EXCEPT ![g] = "none"]
                  /\ UNCHANGED <<wgCnt, waitClosed>>

WgNext == \E g \in WgUsers : \/ \E d \in Deltas : wgCnt + d <= MaxCnt /\ Add(g, d)
                             \/ Done(g)
                             \/ Wait(g)
                             \/ WaitReturns(g)

WgSpec == WgInit /\ [][WgNext]_wgVars

---------------------------------------------------------------------------
(* Properties                                                              *)

\* A goroutine is released only by the counter reaching zero, however the
\* group is reused (waitgroup.go:78).
ReleasedOnlyAtZero ==
  [][\A g \in WgUsers : ownChan[g] # "closed" /\ ownChan'[g] = "closed" => wgCnt' = 0]_wgVars

\* "If the counter becomes zero, all goroutines blocked on Wait are released"
\* (waitgroup.go:23).
NobodyStrandedAtZero == wgCnt = 0 => \A g \in WgUsers : ownChan[g] # "open"
=============================================================================
