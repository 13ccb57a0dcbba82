------------------------------- MODULE Once -------------------------------
(***************************************************************************)
(* once/once.go: the first Do fills the one-place channel first, calls f   *)
(* and closes locked when f is over, by return or by panic; every other Do *)
(* waits for locked.                                                       *)
(***************************************************************************)
EXTENDS Integers, FiniteSets

CONSTANT OnceUsers

VARIABLES first,    \* the channel first is full
          locked,   \* how often the channel locked was closed
          oncePc

onceVars == <<first, locked, oncePc>>

OnceTypeOK == /\ first \in BOOLEAN
              /\ locked \in 0..1            \* a second close would panic
              /\ oncePc \in [OnceUsers -> {"start", "calling", "waiting", "returned", "panicked"}]

OnceInit == /\ first = FALSE
            /\ locked = 0
            /\ oncePc = [g \in OnceUsers |-> "start"]

OnceGoto(g, label) == oncePc' = [oncePc EXCEPT ![g] = label]

\* mutant: first is filled when f is over
CallWithoutMark(g) == /\ oncePc[g] = "start"
                      /\ ~first
                      /\ OnceGoto(g, "calling")
                      /\ UNCHANGED <<first, locked>>

\* mutant: locked is closed before f
CallUnlocked(g) == /\ oncePc[g] = "start"
                   /\ ~first
                   /\ first' = TRUE
                   /\ locked' = locked + 1
                   /\ OnceGoto(g, "calling")

CallF(g) == /\ oncePc[g] = "start"
            /\ ~first
            /\ first' = TRUE
            /\ OnceGoto(g, "calling")
            /\ UNCHANGED locked

\* The default branch of the select.
Follow(g) == /\ oncePc[g] = "start"
             /\ first
             /\ OnceGoto(g, "waiting")
             /\ UNCHANGED <<first, locked>>

FReturns(g) == /\ oncePc[g] = "calling"
               /\ locked' = locked + 1
               /\ OnceGoto(g, "returned")
               /\ UNCHANGED first

\* mutant: locked is not closed by a defer
PanicSkipsClose(g) == /\ oncePc[g] = "calling"
                      /\ OnceGoto(g, "panicked")
                      /\ UNCHANGED <<first, locked>>

FPanics(g) == /\ oncePc[g] = "calling"
              /\ locked' = locked + 1
              /\ OnceGoto(g, "panicked")
              /\ UNCHANGED first

OnceReturns(g) == /\ oncePc[g] = "waiting"
             /\ locked > 0
             /\ OnceGoto(g, "returned")
             /\ UNCHANGED <<first, locked>>

OnceNext == \E g \in OnceUsers :
          CallF(g) \/ Follow(g) \/ FReturns(g) \/ FPanics(g) \/ OnceReturns(g)

OnceSpec == OnceInit /\ [][OnceNext]_onceVars

\* f returns or panics in the end, and a goroutine in Do goes on when it can.
OnceFairness == \A g \in OnceUsers : /\ WF_onceVars(CallF(g) \/ Follow(g))
                                     /\ WF_onceVars(FReturns(g) \/ FPanics(g))
                                     /\ WF_onceVars(OnceReturns(g))

OnceLiveSpec == OnceSpec /\ OnceFairness

---------------------------------------------------------------------------
(* Properties                                                              *)

\* No Do is over, for whatever reason, while f runs, and f runs in one
\* goroutine (once.go:28-32).
NoReturnDuringF ==
  \A g \in OnceUsers : oncePc[g] = "calling" =>
    \A h \in OnceUsers \ {g} : oncePc[h] \in {"start", "waiting"}

\* Once f is over, it is never called again (once.go:21).
CalledOnce ==
  [][\A g \in OnceUsers : locked > 0 /\ oncePc[g] # "calling" => oncePc'[g] # "calling"]_onceVars

\* Every Do comes to an end, also when f panics (once.go:31).
EveryDoEnds == \A g \in OnceUsers : oncePc[g] = "start" ~> oncePc[g] \in {"returned", "panicked"}
=============================================================================
