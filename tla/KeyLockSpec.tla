---------------------------- MODULE KeyLockSpec ----------------------------
(***************************************************************************)
(* What keylock promises, without its queues: a goroutine asks for a set   *)
(* of keys, is granted all of them at once while nobody else has any of    *)
(* them, or withdraws its request, and later releases everything.          *)
(***************************************************************************)
CONSTANTS Goroutines, Keys

VARIABLES phase,   \* phase[g]: what goroutine g is doing
          want     \* want[g]: the keys of its request

vars == <<phase, want>>

Init == /\ phase = [g \in Goroutines |-> "idle"]
        /\ want = [g \in Goroutines |-> {}]

Ask(g, K) == /\ phase[g] = "idle"
             /\ phase' = [phase EXCEPT ![g] = "asked"]
             /\ want' = [want EXCEPT ![g] = K]

\* The keys of g's request are in nobody else's hands.
Available(g) ==
  \A h \in Goroutines : phase[h] = "granted" => want[h] \cap want[g] = {}

Grant(g) == /\ phase[g] = "asked"
            /\ Available(g)
            /\ phase' = [phase EXCEPT ![g] = "granted"]
            /\ UNCHANGED want

\* A request is withdrawn, or everything granted is given back.
Leave(g) == /\ phase[g] \in {"asked", "granted"}
            /\ phase' = [phase EXCEPT ![g] = "idle"]
            /\ want' = [want EXCEPT ![g] = {}]

Next == \E g \in Goroutines : \/ \E K \in SUBSET Keys : Ask(g, K)
                              \/ Grant(g)
                              \/ Leave(g)

Spec == Init /\ [][Next]_vars

\* A request whose keys stay free does not stay ungranted.
LiveSpec == Spec /\ \A g \in Goroutines : WF_vars(Grant(g))
=============================================================================
