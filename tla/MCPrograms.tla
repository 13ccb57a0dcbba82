----------------------------- MODULE MCPrograms -----------------------------
(* TLC instance of the services, the algorithms and the bus: when no service *)
(* runs, a behaviour is one of an algorithm, or of pubsub.                   *)
EXTENDS MCServices, MCAlgorithms, PubSub

ProgramsInit == /\ ServicesInit
                /\ \/ component = "none" /\ AlgorithmsInit
                   \/ calc = NoCall /\ ForthInit
                /\ Init

\* The bus is used where nothing else is.
ProgramsNext == \/ ServicesNext /\ UNCHANGED <<algorithmsVars, vars>>
                \/ AlgorithmsNext /\ UNCHANGED <<servicesVars, vars>>
                \/ component = "none" /\ calc = NoCall /\ Next /\ UNCHANGED <<servicesVars, algorithmsVars>>

ProgramsSpec == ProgramsInit /\ [][ProgramsNext]_<<servicesVars, algorithmsVars, vars>>
=============================================================================
