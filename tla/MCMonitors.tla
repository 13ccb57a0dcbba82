----------------------------- MODULE MCMonitors -----------------------------
(* TLC instance of the readers-writer lock and the condition variable: one of *)
(* them is used in each behaviour, the other stays as it begins, where no     *)
(* step of it is called for.                                                  *)
EXTENDS RWMutex, CondMonitor

VARIABLE monitor   \* the one that is used

MonitorsInit == monitor \in {"rwmutex", "cond"} /\ Init /\ MInit

MonitorsNext == /\ UNCHANGED monitor
                /\ \/ monitor = "rwmutex" /\ Next /\ UNCHANGED mvars
                   \/ monitor = "cond" /\ MNext /\ UNCHANGED vars

MonitorsSpec == MonitorsInit /\ [][MonitorsNext]_<<monitor, vars, mvars>> /\ Fairness /\ MFairness
=============================================================================
