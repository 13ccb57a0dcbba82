----------------------------- MODULE MCDelivery -----------------------------
(* TLC instance of the two programs that hand results on: batcher to all who *)
(* wait for a reading, pubsub to a slow subscriber.  One of them is used in  *)
(* each behaviour, the other stays as it begins, where no step of it is      *)
(* called for.                                                               *)
EXTENDS Batcher, PubSub

VARIABLE giver   \* the one that is used

DeliveryInit == giver \in {"batcher", "pubsub"} /\ BatcherInit /\ Init

DeliveryNext == /\ UNCHANGED giver
                /\ \/ giver = "batcher" /\ BatcherNext /\ UNCHANGED vars
                   \/ giver = "pubsub" /\ Next /\ UNCHANGED batcherVars

DeliverySpec == DeliveryInit /\ [][DeliveryNext]_<<giver, batcherVars, vars>> /\ BatcherFairness /\ Fairness
=============================================================================
