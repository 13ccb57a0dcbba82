--------------------------------- MODULE LRU --------------------------------
(***************************************************************************)
(* lrucache/lru.go: a map and a list of its keys, from the one whose use   *)
(* is longest ago.  The cache is used by one goroutine.                    *)
(***************************************************************************)
EXTENDS Integers, Sequences, FiniteSets, SequencesExt

CONSTANTS LruKeys, LruValues, MaxCap, MaxUses

ASSUME LruAssumption == MaxCap \in Nat

VARIABLES cap, queue, elements,
          uses      \* the uses since Clear: [key, value], the value it had then

lruVars == <<cap, queue, elements, uses>>

LruInit == /\ cap \in 0..MaxCap
           /\ queue = <<>> /\ elements = <<>> /\ uses = <<>>

MoveToBack(k) == \E i \in DOMAIN queue : queue[i] = k /\ queue' = Append(RemoveAt(queue, i), k)

\* mutant: reading is no use
LruGetInPlace(k) == /\ Len(uses) < MaxUses
                    /\ k \in DOMAIN elements
                    /\ uses' = Append(uses, [key |-> k, value |-> elements[k]])
                    /\ UNCHANGED <<cap, queue, elements>>

LruGet(k) == /\ Len(uses) < MaxUses
             /\ k \in DOMAIN elements /\ MoveToBack(k)
             /\ uses' = Append(uses, [key |-> k, value |-> elements[k]])
             /\ UNCHANGED <<cap, elements>>

\* The map with v under k, without the keys that were dropped.
Holding(k, v, dropped) ==
  [x \in (DOMAIN elements \ dropped) \union {k} |-> IF x = k THEN v ELSE elements[x]]

\* A full cache drops its front; with cap 0 nothing is kept.
LruSet(k, v) ==
  /\ Len(uses) < MaxUses /\ cap > 0
  /\ \/ k \in DOMAIN elements /\ MoveToBack(k) /\ elements' = Holding(k, v, {})
     \/ /\ k \notin DOMAIN elements /\ cap <= Len(queue)
        /\ queue' = Append(Tail(queue), k) /\ elements' = Holding(k, v, {Head(queue)})
     \/ /\ k \notin DOMAIN elements /\ cap > Len(queue)
        /\ queue' = Append(queue, k) /\ elements' = Holding(k, v, {})
  /\ uses' = Append(uses, [key |-> k, value |-> v])
  /\ UNCHANGED cap

LruClear == /\ elements # <<>>
            /\ queue' = <<>> /\ elements' = <<>> /\ uses' = <<>>
            /\ UNCHANGED cap

LruNext == LruClear \/ \E k \in LruKeys : LruGet(k) \/ \E v \in LruValues : LruSet(k, v)

LruSpec == LruInit /\ [][LruNext]_lruVars

\* Range gives the pairs of the queue, in its order.
RangeAll == [i \in DOMAIN queue |-> [key |-> queue[i], value |-> elements[queue[i]]]]

---------------------------------------------------------------------------
(* Properties                                                              *)

\* The cache is the last use of each of the cap keys used last, in that
\* order, and neither the map nor the list has more (lru.go:22-83).
KeepsTheLastUsed ==
  LET lastUses == {i \in DOMAIN uses : \A j \in (i + 1)..Len(uses) : uses[j].key # uses[i].key}
      kept == {i \in lastUses : Cardinality({j \in lastUses : j > i}) < cap}
  IN /\ DOMAIN elements = {uses[i].key : i \in kept}
     /\ Len(queue) = Cardinality(kept)
     /\ \A i \in kept : RangeAll[Cardinality({j \in kept : j <= i})] = uses[i]
=============================================================================
