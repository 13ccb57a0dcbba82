--------------------------- MODULE PubSubProofs ---------------------------
(* Proofs about PubSub, for any publishers, subscriptions, closers and      *)
(* subjects.  First what the locks guard: no channel is sent to after it is *)
(* closed, or closed twice.  Then what flows through the channels: each     *)
(* stream is complete and in order, and a closed bus has come to rest.      *)
EXTENDS PubSub, SetLemmas

---------------------------------------------------------------------------
(* The inductive invariant, over what the locks guard.                     *)

shared == <<mu, closed, subs, inClosed, todo, subj, pc>>

Types ==
  /\ mu \in Goroutines \cup {Free}
  /\ closed \in BOOLEAN
  /\ subs \in [Subjects -> Seq(Subs)]
  /\ inClosed \in [Subs -> BOOLEAN]
  /\ todo \in [Publishers -> Seq(Subs)]
  /\ subj \in [Publishers \cup Subs -> Subjects]
  /\ pc \in [Goroutines -> PCs]

\* p.mu is held for writing by whoever is in one of the three sections.
MuHeld == \A g \in Goroutines : pc[g] \in {"add", "remove", "closeIn"} <=> mu = g

NoDuplicates(list) == \A i, j \in DOMAIN list : list[i] = list[j] => i = j

\* In the list of a subject stand subscriptions to it, each once and open.
ListsExact ==
  \A t \in Subjects :
    /\ NoDuplicates(subs[t])
    /\ \A s \in ToSet(subs[t]) : /\ subj[s] = t
                                 /\ pc[s] \in {"subscribed", "remove"}
                                 /\ ~inClosed[s]

\* `in' is closed by Unsubscribe, by Close, or by a Subscribe that came too late.
ClosedLate == \A s \in Subs : inClosed[s] => pc[s] \in {"subscribed", "remove", "gone"}

\* While nobody empties the table, whoever is subscribed stands in its list.
SubscribedListed ==
  \A s \in Subs :
    /\ pc[s] = "remove" => s \in ToSet(subs[subj[s]])
    /\ pc[s] = "subscribed" /\ ~closed /\ (\A g \in Goroutines : pc[g] # "closeIn")
         => s \in ToSet(subs[subj[s]])

\* What a Publish has still to reach stands in the list that it holds.
TodoListed ==
  \A p \in Publishers :
    /\ todo[p] # << >> => pc[p] = "send"
    /\ pc[p] = "send" => ToSet(todo[p]) \subseteq ToSet(subs[subj[p]])

IInv == Types /\ MuHeld /\ ListsExact /\ ClosedLate /\ SubscribedListed /\ TodoListed

---------------------------------------------------------------------------
(* Lists.                                                                  *)

\* Nothing stands in an empty list.
LEMMA EmptyList == ToSet(<< >>) = {} /\ NoDuplicates(<< >>)
  BY DEF ToSet, NoDuplicates

\* What is left of a list is in the list.
LEMMA TailList ==
  ASSUME NEW S, NEW list \in Seq(S), list # << >>
  PROVE  Tail(list) \in Seq(S) /\ ToSet(Tail(list)) \subseteq ToSet(list)
  BY DEF ToSet

\* A new element at the end.
LEMMA AppendList ==
  ASSUME NEW S, NEW list \in Seq(S), NoDuplicates(list), NEW s \in S, s \notin ToSet(list)
  PROVE  /\ Append(list, s) \in Seq(S)
         /\ ToSet(Append(list, s)) = ToSet(list) \cup {s}
         /\ NoDuplicates(Append(list, s))
<1> DEFINE new == Append(list, s)
           n == Len(list)
<1>1. /\ new \in Seq(S) /\ n \in Nat
      /\ DOMAIN list = 1..n /\ DOMAIN new = 1..(n + 1)
      /\ \A i \in 1..n : new[i] = list[i]
      /\ new[n + 1] = s
  OBVIOUS
<1>2. ToSet(new) = ToSet(list) \cup {s}
  BY <1>1 DEF ToSet
<1>3. NoDuplicates(new)
  BY <1>1 DEF ToSet, NoDuplicates
<1> QED
  BY <1>1, <1>2, <1>3

\* Without takes out one element, wherever it stands.
LEMMA WithoutList ==
  ASSUME NEW S, NEW list \in Seq(S), NoDuplicates(list), NEW s, s \in ToSet(list)
  PROVE  /\ Without(list, s) \in Seq(S)
         /\ ToSet(Without(list, s)) = ToSet(list) \ {s}
         /\ NoDuplicates(Without(list, s))
<1> DEFINE n == Len(list)
           k == CHOOSE i \in 1..n : list[i] = s
           new == Without(list, s)
<1>1. n \in Nat \ {0} /\ DOMAIN list = 1..n /\ k \in 1..n /\ list[k] = s
  BY DEF ToSet
<1>2. \A i \in 1..n : list[i] = s => i = k
  BY <1>1 DEF NoDuplicates
<1> HIDE DEF k
<1>3. new = SubSeq([list EXCEPT ![k] = list[n]], 1, n - 1)
  <2>1. Last(list) = list[n]
    BY DEF Last
  <2>2. Len([list EXCEPT ![k] = list[n]]) = n
    BY <1>1
  <2> QED
    BY <2>1, <2>2 DEF Without, Front, ReplaceAt, k
<1>4. [list EXCEPT ![k] = list[n]] \in Seq(S)
  BY <1>1
<1>5. /\ new \in Seq(S) /\ DOMAIN new = 1..(n - 1)
      /\ \A i \in 1..(n - 1) : new[i] = IF i = k THEN list[n] ELSE list[i]
  BY <1>1, <1>3, <1>4
<1> HIDE DEF new, n
<1>6. ToSet(new) \subseteq ToSet(list) \ {s}
  BY <1>1, <1>2, <1>5 DEF ToSet
<1>7. ASSUME NEW x \in ToSet(list) \ {s} PROVE x \in ToSet(new)
  <2>1. PICK i \in 1..n : list[i] = x /\ i # k
    BY <1>1, <1>7 DEF ToSet
  <2>2. \E j \in 1..(n - 1) : new[j] = x
    <3>1. CASE i = n
      <4>1. k \in 1..(n - 1) /\ new[k] = x
        BY <1>1, <1>5, <2>1, <3>1
      <4> QED
        BY <4>1
    <3>2. CASE i # n
      <4>1. i \in 1..(n - 1) /\ new[i] = x
        BY <1>1, <1>5, <2>1, <3>2
      <4> QED
        BY <4>1
    <3> QED
      BY <3>1, <3>2
  <2> QED
    BY <1>5, <2>2 DEF ToSet
<1>8. NoDuplicates(new)
  BY <1>1, <1>2, <1>5 DEF NoDuplicates
<1> QED
  BY <1>5, <1>6, <1>7, <1>8 DEF new

---------------------------------------------------------------------------
(* Steps that change nothing but where a goroutine is, and maybe its       *)
(* subject before anybody could know it.                                   *)

\* The steps of buffers and workers touch nothing that the locks guard.
LEMMA Frame == IInv /\ UNCHANGED shared => IInv'
  BY DEF shared, IInv, Types, MuHeld, ListsExact, ClosedLate, SubscribedListed, TodoListed

\* A move of g outside the sections of p.mu and outside a subscription.
LEMMA QuietMove ==
  ASSUME IInv, NEW g \in Goroutines, NEW l \in PCs,
         UNCHANGED <<mu, closed, subs, inClosed, todo>>,
         pc' = [pc EXCEPT ![g] = l],
         pc[g] \notin {"add", "remove", "closeIn", "subscribed", "gone"},
         l \notin {"add", "remove", "closeIn", "subscribed", "send"},
         g \in Publishers /\ pc[g] = "send" => todo[g] = << >>,
         subj' \in [Publishers \cup Subs -> Subjects],
         pc[g] # "idle" => subj' = subj,
         \A h \in (Publishers \cup Subs) \ {g} : subj'[h] = subj[h]
  PROVE  IInv'
<1>1. /\ \A h \in Goroutines \ {g} : pc'[h] = pc[h]
      /\ pc'[g] = l
      /\ pc' \in [Goroutines -> PCs]
  BY DEF IInv, Types
<1>2. Types'
  BY <1>1 DEF IInv, Types
<1>3. MuHeld'
  BY <1>1 DEF IInv, MuHeld
<1>4. ListsExact'
  <2>1. ASSUME NEW t \in Subjects, NEW s \in ToSet(subs[t])
        PROVE  s # g /\ s \in Subs /\ subj'[s] = t /\ pc'[s] = pc[s] /\ inClosed'[s] = inClosed[s]
    <3>1. s \in Subs
      BY <2>1 DEF IInv, Types, ToSet
    <3>2. s # g
      BY <2>1 DEF IInv, ListsExact
    <3> QED
      BY <1>1, <2>1, <3>1, <3>2 DEF IInv, ListsExact, Goroutines
  <2> QED
    BY <2>1 DEF IInv, ListsExact
<1>5. ClosedLate'
  BY <1>1 DEF IInv, ClosedLate, Goroutines
<1>6. SubscribedListed'
  BY <1>1 DEF IInv, SubscribedListed, Goroutines
<1>7. TodoListed'
  BY <1>1 DEF IInv, TodoListed, Goroutines
<1> QED
  BY <1>2, <1>3, <1>4, <1>5, <1>6, <1>7 DEF IInv

\* The entry into a section of p.mu.
LEMMA TakeMu ==
  ASSUME IInv, NEW g \in Goroutines, mu = Free, mu' = g,
         NEW l \in {"add", "remove", "closeIn"}, pc' = [pc EXCEPT ![g] = l],
         UNCHANGED <<closed, subs, inClosed, todo, subj>>,
         l = "remove" => pc[g] = "subscribed" /\ ~closed,
         l # "remove" => pc[g] \in {"lockAdd", "lockClose"}
  PROVE  IInv'
<1>1. /\ \A h \in Goroutines \ {g} : pc'[h] = pc[h]
      /\ pc'[g] = l
      /\ pc' \in [Goroutines -> PCs]
  BY DEF IInv, Types, PCs
<1>2. \A h \in Goroutines : pc[h] \notin {"add", "remove", "closeIn"}
  BY PubSubAssumption DEF IInv, MuHeld
<1>3. Types'
  BY <1>1 DEF IInv, Types
<1>4. MuHeld'
  BY <1>1, <1>2 DEF MuHeld
<1>5. ListsExact'
  <2>1. ASSUME NEW t \in Subjects, NEW s \in ToSet(subs[t])
        PROVE  pc'[s] \in {"subscribed", "remove"}
    <3>1. s \in Subs /\ pc[s] \in {"subscribed", "remove"}
      BY <2>1 DEF IInv, Types, ListsExact, ToSet
    <3> QED
      BY <1>1, <3>1 DEF Goroutines
  <2> QED
    BY <2>1 DEF IInv, ListsExact
<1>6. ClosedLate'
  BY <1>1 DEF IInv, ClosedLate, Goroutines
<1>7. SubscribedListed'
  <2>1. ASSUME NEW s \in Subs, pc[s] = "subscribed", ~closed PROVE s \in ToSet(subs[subj[s]])
    BY <1>2, <2>1 DEF IInv, SubscribedListed
  <2>2. ASSUME NEW s \in Subs, pc'[s] = "remove" PROVE s = g /\ l = "remove"
    BY <1>1, <1>2, <2>2 DEF Goroutines
  <2>3. ASSUME NEW s \in Subs, pc'[s] = "subscribed" PROVE pc[s] = "subscribed"
    BY <1>1, <2>3 DEF Goroutines
  <2> QED
    BY <2>1, <2>2, <2>3 DEF SubscribedListed
<1>8. TodoListed'
  BY <1>1 DEF IInv, TodoListed, Goroutines
<1> QED
  BY <1>3, <1>4, <1>5, <1>6, <1>7, <1>8 DEF IInv

---------------------------------------------------------------------------
(* The steps that change lists and channels.                               *)

\* Publish takes over the list that it finds.
LEMMA PublishLocksKeeps ==
  ASSUME IInv, NEW p \in Publishers, PublishLocks(p)
  PROVE  IInv'
<1>1. /\ UNCHANGED <<mu, closed, subs, inClosed, subj>>
      /\ todo' = [todo EXCEPT ![p] = subs[subj[p]]]
      /\ pc[p] = "publish" /\ pc' = [pc EXCEPT ![p] = "send"]
      /\ mu = Free
  BY DEF PublishLocks, buffers, workers, Goto
<1>2. Types'
  BY <1>1 DEF IInv, Types, PCs, Goroutines
<1>3. MuHeld'
  BY <1>1 DEF IInv, Types, MuHeld, Goroutines
<1>4. ListsExact'
  <2>1. ASSUME NEW t \in Subjects, NEW s \in ToSet(subs[t])
        PROVE  pc'[s] = pc[s]
    <3>1. s \in Subs /\ pc[s] \in {"subscribed", "remove"}
      BY <2>1 DEF IInv, Types, ListsExact, ToSet
    <3> QED
      BY <1>1, <3>1 DEF IInv, Types, Goroutines
  <2> QED
    BY <1>1, <2>1 DEF IInv, ListsExact
<1>5. ClosedLate' /\ SubscribedListed'
  BY <1>1 DEF IInv, Types, ClosedLate, SubscribedListed, Goroutines
<1>6. TodoListed'
  BY <1>1 DEF IInv, Types, TodoListed, Goroutines
<1> QED
  BY <1>2, <1>3, <1>4, <1>5, <1>6 DEF IInv

\* A send leaves the rest of the list to do.
LEMMA SendKeeps ==
  ASSUME IInv, NEW p \in Publishers, Send(p)
  PROVE  IInv'
<1>1. /\ UNCHANGED <<mu, closed, subs, inClosed, subj, pc>>
      /\ todo[p] # << >> /\ todo' = [todo EXCEPT ![p] = Tail(todo[p])]
      /\ pc[p] = "send"
  BY DEF Send, workers
<1>2. Tail(todo[p]) \in Seq(Subs) /\ ToSet(Tail(todo[p])) \subseteq ToSet(todo[p])
  BY <1>1, TailList DEF IInv, Types
<1>3. Types'
  BY <1>1, <1>2 DEF IInv, Types
<1>4. MuHeld' /\ ListsExact' /\ ClosedLate' /\ SubscribedListed'
  BY <1>1 DEF IInv, MuHeld, ListsExact, ClosedLate, SubscribedListed
<1>5. TodoListed'
  BY <1>1, <1>2 DEF IInv, Types, TodoListed
<1> QED
  BY <1>3, <1>4, <1>5 DEF IInv

\* The section of Subscribe ends on a closed bus: its channel was in no list.
LEMMA AddRefusedKeeps ==
  ASSUME IInv, NEW s \in Subs, AddRefused(s)
  PROVE  IInv'
<1>1. /\ UNCHANGED <<closed, subs, todo, subj>>
      /\ inClosed' = [inClosed EXCEPT ![s] = TRUE] /\ closed
      /\ pc[s] = "add" /\ pc' = [pc EXCEPT ![s] = "gone"]
      /\ mu' = Free
  BY DEF AddRefused, callers, Goto
<1>2. mu = s
  BY <1>1 DEF IInv, MuHeld, Goroutines
<1>3. Types'
  BY <1>1 DEF IInv, Types, PCs, Goroutines
<1>4. MuHeld'
  BY <1>1, <1>2, PubSubAssumption DEF IInv, Types, MuHeld, Goroutines
<1>5. ListsExact'
  <2>1. ASSUME NEW t \in Subjects, NEW r \in ToSet(subs[t])
        PROVE  pc'[r] = pc[r] /\ inClosed'[r] = inClosed[r]
    <3>1. r \in Subs /\ r # s
      BY <1>1, <2>1 DEF IInv, Types, ListsExact, ToSet
    <3> QED
      BY <1>1, <3>1 DEF IInv, Types, Goroutines
  <2> QED
    BY <1>1, <2>1 DEF IInv, ListsExact
<1>6. ClosedLate' /\ SubscribedListed'
  BY <1>1 DEF IInv, Types, ClosedLate, SubscribedListed, Goroutines
<1>7. TodoListed'
  BY <1>1 DEF IInv, Types, TodoListed, Goroutines
<1> QED
  BY <1>3, <1>4, <1>5, <1>6, <1>7 DEF IInv

\* A subscription joins its list when nobody publishes on it.
LEMMA AddKeeps ==
  ASSUME IInv, NEW s \in Subs, Add(s)
  PROVE  IInv'
<1> DEFINE t == subj[s]
<1>1. /\ UNCHANGED <<closed, inClosed, todo, subj>>
      /\ subs' = [subs EXCEPT ![t] = Append(subs[t], s)]
      /\ pc[s] = "add" /\ pc' = [pc EXCEPT ![s] = "subscribed"]
      /\ mu' = Free
  BY DEF Add, callers, buffers, Goto
<1>2. mu = s /\ t \in Subjects /\ s \notin ToSet(subs[t])
  BY <1>1 DEF IInv, Types, MuHeld, ListsExact, Goroutines
<1>3. /\ subs'[t] \in Seq(Subs) /\ ToSet(subs'[t]) = ToSet(subs[t]) \cup {s}
      /\ NoDuplicates(subs'[t])
      /\ subs' \in [Subjects -> Seq(Subs)]
      /\ \A u \in Subjects \ {t} : subs'[u] = subs[u]
  BY <1>1, <1>2, AppendList DEF IInv, Types, ListsExact
<1>4. /\ pc'[s] = "subscribed" /\ pc' \in [Goroutines -> PCs]
      /\ \A h \in Goroutines \ {s} : pc'[h] = pc[h]
  BY <1>1 DEF IInv, Types, PCs, Goroutines
<1>5. Types'
  BY <1>1, <1>3, <1>4 DEF IInv, Types
<1>6. MuHeld'
  BY <1>1, <1>2, <1>4, PubSubAssumption DEF IInv, MuHeld
<1>7. ListsExact'
  <2>1. ASSUME NEW u \in Subjects, NEW r \in ToSet(subs[u])
        PROVE  pc'[r] = pc[r]
    <3>1. subs[u] \in Seq(Subs)
      BY DEF IInv, Types
    <3>2. r \in Subs
      BY <2>1, <3>1 DEF ToSet
    <3>3. r # s
      BY <1>1, <2>1 DEF IInv, ListsExact
    <3> QED
      BY <1>4, <3>2, <3>3 DEF Goroutines
  <2>2. ~inClosed[s]
    BY <1>1 DEF IInv, ClosedLate
  <2>3. ASSUME NEW u \in Subjects PROVE ToSet(subs'[u]) \subseteq ToSet(subs[u]) \cup {s} /\ (u # t => subs'[u] = subs[u])
    BY <1>3
  <2>4. ASSUME NEW u \in Subjects PROVE NoDuplicates(subs'[u])
    BY <1>3 DEF IInv, ListsExact
  <2>5. ASSUME NEW u \in Subjects, NEW r \in ToSet(subs'[u])
        PROVE  subj'[r] = u /\ pc'[r] \in {"subscribed", "remove"} /\ ~inClosed'[r]
    <3>1. CASE r \in ToSet(subs[u])
      BY <1>1, <2>1, <3>1 DEF IInv, ListsExact
    <3>2. CASE r \notin ToSet(subs[u])
      BY <1>1, <1>3, <1>4, <2>2, <2>5, <3>2
    <3> QED
      BY <3>1, <3>2
  <2> QED
    BY <2>4, <2>5 DEF ListsExact
<1>8. ClosedLate'
  BY <1>1, <1>4 DEF IInv, ClosedLate, Goroutines
<1>9. SubscribedListed'
  <2>1. \A g \in Goroutines : pc[g] # "closeIn"
    BY <1>1, <1>2, <1>4 DEF IInv, MuHeld
  <2>2. ASSUME NEW r \in Subs \ {s}, pc'[r] = "remove" \/ (pc'[r] = "subscribed" /\ ~closed)
        PROVE  r \in ToSet(subs'[subj[r]])
    <3>1. r \in ToSet(subs[subj[r]]) /\ subj[r] \in Subjects
      BY <1>4, <2>1, <2>2 DEF IInv, Types, SubscribedListed, Goroutines
    <3> QED
      BY <1>3, <3>1
  <2>3. s \in ToSet(subs'[subj[s]])
    BY <1>3
  <2>4. ASSUME NEW r \in Subs, pc'[r] = "remove" \/ (pc'[r] = "subscribed" /\ ~closed')
        PROVE  r \in ToSet(subs'[subj'[r]])
    BY <1>1, <2>2, <2>3, <2>4
  <2> QED
    BY <2>4 DEF SubscribedListed
<1>10. TodoListed'
  <2>1. ASSUME NEW p \in Publishers, pc'[p] = "send" PROVE ToSet(todo[p]) \subseteq ToSet(subs'[subj[p]])
    <3>1. pc[p] = "send" /\ subj[p] \in Subjects
      BY <1>4, <2>1 DEF IInv, Types, Goroutines
    <3> QED
      BY <1>3, <3>1 DEF IInv, TodoListed
  <2> QED
    BY <1>1, <1>4, <2>1 DEF IInv, TodoListed, Goroutines
<1> QED
  BY <1>5, <1>6, <1>7, <1>8, <1>9, <1>10 DEF IInv

\* Unsubscribe closes the channel that it takes out of the list, which nobody
\* is sending on.
LEMMA RemoveSubKeeps ==
  ASSUME IInv, NEW s \in Subs, RemoveSub(s)
  PROVE  IInv'
<1> DEFINE t == subj[s]
<1>1. /\ UNCHANGED <<closed, todo, subj>>
      /\ inClosed' = [inClosed EXCEPT ![s] = TRUE]
      /\ subs' = [subs EXCEPT ![t] = Without(subs[t], s)]
      /\ pc[s] = "remove" /\ pc' = [pc EXCEPT ![s] = "gone"]
      /\ mu' = Free
      /\ Sending(t) = {}
  BY DEF RemoveSub, callers, Goto
<1>2. mu = s /\ t \in Subjects /\ s \in ToSet(subs[t])
  BY <1>1 DEF IInv, Types, MuHeld, SubscribedListed, Goroutines
<1>3. /\ subs'[t] \in Seq(Subs) /\ ToSet(subs'[t]) = ToSet(subs[t]) \ {s}
      /\ NoDuplicates(subs'[t])
      /\ subs' \in [Subjects -> Seq(Subs)]
      /\ \A u \in Subjects \ {t} : subs'[u] = subs[u]
  BY <1>1, <1>2, WithoutList DEF IInv, Types, ListsExact
<1>4. /\ pc'[s] = "gone" /\ pc' \in [Goroutines -> PCs]
      /\ \A h \in Goroutines \ {s} : pc'[h] = pc[h]
  BY <1>1 DEF IInv, Types, PCs, Goroutines
<1>5. Types'
  BY <1>1, <1>3, <1>4 DEF IInv, Types
<1>6. MuHeld'
  BY <1>1, <1>2, <1>4, PubSubAssumption DEF IInv, MuHeld
<1>7. ListsExact'
  <2>1. ASSUME NEW u \in Subjects, NEW r \in ToSet(subs'[u])
        PROVE  r \in ToSet(subs[u]) /\ r # s /\ r \in Subs
    <3>1. subs[u] \in Seq(Subs)
      BY DEF IInv, Types
    <3>2. r \in ToSet(subs[u])
      BY <1>3, <2>1
    <3>3. r # s
      BY <1>1, <1>3, <2>1, <3>2, ZenonT(30) DEF IInv, ListsExact
    <3> QED
      BY <3>1, <3>2, <3>3 DEF ToSet
  <2>2. ASSUME NEW u \in Subjects PROVE NoDuplicates(subs'[u])
    BY <1>3 DEF IInv, ListsExact
  <2>3. ASSUME NEW u \in Subjects, NEW r \in ToSet(subs'[u])
        PROVE  subj'[r] = u /\ pc'[r] \in {"subscribed", "remove"} /\ ~inClosed'[r]
    <3>1. pc'[r] = pc[r] /\ inClosed'[r] = inClosed[r]
      BY <1>1, <1>4, <2>1, <2>3 DEF IInv, Types, Goroutines
    <3> QED
      BY <1>1, <2>1, <2>3, <3>1 DEF IInv, ListsExact
  <2> QED
    BY <2>2, <2>3 DEF ListsExact
<1>8. ClosedLate'
  BY <1>1, <1>4 DEF IInv, Types, ClosedLate, Goroutines
<1>9. SubscribedListed'
  <2>1. \A g \in Goroutines : pc[g] # "closeIn"
    BY <1>1, <1>2, <1>4 DEF IInv, MuHeld
  <2>2. ASSUME NEW r \in Subs, pc'[r] = "remove" \/ (pc'[r] = "subscribed" /\ ~closed)
        PROVE  r \in ToSet(subs'[subj[r]])
    <3>1. r # s /\ r \in ToSet(subs[subj[r]]) /\ subj[r] \in Subjects
      BY <1>4, <2>1, <2>2 DEF IInv, Types, SubscribedListed, Goroutines
    <3> QED
      BY <1>3, <3>1
  <2> QED
    BY <1>1, <2>2 DEF SubscribedListed
<1>10. TodoListed'
  <2>1. ASSUME NEW p \in Publishers, pc'[p] = "send" PROVE ToSet(todo[p]) \subseteq ToSet(subs'[subj[p]])
    <3>1. pc[p] = "send" /\ subj[p] \in Subjects /\ subj[p] # t
      BY <1>1, <1>4, <2>1 DEF IInv, Types, Sending, Goroutines
    <3> QED
      BY <1>3, <3>1 DEF IInv, TodoListed
  <2>2. ASSUME NEW p \in Publishers, todo[p] # << >> PROVE pc'[p] = "send"
    BY <1>1, <1>4, <2>2 DEF IInv, TodoListed, Goroutines
  <2> QED
    BY <1>1, <2>1, <2>2 DEF TodoListed
<1> QED
  BY <1>5, <1>6, <1>7, <1>8, <1>9, <1>10 DEF IInv

\* Close closes the channels of a list that nobody holds.
LEMMA CloseSubjectKeeps ==
  ASSUME IInv, NEW c \in Closers, NEW t \in Subjects, CloseSubject(c, t)
  PROVE  IInv'
<1>1. /\ UNCHANGED <<mu, closed, todo, subj, pc>>
      /\ inClosed' = [s \in Subs |-> inClosed[s] \/ s \in ToSet(subs[t])]
      /\ subs' = [subs EXCEPT ![t] = << >>]
      /\ pc[c] = "closeIn"
      /\ Sending(t) = {}
  BY DEF CloseSubject, callers
<1>2. mu = c /\ \A g \in Goroutines \ {c} : pc[g] \notin {"add", "remove", "closeIn"}
  BY <1>1 DEF IInv, MuHeld, Goroutines
<1>3. /\ ToSet(subs'[t]) = {} /\ NoDuplicates(subs'[t])
      /\ subs' \in [Subjects -> Seq(Subs)]
      /\ \A u \in Subjects \ {t} : subs'[u] = subs[u]
  BY <1>1, EmptyList DEF IInv, Types
<1>4. Types'
  <2>1. inClosed' \in [Subs -> BOOLEAN]
    BY <1>1, Zenon
  <2> QED
    BY <1>1, <1>3, <2>1 DEF IInv, Types
<1>5. MuHeld'
  BY <1>1 DEF IInv, MuHeld
<1>6. ListsExact'
  <2>1. ASSUME NEW u \in Subjects PROVE NoDuplicates(subs'[u])
    BY <1>3 DEF IInv, ListsExact
  <2>2. ASSUME NEW u \in Subjects, NEW r \in ToSet(subs'[u])
        PROVE  subj[r] = u /\ pc[r] \in {"subscribed", "remove"} /\ ~inClosed'[r]
    <3>1. u # t /\ r \in ToSet(subs[u]) /\ subs[u] \in Seq(Subs)
      BY <1>3, <2>2 DEF IInv, Types
    <3>2. r \in Subs
      BY <3>1 DEF ToSet
    <3>3. r \notin ToSet(subs[t])
      BY <3>1 DEF IInv, ListsExact
    <3>4. ~inClosed'[r]
      BY <1>1, <3>1, <3>2, <3>3 DEF IInv, ListsExact
    <3> QED
      BY <3>1, <3>4 DEF IInv, ListsExact
  <2> QED
    BY <1>1, <2>1, <2>2 DEF ListsExact
<1>7. ClosedLate'
  <2>1. ASSUME NEW s \in Subs, s \in ToSet(subs[t]) PROVE pc[s] \in {"subscribed", "remove"}
    BY <2>1 DEF IInv, ListsExact
  <2> QED
    BY <1>1, <2>1 DEF IInv, ClosedLate
<1>8. SubscribedListed'
  BY <1>1, <1>2 DEF SubscribedListed, Goroutines
<1>9. TodoListed'
  <2>1. ASSUME NEW p \in Publishers, pc[p] = "send" PROVE ToSet(todo[p]) \subseteq ToSet(subs'[subj[p]])
    <3>1. subj[p] \in Subjects /\ subj[p] # t
      BY <1>1, <2>1 DEF IInv, Types, Sending
    <3> QED
      BY <1>3, <2>1, <3>1 DEF IInv, TodoListed
  <2> QED
    BY <1>1, <2>1 DEF IInv, TodoListed
<1> QED
  BY <1>4, <1>5, <1>6, <1>7, <1>8, <1>9 DEF IInv

\* The table is gone once every list is empty.
LEMMA CloseTableKeeps ==
  ASSUME IInv, NEW c \in Closers, CloseTable(c)
  PROVE  IInv'
<1>1. /\ UNCHANGED <<subs, inClosed, todo, subj>>
      /\ pc[c] = "closeIn" /\ pc' = [pc EXCEPT ![c] = "waitWg"]
      /\ closed' = TRUE /\ mu' = Free
  BY DEF CloseTable, callers, buffers, Goto
<1>2. mu = c
  BY <1>1 DEF IInv, MuHeld, Goroutines
<1>3. /\ pc'[c] = "waitWg" /\ pc' \in [Goroutines -> PCs]
      /\ \A h \in Goroutines \ {c} : pc'[h] = pc[h]
  BY <1>1 DEF IInv, Types, PCs, Goroutines
<1>4. Types'
  BY <1>1, <1>3 DEF IInv, Types
<1>5. MuHeld'
  BY <1>1, <1>2, <1>3, PubSubAssumption DEF IInv, MuHeld
<1>6. ListsExact'
  <2>1. ASSUME NEW u \in Subjects, NEW r \in ToSet(subs[u]) PROVE pc'[r] = pc[r]
    <3>1. subs[u] \in Seq(Subs) /\ pc[r] \in {"subscribed", "remove"}
      BY <2>1 DEF IInv, Types, ListsExact
    <3>2. r \in Subs
      BY <2>1, <3>1 DEF ToSet
    <3> QED
      BY <1>1, <1>3, <3>1, <3>2 DEF Goroutines
  <2> QED
    BY <1>1, <2>1 DEF IInv, ListsExact
<1>7. ClosedLate'
  BY <1>1, <1>3 DEF IInv, ClosedLate, Goroutines
<1>8. SubscribedListed'
  BY <1>1, <1>2, <1>3 DEF IInv, MuHeld, SubscribedListed, Goroutines
<1>9. TodoListed'
  BY <1>1, <1>3 DEF IInv, TodoListed, Goroutines
<1> QED
  BY <1>4, <1>5, <1>6, <1>7, <1>8, <1>9 DEF IInv

---------------------------------------------------------------------------
(* The invariant and what follows from it.                                 *)

\* A new bus has an empty table and nobody inside.
LEMMA InitIInv == Init => IInv
<1> SUFFICES ASSUME Init PROVE IInv
  OBVIOUS
<1>1. /\ mu = Free /\ closed = FALSE
      /\ subs = [t \in Subjects |-> << >>]
      /\ inClosed = [s \in Subs |-> FALSE]
      /\ todo = [p \in Publishers |-> << >>]
      /\ subj = [g \in Publishers \cup Subs |-> CHOOSE t \in Subjects : TRUE]
      /\ pc = [g \in Goroutines |-> "idle"]
  BY DEF Init
<1>2. (CHOOSE t \in Subjects : TRUE) \in Subjects
  BY PubSubAssumption
<1>3. Types
  <2>1. inClosed \in [Subs -> BOOLEAN] /\ closed \in BOOLEAN
    BY <1>1, Zenon
  <2> QED
    BY <1>1, <1>2, <2>1 DEF Types, PCs
<1>4. MuHeld
  BY <1>1, PubSubAssumption DEF MuHeld
<1>5. ListsExact
  BY <1>1, EmptyList DEF ListsExact
<1>6. ClosedLate /\ SubscribedListed /\ TodoListed
  BY <1>1 DEF ClosedLate, SubscribedListed, TodoListed, Goroutines
<1> QED
  BY <1>3, <1>4, <1>5, <1>6 DEF IInv

\* The steps of Publish.
LEMMA PublisherKeeps ==
  ASSUME IInv, NEW p \in Publishers,
         PublishGoesOn(p) \/ \E t \in Subjects : Publish(p, t)
  PROVE  IInv'
<1> USE DEF Goto, buffers, workers, callers, PCs, Goroutines
<1>1. CASE \E t \in Subjects : Publish(p, t)
  <2>1. PICK t \in Subjects : Publish(p, t)
    BY <1>1
  <2>2. /\ UNCHANGED <<mu, closed, subs, inClosed, todo>>
        /\ pc[p] = "idle" /\ pc' = [pc EXCEPT ![p] = "publish"]
        /\ subj' = [subj EXCEPT ![p] = t]
    BY <2>1 DEF Publish
  <2>3. /\ subj' \in [Publishers \cup Subs -> Subjects]
        /\ \A h \in (Publishers \cup Subs) \ {p} : subj'[h] = subj[h]
    BY <2>2 DEF IInv, Types
  <2> QED
    BY <2>2, <2>3, QuietMove
<1>2. CASE PublishRefused(p)
  BY <1>2, QuietMove DEF PublishRefused, IInv, Types
<1>3. CASE PublishReturns(p)
  BY <1>3, QuietMove DEF PublishReturns, IInv, Types
<1> QED
  BY <1>1, <1>2, <1>3, PublishLocksKeeps, SendKeeps DEF PublishGoesOn

\* The steps of Subscribe and Unsubscribe.
LEMMA SubscriberKeeps ==
  ASSUME IInv, NEW s \in Subs,
         SubscriberGoesOn(s) \/ Unsubscribe(s) \/ \E t \in Subjects : Subscribe(s, t)
  PROVE  IInv'
<1> USE DEF Goto, buffers, workers, callers, PCs, Goroutines
<1>1. CASE \E t \in Subjects : Subscribe(s, t)
  <2>1. PICK t \in Subjects : Subscribe(s, t)
    BY <1>1
  <2>2. /\ UNCHANGED <<mu, closed, subs, inClosed, todo>>
        /\ pc[s] = "idle" /\ pc' = [pc EXCEPT ![s] = "subscribe"]
        /\ subj' = [subj EXCEPT ![s] = t]
    BY <2>1 DEF Subscribe
  <2>3. /\ subj' \in [Publishers \cup Subs -> Subjects]
        /\ \A h \in (Publishers \cup Subs) \ {s} : subj'[h] = subj[h]
    BY <2>2 DEF IInv, Types
  <2> QED
    BY <2>2, <2>3, QuietMove
<1>2. CASE MakeSubject(s)
  <2>1. CASE closed
    BY <1>2, <2>1, QuietMove DEF MakeSubject, IInv, Types
  <2>2. CASE ~closed
    BY <1>2, <2>2, QuietMove DEF MakeSubject, IInv, Types
  <2> QED
    BY <2>1, <2>2
<1>3. CASE StartPipe(s)
  BY <1>3, QuietMove DEF StartPipe, IInv, Types
<1>4. CASE LockAdd(s)
  BY <1>4, TakeMu DEF LockAdd
<1>5. CASE Unsubscribe(s)
  BY <1>5, TakeMu DEF Unsubscribe
<1> QED
  BY <1>1, <1>2, <1>3, <1>4, <1>5, AddRefusedKeeps, AddKeeps, RemoveSubKeeps
  DEF SubscriberGoesOn

\* The steps of Close.
LEMMA CloserKeeps ==
  ASSUME IInv, NEW c \in Closers, CloseGoesOn(c) \/ Close(c) \/ CloseGivesUp(c)
  PROVE  IInv'
<1> USE DEF Goto, buffers, workers, callers, PCs, Goroutines
<1>1. CASE Close(c)
  BY <1>1, QuietMove DEF Close, IInv, Types
<1>2. CASE CloseGivesUp(c)
  BY <1>2, QuietMove DEF CloseGivesUp, IInv, Types
<1>3. CASE CloseReturns(c)
  BY <1>3, QuietMove DEF CloseReturns, IInv, Types
<1>4. CASE LockClose(c)
  BY <1>4, TakeMu DEF LockClose
<1> QED
  BY <1>1, <1>2, <1>3, <1>4, CloseSubjectKeeps, CloseTableKeeps DEF CloseGoesOn

\* The steps of the goroutines of a subscription.
LEMMA PipeKeeps ==
  ASSUME IInv, NEW s \in Subs, BufferGoesOn(s) \/ WorkerGoesOn(s) \/ HandlerReturns(s)
  PROVE  IInv'
<1>1. UNCHANGED shared
  BY DEF BufferGoesOn, BufferTakes, BufferGives, BufferDrains, BufferEnds,
         WorkerGoesOn, WorkerTakes, WorkerEnds, HandlerReturns,
         buffers, workers, callers, shared
<1> QED
  BY <1>1, Frame

\* Every step keeps the invariant.
LEMMA NextIInv == IInv /\ [Next]_vars => IInv'
<1> SUFFICES ASSUME IInv, [Next]_vars PROVE IInv'
  OBVIOUS
<1>1. CASE UNCHANGED vars
  <2>1. UNCHANGED shared
    BY <1>1 DEF vars, buffers, callers, shared
  <2> QED
    BY <2>1, Frame
<1>2. CASE \E p \in Publishers : PublishGoesOn(p) \/ \E t \in Subjects : Publish(p, t)
  BY <1>2, PublisherKeeps
<1>3. CASE \E c \in Closers : Close(c) \/ CloseGivesUp(c) \/ CloseGoesOn(c)
  BY <1>3, CloserKeeps
<1>4. CASE \E s \in Subs : \/ \E t \in Subjects : Subscribe(s, t)
                           \/ Unsubscribe(s) \/ SubscriberGoesOn(s)
  BY <1>4, SubscriberKeeps
<1>5. CASE \E s \in Subs : BufferGoesOn(s) \/ WorkerGoesOn(s) \/ HandlerReturns(s)
  BY <1>5, PipeKeeps
<1> QED
  BY <1>1, <1>2, <1>3, <1>4, <1>5 DEF Next

\* The locks keep lists, channels and the goroutines inside in step.
THEOREM Invariance == Spec => []IInv
  BY InitIInv, NextIInv, PTL DEF Spec

\* What the locks protect: a closed channel is in no list and in no Publish
\* (my_pubsub.go:32, 150, 164).
THEOREM NoUseAfterClose == Spec => []ChannelsSafe
<1>1. IInv => ChannelsSafe
  <2> SUFFICES ASSUME IInv PROVE ChannelsSafe
    OBVIOUS
  <2>1. ASSUME NEW s \in Subs, inClosed[s]
        PROVE  ~Registered(s) /\ pc[s] \notin {"lockAdd", "add"}
    BY <2>1 DEF IInv, Types, ListsExact, ClosedLate, Registered
  <2>2. ASSUME NEW p \in Publishers, NEW s \in ToSet(todo[p])
        PROVE  ~inClosed[s]
    <3>1. todo[p] # << >>
      BY <2>2, EmptyList
    <3>2. s \in ToSet(subs[subj[p]]) /\ subj[p] \in Subjects
      BY <2>2, <3>1 DEF IInv, Types, TodoListed
    <3> QED
      BY <3>2 DEF IInv, ListsExact
  <2> QED
    BY <2>1, <2>2 DEF ChannelsSafe
<1> QED
  BY Invariance, <1>1, PTL

---------------------------------------------------------------------------
(* The order of messages and the end of a closed bus: what more is known.  *)

\* A subscription that has not started its goroutines.
Early == {"idle", "publish", "send", "subscribe", "start"}
Open == {"lockAdd", "add", "subscribed", "remove"}

\* What a buffer and a worker leave behind when they end, and who can have one.
PipeOf(s) ==
  /\ pc[s] \in Early => buffer[s] = "off" /\ worker[s] = "off" /\ ~outClosed[s]
  /\ pc[s] \in Open /\ ~inClosed[s] => buffer[s] = "on"
  /\ pc[s] \notin {"subscribed", "remove", "gone"} => in[s] = << >> /\ buf[s] = << >> /\ out[s] = << >>
  /\ buffer[s] = "off" => in[s] = << >> /\ buf[s] = << >>
  /\ buffer[s] = "drain" => in[s] = << >> /\ inClosed[s]
  /\ worker[s] = "off" => out[s] = << >> /\ buffer[s] = "off"
  /\ outClosed[s] => buffer[s] = "off"

Pipes == \A s \in Subs : PipeOf(s)

\* wg counts the goroutines of the subscriptions.
WgExact == wg = Cardinality({s \in Subs : buffer[s] # "off"}) + Cardinality({s \in Subs : worker[s] # "off"})

\* A closed table stays empty, and a Close that waits has closed it.
TableGone ==
  /\ closed => \A t \in Subjects : subs[t] = << >>
  /\ \A c \in Closers : pc[c] \in {"waitWg", "closed"} => closed

TodoOnce == \A p \in Publishers : NoDuplicates(todo[p])

Bounded == \A t \in Subjects : Published(t) <= MaxMsgs

Streams ==
  \A s \in Subs, p \in Publishers :
    \E n \in seen[s][p]..MaxMsgs :
      /\ Consecutive(Underway(s), p, seen[s][p], n)
      /\ Registered(s) => n = Reached(s, p)

BusInv == IInv /\ TypeOK /\ Pipes /\ WgExact /\ TableGone /\ CloseIsFinal /\ TodoOnce /\ Bounded /\ Streams

---------------------------------------------------------------------------
(* Streams of messages.                                                    *)

\* An empty stream.
LEMMA NoneUnderway ==
  ASSUME NEW p, NEW a \in Nat
  PROVE  Consecutive(<< >>, p, a, a)
<1>1. (a + 1)..a = {} /\ DOMAIN << >> = {}
  OBVIOUS
<1> QED
  BY <1>1 DEF Consecutive

\* One more at the end.
LEMMA StreamAppend ==
  ASSUME NEW list \in Seq(Msgs), NEW m \in Msgs, NEW p, NEW a \in Nat, NEW n \in Nat,
         a <= n, Consecutive(list, p, a, n)
  PROVE  /\ m.from # p => Consecutive(Append(list, m), p, a, n)
         /\ m.from = p /\ m.no = n + 1 => Consecutive(Append(list, m), p, a, n + 1)
<1> DEFINE from == {i \in DOMAIN list : list[i].from = p}
<1>1. PICK new : new = Append(list, m)
  OBVIOUS
<1>2. PICK k : k = Len(list) + 1
  OBVIOUS
<1>3. /\ k \in Nat /\ k > 0 /\ DOMAIN list = 1..(k - 1) /\ DOMAIN new = 1..k
      /\ new[k] = m /\ \A i \in 1..(k - 1) : new[i] = list[i] /\ list[i] \in Msgs
  BY <1>1, <1>2
<1>4. \A i \in 1..k : i = k \/ i \in 1..(k - 1)
  BY <1>3
<1>5. /\ \A i, j \in from : i < j => list[i].no < list[j].no
      /\ {list[i].no : i \in from} = (a + 1)..n
  BY DEF Consecutive
<1>6. CASE m.from # p
  <2>1. {i \in DOMAIN new : new[i].from = p} = from
    BY <1>3, <1>4, <1>6
  <2>2. {new[i].no : i \in from} = {list[i].no : i \in from}
    BY <1>3
  <2>3. \A i, j \in from : i < j => new[i].no < new[j].no
    BY <1>3, <1>5
  <2>4. Consecutive(new, p, a, n)
    BY <1>5, <2>1, <2>2, <2>3 DEF Consecutive
  <2> QED
    BY <1>1, <1>6, <2>4
<1>7. CASE m.from = p /\ m.no = n + 1
  <2> DEFINE from2 == {i \in DOMAIN new : new[i].from = p}
  <2>1. from2 = from \cup {k} /\ k \notin from
    <3>1. k \in from2 /\ k \notin from
      BY <1>3, <1>7
    <3>2. \A i \in 1..(k - 1) : i \in from2 <=> i \in from
      BY <1>3
    <3> QED
      BY <1>3, <1>4, <3>1, <3>2
  <2>2. \A i \in from : i \in 1..(k - 1) /\ new[i].no = list[i].no /\ list[i].no \in (a + 1)..n
    BY <1>3, <1>5
  <2>3. new[k].no = n + 1
    BY <1>3, <1>7
  <2>4. {new[i].no : i \in from2} = ((a + 1)..n) \cup {n + 1}
    <3>1. {new[i].no : i \in from2} = {new[i].no : i \in from} \cup {n + 1}
      BY <2>1, <2>3
    <3>2. {new[i].no : i \in from} = {list[i].no : i \in from}
      BY <2>2
    <3> QED
      BY <1>5, <3>1, <3>2
  <2>5. ((a + 1)..n) \cup {n + 1} = (a + 1)..(n + 1)
    OBVIOUS
  <2>6. ASSUME NEW i \in from2, NEW j \in from2, i < j PROVE new[i].no < new[j].no
    <3>1. i \in from
      BY <1>3, <2>1, <2>2, <2>6
    <3>2. CASE j = k
      BY <2>2, <2>3, <3>1, <3>2
    <3>3. CASE j \in from
      BY <1>5, <2>2, <2>6, <3>1, <3>3
    <3> QED
      BY <2>1, <3>2, <3>3
  <2>7. Consecutive(new, p, a, n + 1)
    BY <2>4, <2>5, <2>6 DEF Consecutive
  <2> QED
    BY <1>1, <1>7, <2>7
<1> QED
  BY <1>6, <1>7

\* The first is taken.
LEMMA StreamTail ==
  ASSUME NEW list \in Seq(Msgs), list # << >>, NEW p, NEW a \in Nat, NEW n \in Nat,
         a <= n, Consecutive(list, p, a, n)
  PROVE  /\ Head(list).from # p => Consecutive(Tail(list), p, a, n)
         /\ Head(list).from = p => /\ Head(list).no = a + 1 /\ a + 1 <= n
                                   /\ Consecutive(Tail(list), p, a + 1, n)
<1> DEFINE from == {i \in DOMAIN list : list[i].from = p}
<1>1. PICK rest : rest = Tail(list)
  OBVIOUS
<1>2. PICK k : k = Len(list)
  OBVIOUS
<1>3. /\ k \in Nat /\ k > 0 /\ DOMAIN list = 1..k /\ DOMAIN rest = 1..(k - 1) /\ Head(list) = list[1]
      /\ \A i \in 1..k : list[i] \in Msgs
      /\ \A i \in 1..(k - 1) : rest[i] = list[i + 1]
  BY <1>1, <1>2
<1>4. /\ \A i, j \in from : i < j => list[i].no < list[j].no
      /\ {list[i].no : i \in from} = (a + 1)..n
  BY DEF Consecutive
<1> DEFINE left == {i \in DOMAIN rest : rest[i].from = p}
<1>5. \A i \in left : i + 1 \in from /\ i \in 1..(k - 1) /\ rest[i].no = list[i + 1].no
  BY <1>3
<1>6. \A i \in from : i # 1 => i - 1 \in left /\ rest[i - 1].no = list[i].no
  <2> SUFFICES ASSUME NEW i \in from, i # 1 PROVE i - 1 \in left /\ rest[i - 1].no = list[i].no
    OBVIOUS
  <2>1. i - 1 \in 1..(k - 1) /\ (i - 1) + 1 = i /\ list[i].from = p
    BY <1>3
  <2> QED
    BY <1>3, <2>1
<1>7. \A i, j \in left : i < j => rest[i].no < rest[j].no
  <2> SUFFICES ASSUME NEW i \in left, NEW j \in left, i < j PROVE rest[i].no < rest[j].no
    OBVIOUS
  <2>1. i + 1 < j + 1 /\ i + 1 \in from /\ j + 1 \in from
    BY <1>5
  <2> QED
    BY <1>4, <1>5, <2>1
<1>8. CASE list[1].from # p
  <2>1. \A x : x \in {rest[i].no : i \in left} <=> x \in {list[i].no : i \in from}
    <3>1. \A i \in from : i # 1
      BY <1>8
    <3>2. ASSUME NEW i \in left PROVE rest[i].no \in {list[j].no : j \in from}
      BY <1>5
    <3>3. ASSUME NEW i \in from PROVE list[i].no \in {rest[j].no : j \in left}
      BY <1>6, <3>1
    <3> QED
      BY <3>2, <3>3
  <2>2. {rest[i].no : i \in left} = (a + 1)..n
    BY <1>4, <2>1
  <2>3. Consecutive(rest, p, a, n)
    BY <1>7, <2>2 DEF Consecutive
  <2> QED
    BY <1>1, <1>3, <1>8, <2>3
<1>9. CASE list[1].from = p
  <2>1. 1 \in from /\ list[1].no \in (a + 1)..n
    BY <1>3, <1>4, <1>9
  <2>2. \A i \in from : i # 1 => list[1].no < list[i].no
    <3>1. \A i \in from : i # 1 => 1 < i
      BY <1>3
    <3> QED
      BY <1>4, <2>1, <3>1
  <2>3. list[1].no = a + 1
    <3>1. a + 1 \in (a + 1)..n
      BY <2>1
    <3>2. PICK i \in from : list[i].no = a + 1
      BY <1>4, <3>1
    <3>3. CASE i = 1
      BY <3>2, <3>3
    <3>4. CASE i # 1
      BY <2>1, <2>2, <3>2, <3>4
    <3> QED
      BY <3>3, <3>4
  <2>4. {rest[i].no : i \in left} = (a + 2)..n
    <3>1. ASSUME NEW i \in left PROVE rest[i].no \in (a + 2)..n
      <4>1. i + 1 \in from /\ i + 1 # 1 /\ rest[i].no = list[i + 1].no
        BY <1>5
      <4>2. list[i + 1].no \in (a + 1)..n /\ list[1].no < list[i + 1].no
        BY <1>4, <2>2, <4>1
      <4> QED
        BY <2>3, <4>1, <4>2
    <3>2. ASSUME NEW x \in (a + 2)..n PROVE x \in {rest[i].no : i \in left}
      <4>1. x \in (a + 1)..n /\ x # a + 1
        OBVIOUS
      <4>2. PICK i \in from : list[i].no = x
        BY <1>4, <4>1
      <4>3. i # 1
        BY <2>3, <4>1, <4>2
      <4> QED
        BY <1>6, <4>2, <4>3
    <3> QED
      BY <3>1, <3>2
  <2>5. Consecutive(rest, p, a + 1, n)
    <3>1. (a + 1) + 1 = a + 2
      OBVIOUS
    <3> QED
      BY <1>7, <2>4, <3>1 DEF Consecutive
  <2> QED
    BY <1>1, <1>3, <1>9, <2>1, <2>3, <2>5
<1> QED
  BY <1>3, <1>8, <1>9

\* What moves on inside a subscription stays where it is in the stream.
LEMMA StreamMoves ==
  ASSUME NEW x \in Seq(Msgs), NEW y \in Seq(Msgs), NEW z \in Seq(Msgs)
  PROVE  /\ z # << >> => x \o Append(y, Head(z)) \o Tail(z) = x \o y \o z
         /\ y # << >> => Append(x, Head(y)) \o Tail(y) \o z = x \o y \o z
         /\ x # << >> => Tail(x) \o y \o z = Tail(x \o y \o z) /\ x \o y \o z # << >>
                         /\ Head(x \o y \o z) = Head(x)
         /\ \A m \in Msgs : x \o y \o Append(z, m) = Append(x \o y \o z, m)
         /\ x \o y \o z \in Seq(Msgs)
<1>1. z # << >> => x \o Append(y, Head(z)) \o Tail(z) = x \o y \o z
  BY SMTT(30)
<1>2. y # << >> => Append(x, Head(y)) \o Tail(y) \o z = x \o y \o z
  OBVIOUS
<1>3. x # << >> => Tail(x) \o y \o z = Tail(x \o y \o z) /\ x \o y \o z # << >>
                   /\ Head(x \o y \o z) = Head(x)
  <2> SUFFICES ASSUME x # << >>
               PROVE  Tail(x) \o y \o z = Tail(x \o y \o z) /\ x \o y \o z # << >>
                      /\ Head(x \o y \o z) = Head(x)
    OBVIOUS
  <2>1. PICK v : v = y \o z
    OBVIOUS
  <2>2. v \in Seq(Msgs) /\ x \o y \o z = x \o v /\ Tail(x) \o y \o z = Tail(x) \o v
    BY <2>1, SMTT(30)
  <2>3. Len(x) \in Nat /\ Len(x) > 0
    OBVIOUS
  <2>4. Tail(x) \o v = Tail(x \o v)
    BY <2>2, <2>3
  <2>5. Len(x \o v) > 0 /\ (x \o v)[1] = x[1]
    BY <2>2, <2>3
  <2>6. x \o v # << >> /\ Head(x \o v) = Head(x)
    BY <2>2, <2>3, <2>5
  <2> QED
    BY <2>2, <2>4, <2>6
<1>4. \A m \in Msgs : x \o y \o Append(z, m) = Append(x \o y \o z, m)
  OBVIOUS
<1>5. x \o y \o z \in Seq(Msgs)
  OBVIOUS
<1> QED
  BY <1>1, <1>2, <1>3, <1>4, <1>5, Zenon

---------------------------------------------------------------------------
(* What the invariant says of a state, and what follows for the next.      *)

RestTypes ==
  /\ ctxDone \in BOOLEAN
  /\ in \in [Subs -> Seq(Msgs)] /\ buf \in [Subs -> Seq(Msgs)] /\ out \in [Subs -> Seq(Msgs)]
  /\ \A s \in Subs : Len(in[s]) <= Chan /\ Len(out[s]) <= Chan
  /\ outClosed \in [Subs -> BOOLEAN]
  /\ buffer \in [Subs -> {"off", "on", "drain"}]
  /\ worker \in [Subs -> {"off", "on", "handler"}]
  /\ isAlive \in [Subs -> BOOLEAN]
  /\ sent \in [Publishers -> [Subjects -> 0..MaxMsgs]]
  /\ seen \in [Subs -> [Publishers -> 0..MaxMsgs]]

\* The types of what no lock guards.
LEMMA RestTyped == TypeOK => RestTypes
  BY DEF TypeOK, RestTypes

\* The goroutines can be counted.
LEMMA FiniteRoles ==
  /\ IsFiniteSet(Subs) /\ IsFiniteSet(Publishers) /\ Cardinality(Subs) \in Nat
  /\ \A S \in SUBSET Subs : IsFiniteSet(S) /\ Cardinality(S) \in Nat /\ Cardinality(S) <= Cardinality(Subs)
<1>1. Subs \in SUBSET Goroutines /\ Publishers \in SUBSET Goroutines
  BY DEF Goroutines
<1>2. IsFiniteSet(Subs) /\ IsFiniteSet(Publishers)
  BY <1>1, PubSubAssumption, FS_Subset
<1> QED
  BY <1>2, FS_Subset, FS_CardinalityType

\* The count of goroutines keeps wg in its range.
LEMMA TypesNext ==
  ASSUME IInv', RestTypes', WgExact'
  PROVE  TypeOK'
<1>1. PICK b : b = {s \in Subs : buffer'[s] # "off"}
  OBVIOUS
<1>2. PICK w : w = {s \in Subs : worker'[s] # "off"}
  OBVIOUS
<1>3. wg' = Cardinality(b) + Cardinality(w)
  BY <1>1, <1>2 DEF WgExact
<1>4. b \in SUBSET Subs /\ w \in SUBSET Subs
  BY <1>1, <1>2
<1>5. wg' \in 0..(2 * Cardinality(Subs))
  BY <1>3, <1>4, FiniteRoles
<1> QED
  BY <1>5 DEF IInv, Types, RestTypes, TypeOK

\* Without goroutines of subscriptions nothing is under way.
LEMMA AllOff ==
  ASSUME BusInv, wg = 0
  PROVE  \A s \in Subs : worker[s] = "off" /\ in[s] = << >> /\ buf[s] = << >> /\ out[s] = << >>
<1>1. PICK b : b = {s \in Subs : buffer[s] # "off"}
  OBVIOUS
<1>2. PICK w : w = {s \in Subs : worker[s] # "off"}
  OBVIOUS
<1>3. b \in SUBSET Subs /\ w \in SUBSET Subs
  BY <1>1, <1>2
<1>4. Cardinality(b) = 0 /\ Cardinality(w) = 0
  <2>1. 0 = Cardinality(b) + Cardinality(w)
    BY <1>1, <1>2 DEF BusInv, WgExact
  <2> QED
    BY <1>3, <2>1, FiniteRoles
<1>5. b = {} /\ w = {}
  BY <1>3, <1>4, FiniteRoles, FS_EmptySet
<1>6. \A s \in Subs : buffer[s] = "off" /\ worker[s] = "off"
  BY <1>1, <1>2, <1>5
<1> QED
  BY <1>6 DEF BusInv, Pipes, PipeOf

\* On a closed table nobody publishes to anybody.
LEMMA NobodySends ==
  ASSUME BusInv, closed
  PROVE  /\ \A s \in Subs : ~Registered(s)
         /\ \A p \in Publishers : todo[p] = << >>
<1>1. \A t \in Subjects : subs[t] = << >>
  BY DEF BusInv, TableGone
<1>2. \A s \in Subs : ~Registered(s)
  BY <1>1, EmptyList DEF BusInv, IInv, Types, Registered
<1>3. ASSUME NEW p \in Publishers, todo[p] # << >> PROVE FALSE
  <2>1. ToSet(todo[p]) \subseteq ToSet(subs[subj[p]]) /\ subj[p] \in Subjects /\ todo[p] \in Seq(Subs)
    BY <1>3 DEF BusInv, IInv, Types, TodoListed
  <2>2. ToSet(todo[p]) = {}
    BY <1>1, <2>1, EmptyList
  <2>3. 1 \in DOMAIN todo[p]
    BY <1>3, <2>1
  <2> QED
    BY <2>2, <2>3 DEF ToSet
<1> QED
  BY <1>2, <1>3

\* Streams that nothing is added to or taken from.
LEMMA StreamsKept ==
  ASSUME BusInv, UNCHANGED <<in, buf, out, seen>>,
         \A s \in Subs : Registered(s)' =>
           Registered(s) /\ \A p \in Publishers : Reached(s, p)' = Reached(s, p)
  PROVE  Streams'
<1> SUFFICES ASSUME NEW s \in Subs, NEW p \in Publishers
             PROVE  \E n \in seen[s][p]..MaxMsgs :
                      /\ Consecutive(Underway(s), p, seen[s][p], n)
                      /\ Registered(s)' => n = Reached(s, p)'
  BY DEF Streams, Underway
<1>1. PICK n \in seen[s][p]..MaxMsgs :
        /\ Consecutive(Underway(s), p, seen[s][p], n)
        /\ Registered(s) => n = Reached(s, p)
  BY DEF BusInv, Streams
<1> QED
  BY <1>1

\* A goroutine goes on without a change of lists, channels and counters.
LEMMA QuietBus ==
  ASSUME BusInv, IInv', Bounded', NEW g \in Goroutines, NEW l \in PCs, pc' = [pc EXCEPT ![g] = l],
         UNCHANGED <<closed, subs, wg, buffers, workers, isAlive, todo, sent>>,
         ctxDone' \in BOOLEAN,
         \A h \in (Publishers \cup Subs) \ {g} : subj'[h] = subj[h],
         pc[g] # "idle" => subj' = subj,
         l \in Early => pc[g] \in Early,
         l \in Open => pc[g] \in Open,
         pc[g] \in {"subscribed", "remove", "gone"} => l \in {"subscribed", "remove", "gone"},
         l \in {"waitWg", "closed"} => pc[g] = "waitWg",
         l = "closed" => wg = 0
  PROVE  BusInv'
<1>0. UNCHANGED <<in, inClosed, buf, out, outClosed, buffer, worker, seen>>
  BY DEF buffers, workers
<1>1. /\ \A h \in Goroutines \ {g} : pc'[h] = pc[h]
      /\ pc'[g] = l
  BY DEF BusInv, IInv, Types
<1>2. WgExact'
  BY <1>0 DEF BusInv, WgExact
<1>3. TypeOK'
  <2>1. RestTypes'
    BY <1>0, RestTyped DEF BusInv, RestTypes
  <2> QED
    BY <1>2, <2>1, TypesNext
<1>4. Pipes'
  <2> SUFFICES ASSUME NEW s \in Subs
               PROVE  /\ pc'[s] \in Early => buffer[s] = "off" /\ worker[s] = "off" /\ ~outClosed[s]
                      /\ pc'[s] \in Open /\ ~inClosed[s] => buffer[s] = "on"
                      /\ pc'[s] \notin {"subscribed", "remove", "gone"}
                           => in[s] = << >> /\ buf[s] = << >> /\ out[s] = << >>
    BY <1>0 DEF BusInv, Pipes, PipeOf
  <2>1. /\ pc[s] \in Early => buffer[s] = "off" /\ worker[s] = "off" /\ ~outClosed[s]
        /\ pc[s] \in Open /\ ~inClosed[s] => buffer[s] = "on"
        /\ pc[s] \notin {"subscribed", "remove", "gone"}
             => in[s] = << >> /\ buf[s] = << >> /\ out[s] = << >>
    BY DEF BusInv, Pipes, PipeOf
  <2>2. s \in Goroutines
    BY DEF Goroutines
  <2>3. CASE s = g
    BY <1>1, <2>1, <2>3
  <2>4. CASE s # g
    BY <1>1, <2>1, <2>2, <2>4
  <2> QED
    BY <2>3, <2>4
<1>5. TableGone'
  <2>1. \A c \in Closers : pc'[c] \in {"waitWg", "closed"} => closed
    <3> SUFFICES ASSUME NEW c \in Closers, pc'[c] \in {"waitWg", "closed"} PROVE closed
      OBVIOUS
    <3>1. pc[c] \in {"waitWg", "closed"}
      BY <1>1 DEF Goroutines
    <3> QED
      BY <3>1 DEF BusInv, TableGone
  <2> QED
    BY <2>1 DEF BusInv, TableGone
<1>6. CloseIsFinal'
  <2> SUFFICES ASSUME NEW c \in Closers, pc'[c] = "closed"
               PROVE  \A s \in Subs : worker[s] # "handler" /\ in[s] \o buf[s] \o out[s] = << >>
    BY <1>0 DEF CloseIsFinal
  <2>1. CASE c = g
    <3>1. \A s \in Subs : worker[s] = "off" /\ in[s] = << >> /\ buf[s] = << >> /\ out[s] = << >>
      BY <1>1, <2>1, AllOff
    <3> QED
      BY <3>1
  <2>2. CASE c # g
    BY <1>1, <2>2 DEF BusInv, CloseIsFinal, Goroutines
  <2> QED
    BY <2>1, <2>2
<1>7. Streams'
  <2> SUFFICES ASSUME NEW s \in Subs, Registered(s)'
               PROVE  Registered(s) /\ \A p \in Publishers : Reached(s, p)' = Reached(s, p)
    BY <1>0, StreamsKept
  <2>1. subj'[s] \in Subjects /\ s \in ToSet(subs[subj'[s]])
    BY DEF IInv, Types, Registered
  <2>2. pc[s] \in {"subscribed", "remove"}
    BY <2>1 DEF BusInv, IInv, ListsExact
  <2>3. subj'[s] = subj[s]
    BY <2>2
  <2> QED
    BY <2>1, <2>3 DEF Registered, Reached
<1>8. TodoOnce'
  BY DEF BusInv, TodoOnce
<1> QED
  BY <1>2, <1>3, <1>4, <1>5, <1>6, <1>7, <1>8 DEF BusInv

---------------------------------------------------------------------------
(* The bound on the messages.                                              *)

\* The numbers that Published adds up.
LEMMA PublishedNumbers ==
  ASSUME BusInv, NEW t \in Subjects
  PROVE  /\ PublishedBy(t) \in [Publishers -> Nat]
         /\ \A p \in Publishers :
              PublishedBy(t)[p] = sent[p][t] + IF pc[p] = "publish" /\ subj[p] = t THEN 1 ELSE 0
<1>1. \A p \in Publishers : sent[p][t] \in Nat
  BY PubSubAssumption DEF BusInv, TypeOK
<1> QED
  BY <1>1 DEF PublishedBy

\* No publisher has more than all of them.
LEMMA OneOfAll ==
  ASSUME BusInv, NEW t \in Subjects, NEW p \in Publishers
  PROVE  PublishedBy(t)[p] <= MaxMsgs
<1>1. PICK f \in [Publishers -> Nat] : f = PublishedBy(t)
  BY PublishedNumbers
<1>2. SumFunctionOnSet(f, Publishers) <= MaxMsgs
  BY <1>1 DEF BusInv, Bounded, Published
<1>3. IsFiniteSet(Publishers) /\ IsFiniteSet(Publishers \ {p})
  BY FiniteRoles, FS_Subset
<1>4. SumFunctionOnSet(f, Publishers) = f[p] + SumFunctionOnSet(f, Publishers \ {p})
  BY <1>3, SumRemove
<1>5. SumFunctionOnSet(f, Publishers \ {p}) \in Nat
  BY <1>3, SumNat
<1>6. f[p] \in Nat /\ MaxMsgs \in Nat
  BY PubSubAssumption
<1>7. f[p] <= MaxMsgs
  BY <1>2, <1>4, <1>5, <1>6
<1> QED
  BY <1>1, <1>7

\* One publisher moves, and publishes more only where there is room.
LEMMA BoundedMove ==
  ASSUME BusInv, NEW p \in Publishers,
         \A t \in Subjects : PublishedBy(t)' \in [Publishers -> Nat],
         \A t \in Subjects : \A q \in Publishers \ {p} : PublishedBy(t)'[q] = PublishedBy(t)[q],
         \A t \in Subjects : \/ PublishedBy(t)'[p] <= PublishedBy(t)[p]
                             \/ /\ Published(t) < MaxMsgs
                                /\ PublishedBy(t)'[p] <= PublishedBy(t)[p] + 1
  PROVE  Bounded'
<1> SUFFICES ASSUME NEW t \in Subjects PROVE Published(t)' <= MaxMsgs
  BY DEF Bounded
<1>1. PICK f \in [Publishers -> Int] : f = PublishedBy(t)
  BY PublishedNumbers
<1>2. PICK g \in [Publishers -> Int] : g = PublishedBy(t)'
  OBVIOUS
<1>3. \A q \in Publishers : q # p => f[q] = g[q]
  BY <1>1, <1>2
<1>4. IsFiniteSet(Publishers)
  BY FiniteRoles
<1>5. SumFunctionOnSet(g, Publishers) = SumFunctionOnSet(f, Publishers) + g[p] - f[p]
  BY <1>3, <1>4, SumChange
<1>6. PICK old : old = SumFunctionOnSet(f, Publishers)
  OBVIOUS
<1>7. old \in Int
  BY <1>4, <1>6, SumInt
<1>8. old = Published(t) /\ old <= MaxMsgs
  BY <1>1, <1>6 DEF BusInv, Bounded, Published
<1>9. g[p] <= f[p] \/ (old < MaxMsgs /\ g[p] <= f[p] + 1)
  BY <1>1, <1>2, <1>8
<1>10. Published(t)' = old + g[p] - f[p]
  BY <1>2, <1>5, <1>6 DEF Published
<1>11. MaxMsgs \in Nat /\ g[p] \in Int /\ f[p] \in Int
  BY PubSubAssumption
<1> HIDE DEF Published
<1> QED
  BY <1>7, <1>8, <1>9, <1>10, <1>11

\* A step that is not one of a publisher publishes nothing.
LEMMA BoundedStays ==
  ASSUME BusInv, sent' = sent,
         \A p \in Publishers : /\ pc'[p] = "publish" <=> pc[p] = "publish"
                               /\ pc[p] = "publish" => subj'[p] = subj[p]
  PROVE  Bounded'
<1> SUFFICES ASSUME NEW t \in Subjects PROVE Published(t)' <= MaxMsgs
  BY DEF Bounded
<1>1. \A p \in Publishers : PublishedBy(t)[p] = PublishedBy(t)'[p]
  BY DEF PublishedBy
<1>2. PICK f : f = PublishedBy(t)
  OBVIOUS
<1>3. PICK g : g = PublishedBy(t)'
  OBVIOUS
<1>4. SumFunctionOnSet(f, Publishers) = SumFunctionOnSet(g, Publishers)
  BY <1>1, <1>2, <1>3, FiniteRoles, SumCongruence
<1> QED
  BY <1>2, <1>3, <1>4 DEF BusInv, Bounded, Published

---------------------------------------------------------------------------
(* The steps of Publish.                                                   *)

\* A publisher begins with one message more, and within the bound.
LEMMA PublishBus ==
  ASSUME BusInv, NEW p \in Publishers, NEW t \in Subjects, Publish(p, t)
  PROVE  BusInv'
<1>1. /\ UNCHANGED <<ctxDone, mu, closed, subs, wg, buffers, workers, isAlive, todo, sent>>
      /\ pc[p] = "idle" /\ pc' = [pc EXCEPT ![p] = "publish"] /\ Published(t) < MaxMsgs
      /\ subj' = [subj EXCEPT ![p] = t]
  BY DEF Publish, Goto
<1>2. /\ pc'[p] = "publish" /\ \A g \in Goroutines \ {p} : pc'[g] = pc[g]
      /\ subj'[p] = t /\ \A h \in (Publishers \cup Subs) \ {p} : subj'[h] = subj[h]
  BY <1>1 DEF BusInv, IInv, Types, Goroutines
<1>3. IInv'
  BY PublisherKeeps DEF BusInv
<1>4. Bounded'
  <2> DEFINE extra(u, q) == IF pc[q] = "publish" /\ subj[q] = u THEN 1 ELSE 0
  <2>1. \A u \in Subjects, q \in Publishers : sent[q][u] \in Nat
    BY PubSubAssumption DEF BusInv, TypeOK
  <2>2. \A u \in Subjects : PublishedBy(u)' =
          [q \in Publishers |-> sent[q][u] + IF pc'[q] = "publish" /\ subj'[q] = u THEN 1 ELSE 0]
    BY <1>1 DEF PublishedBy
  <2>3. \A u \in Subjects : PublishedBy(u)' \in [Publishers -> Nat]
    BY <2>1, <2>2
  <2>4. \A u \in Subjects : \A q \in Publishers \ {p} : PublishedBy(u)'[q] = PublishedBy(u)[q]
    BY <1>2, <2>2, PublishedNumbers DEF Goroutines
  <2>5. \A u \in Subjects : PublishedBy(u)'[p] = sent[p][u] + IF t = u THEN 1 ELSE 0
    BY <1>2, <2>2
  <2>6. \A u \in Subjects : PublishedBy(u)[p] = sent[p][u]
    BY <1>1, <2>1 DEF PublishedBy
  <2> QED
    BY <1>1, <2>1, <2>3, <2>4, <2>5, <2>6, BoundedMove
<1> QED
  BY <1>1, <1>2, <1>3, <1>4, QuietBus DEF PCs, Goroutines, Early, Open, BusInv, TypeOK

\* A publisher leaves without a message.
LEMMA PublishRefusedBus ==
  ASSUME BusInv, NEW p \in Publishers, PublishRefused(p)
  PROVE  BusInv'
<1>1. /\ UNCHANGED <<ctxDone, mu, closed, subs, wg, buffers, workers, isAlive, todo, sent, subj>>
      /\ pc[p] = "publish" /\ pc' = [pc EXCEPT ![p] = "idle"]
  BY DEF PublishRefused, Goto, callers
<1>2. pc'[p] = "idle" /\ \A g \in Goroutines \ {p} : pc'[g] = pc[g]
  BY <1>1 DEF BusInv, IInv, Types, Goroutines
<1>3. IInv'
  BY PublisherKeeps DEF BusInv, PublishGoesOn
<1>4. Bounded'
  <2>1. \A u \in Subjects, q \in Publishers : sent[q][u] \in Nat
    BY PubSubAssumption DEF BusInv, TypeOK
  <2>2. \A u \in Subjects : PublishedBy(u)' =
          [q \in Publishers |-> sent[q][u] + IF pc'[q] = "publish" /\ subj[q] = u THEN 1 ELSE 0]
    BY <1>1 DEF PublishedBy
  <2>3. \A u \in Subjects : PublishedBy(u)' \in [Publishers -> Nat]
    BY <2>1, <2>2
  <2>4. \A u \in Subjects : \A q \in Publishers \ {p} : PublishedBy(u)'[q] = PublishedBy(u)[q]
    BY <1>2, <2>2, PublishedNumbers DEF Goroutines
  <2>5. \A u \in Subjects : PublishedBy(u)'[p] <= PublishedBy(u)[p]
    BY <1>2, <2>1, <2>2, PublishedNumbers
  <2> QED
    BY <2>3, <2>4, <2>5, BoundedMove
<1> QED
  BY <1>1, <1>3, <1>4, QuietBus DEF PCs, Goroutines, Early, Open, BusInv, TypeOK

\* A publisher is done with its list.
LEMMA PublishReturnsBus ==
  ASSUME BusInv, NEW p \in Publishers, PublishReturns(p)
  PROVE  BusInv'
<1>1. /\ UNCHANGED <<ctxDone, mu, closed, subs, wg, buffers, workers, isAlive, todo, sent, subj>>
      /\ pc[p] = "send" /\ pc' = [pc EXCEPT ![p] = "idle"]
  BY DEF PublishReturns, Goto, callers
<1>2. IInv'
  BY PublisherKeeps DEF BusInv, PublishGoesOn
<1>3. Bounded'
  BY <1>1, BoundedStays DEF BusInv, IInv, Types, Goroutines
<1> QED
  BY <1>1, <1>2, <1>3, QuietBus DEF PCs, Goroutines, Early, Open, BusInv, TypeOK

\* A publisher takes its list over: every subscription on it has one message to get.
LEMMA PublishLocksBus ==
  ASSUME BusInv, NEW p \in Publishers, PublishLocks(p)
  PROVE  BusInv'
<1> DEFINE t == subj[p]
<1>1. /\ UNCHANGED <<ctxDone, mu, closed, subs, wg, buffers, workers, isAlive, subj>>
      /\ pc[p] = "publish" /\ pc' = [pc EXCEPT ![p] = "send"]
      /\ todo' = [todo EXCEPT ![p] = subs[t]]
      /\ sent' = [sent EXCEPT ![p][t] = @ + 1]
  BY DEF PublishLocks, Goto
<1>2. UNCHANGED <<in, inClosed, buf, out, outClosed, buffer, worker, seen>>
  BY <1>1 DEF buffers, workers
<1>3. pc'[p] = "send" /\ t \in Subjects /\ \A g \in Goroutines \ {p} : pc'[g] = pc[g]
  BY <1>1 DEF BusInv, IInv, Types, Goroutines
<1>4. IInv'
  BY PublisherKeeps DEF BusInv, PublishGoesOn
<1>5. /\ sent[p][t] \in Nat /\ sent[p][t] + 1 <= MaxMsgs
      /\ sent'[p][t] = sent[p][t] + 1
      /\ \A u \in Subjects \ {t} : sent'[p][u] = sent[p][u]
      /\ \A q \in Publishers \ {p} : sent'[q] = sent[q]
      /\ sent' \in [Publishers -> [Subjects -> 0..MaxMsgs]]
  <2>1. sent \in [Publishers -> [Subjects -> 0..MaxMsgs]] /\ sent[p][t] \in 0..MaxMsgs /\ MaxMsgs \in Nat
    BY <1>3, PubSubAssumption DEF BusInv, TypeOK
  <2>2. sent[p][t] + 1 = PublishedBy(t)[p]
    BY <1>1, <1>3, PublishedNumbers
  <2>3. sent[p][t] + 1 <= MaxMsgs
    BY <1>3, <2>2, OneOfAll
  <2> QED
    BY <1>1, <1>3, <2>1, <2>3
<1>6. WgExact'
  BY <1>1, <1>2 DEF BusInv, WgExact
<1>7. TypeOK'
  <2>1. RestTypes'
    BY <1>1, <1>2, <1>5, RestTyped DEF BusInv, RestTypes
  <2> QED
    BY <1>4, <1>6, <2>1, TypesNext
<1>8. Pipes'
  <2> SUFFICES ASSUME NEW s \in Subs
               PROVE  /\ pc'[s] \in Early => buffer[s] = "off" /\ worker[s] = "off" /\ ~outClosed[s]
                      /\ pc'[s] \in Open /\ ~inClosed[s] => buffer[s] = "on"
                      /\ pc'[s] \notin {"subscribed", "remove", "gone"}
                           => in[s] = << >> /\ buf[s] = << >> /\ out[s] = << >>
    BY <1>2 DEF BusInv, Pipes, PipeOf
  <2>1. CASE s = p
    BY <1>1, <1>3, <2>1 DEF BusInv, Pipes, PipeOf, Early, Open
  <2>2. CASE s # p
    BY <1>3, <2>2 DEF BusInv, Pipes, PipeOf, Goroutines
  <2> QED
    BY <2>1, <2>2
<1>9. TableGone' /\ CloseIsFinal'
  <2>1. \A c \in Closers : pc'[c] \in {"waitWg", "closed"} => pc'[c] = pc[c]
    BY <1>3 DEF Goroutines
  <2>2. TableGone'
    BY <1>1, <2>1 DEF BusInv, TableGone
  <2>3. CloseIsFinal'
    BY <1>1, <1>2, <2>1 DEF BusInv, CloseIsFinal
  <2> QED
    BY <2>2, <2>3
<1>10. \A q \in Publishers \ {p} : todo'[q] = todo[q]
  BY <1>1 DEF BusInv, IInv, Types
<1>11. todo'[p] = subs[t] /\ todo[p] = << >>
  BY <1>1 DEF BusInv, IInv, Types, TodoListed
<1>12. TodoOnce'
  BY <1>3, <1>10, <1>11 DEF BusInv, IInv, ListsExact, TodoOnce
<1>13. Bounded'
  <2>1. \A u \in Subjects, q \in Publishers : sent[q][u] \in Nat /\ sent'[q][u] \in Nat
    BY <1>5, PubSubAssumption DEF BusInv, TypeOK
  <2>2. \A u \in Subjects : PublishedBy(u)' =
          [q \in Publishers |-> sent'[q][u] + IF pc'[q] = "publish" /\ subj[q] = u THEN 1 ELSE 0]
    BY <1>1 DEF PublishedBy
  <2>3. \A u \in Subjects : PublishedBy(u)' \in [Publishers -> Nat]
    BY <2>1, <2>2
  <2>4. \A u \in Subjects : \A q \in Publishers \ {p} : PublishedBy(u)'[q] = PublishedBy(u)[q]
    BY <1>3, <1>5, <2>2, PublishedNumbers DEF Goroutines
  <2>5. \A u \in Subjects : PublishedBy(u)'[p] <= PublishedBy(u)[p]
    <3> TAKE u \in Subjects
    <3>1. PublishedBy(u)'[p] = sent'[p][u]
      BY <1>3, <2>1, <2>2
    <3>2. PublishedBy(u)[p] = sent[p][u] + IF t = u THEN 1 ELSE 0
      BY <1>1, <2>1, PublishedNumbers
    <3> QED
      BY <1>5, <2>1, <3>1, <3>2
  <2> QED
    BY <2>3, <2>4, <2>5, BoundedMove
<1>14. Streams'
  <2> SUFFICES ASSUME NEW s \in Subs, Registered(s)'
               PROVE  Registered(s) /\ \A q \in Publishers : Reached(s, q)' = Reached(s, q)
    BY <1>1, <1>2, StreamsKept
  <2>1. Registered(s)
    BY <1>1 DEF Registered
  <2>2. Reached(s, p)' = Reached(s, p)
    <3>1. s \notin ToSet(todo[p]) /\ subj'[s] = subj[s] /\ subj[s] \in Subjects
      BY <1>1, <1>11, EmptyList DEF BusInv, IInv, Types
    <3>2. CASE subj[s] = t
      <4>1. s \in ToSet(todo'[p])
        BY <1>11, <2>1, <3>2 DEF Registered
      <4>2. Reached(s, p)' = sent'[p][t] - 1
        BY <3>1, <3>2, <4>1 DEF Reached
      <4> QED
        BY <1>5, <3>1, <3>2, <4>2 DEF Reached
    <3>3. CASE subj[s] # t
      <4>1. s \notin ToSet(todo'[p])
        BY <1>3, <1>11, <3>3 DEF BusInv, IInv, ListsExact
      <4> QED
        BY <1>5, <3>1, <3>3, <4>1 DEF Reached
    <3> QED
      BY <3>2, <3>3
  <2>3. \A q \in Publishers \ {p} : Reached(s, q)' = Reached(s, q)
    BY <1>1, <1>5, <1>10 DEF Reached
  <2> QED
    BY <2>1, <2>2, <2>3
<1> QED
  BY <1>4, <1>6, <1>7, <1>8, <1>9, <1>12, <1>13, <1>14 DEF BusInv

---------------------------------------------------------------------------
(* The steps inside one subscription.                                      *)

\* A step that touches nothing but the channels and goroutines of s.
LEMMA PipeMove ==
  ASSUME BusInv, IInv', RestTypes', WgExact', TodoOnce', NEW s \in Subs,
         UNCHANGED <<closed, subs, inClosed, subj, sent, pc>>,
         \A r \in Subs \ {s} :
           /\ in'[r] = in[r] /\ buf'[r] = buf[r] /\ out'[r] = out[r] /\ outClosed'[r] = outClosed[r]
           /\ buffer'[r] = buffer[r] /\ worker'[r] = worker[r] /\ seen'[r] = seen[r]
           /\ \A p \in Publishers : Reached(r, p)' = Reached(r, p),
         PipeOf(s)',
         (\E c \in Closers : pc[c] = "closed") =>
           worker'[s] # "handler" /\ in'[s] \o buf'[s] \o out'[s] = << >>,
         \A p \in Publishers :
           \E n \in seen'[s][p]..MaxMsgs :
             /\ Consecutive(Underway(s)', p, seen'[s][p], n)
             /\ Registered(s) => n = Reached(s, p)'
  PROVE  BusInv'
<1>1. TypeOK'
  BY TypesNext
<1>2. Pipes'
  <2>1. ASSUME NEW r \in Subs \ {s} PROVE PipeOf(r)'
    <3>1. PipeOf(r)
      BY DEF BusInv, Pipes
    <3> QED
      BY <3>1 DEF PipeOf
  <2> QED
    BY <2>1 DEF Pipes
<1>3. TableGone' /\ Bounded'
  BY BoundedStays DEF BusInv, TableGone
<1>4. CloseIsFinal'
  BY DEF BusInv, CloseIsFinal
<1>5. Streams'
  <2> SUFFICES ASSUME NEW r \in Subs, NEW p \in Publishers
               PROVE  \E n \in seen'[r][p]..MaxMsgs :
                        /\ Consecutive(Underway(r)', p, seen'[r][p], n)
                        /\ Registered(r) => n = Reached(r, p)'
    BY DEF Streams, Registered
  <2>1. CASE r = s
    BY <2>1
  <2>2. CASE r # s
    <3>1. Underway(r)' = Underway(r)
      BY <2>2 DEF Underway
    <3>2. \E n \in seen[r][p]..MaxMsgs :
            /\ Consecutive(Underway(r), p, seen[r][p], n)
            /\ Registered(r) => n = Reached(r, p)
      BY DEF BusInv, Streams
    <3>3. seen'[r] = seen[r] /\ Reached(r, p)' = Reached(r, p)
      BY <2>2
    <3> QED
      BY <3>1, <3>2, <3>3
  <2> QED
    BY <2>1, <2>2
<1> QED
  BY <1>1, <1>2, <1>3, <1>4, <1>5 DEF BusInv

\* The first of a list without duplicates is not among the rest.
LEMMA TailOnce ==
  ASSUME NEW S, NEW list \in Seq(S), list # << >>, NoDuplicates(list)
  PROVE  /\ NoDuplicates(Tail(list)) /\ Head(list) \in S
         /\ Head(list) \in ToSet(list)
         /\ ToSet(Tail(list)) = ToSet(list) \ {Head(list)}
<1>1. PICK rest : rest = Tail(list)
  OBVIOUS
<1>2. PICK k : k = Len(list)
  OBVIOUS
<1>3. /\ k \in Nat /\ k > 0 /\ DOMAIN list = 1..k /\ DOMAIN rest = 1..(k - 1)
      /\ Head(list) = list[1] /\ list[1] \in S
      /\ \A i \in 1..(k - 1) : rest[i] = list[i + 1]
  BY <1>1, <1>2
<1>4. NoDuplicates(rest)
  <2> SUFFICES ASSUME NEW i \in 1..(k - 1), NEW j \in 1..(k - 1), rest[i] = rest[j] PROVE i = j
    BY <1>3 DEF NoDuplicates
  <2>1. i + 1 \in 1..k /\ j + 1 \in 1..k /\ list[i + 1] = list[j + 1]
    BY <1>3
  <2>2. i + 1 = j + 1
    BY <1>3, <2>1 DEF NoDuplicates
  <2> QED
    BY <2>2
<1>5. 1 \in DOMAIN list
  BY <1>3
<1>6. ASSUME NEW i \in 1..(k - 1) PROVE rest[i] \in ToSet(list) \ {list[1]}
  <2>1. i + 1 \in 1..k /\ i + 1 # 1 /\ rest[i] = list[i + 1]
    BY <1>3
  <2>2. list[i + 1] # list[1]
    BY <1>3, <1>5, <2>1 DEF NoDuplicates
  <2> QED
    BY <1>3, <2>1, <2>2 DEF ToSet
<1>7. ASSUME NEW i \in 1..k, list[i] # list[1] PROVE list[i] \in ToSet(rest)
  <2>1. i # 1
    BY <1>7
  <2>2. i - 1 \in 1..(k - 1) /\ (i - 1) + 1 = i
    BY <1>3, <2>1
  <2>3. rest[i - 1] = list[i]
    BY <1>3, <2>2
  <2> QED
    BY <1>3, <2>2, <2>3 DEF ToSet
<1>8. ToSet(rest) = ToSet(list) \ {list[1]}
  BY <1>3, <1>6, <1>7, ZenonT(30) DEF ToSet
<1>9. list[1] \in ToSet(list)
  BY <1>5 DEF ToSet
<1> QED
  BY <1>1, <1>3, <1>4, <1>8, <1>9

\* What there is to know of a subscription.
LEMMA PipeFacts ==
  ASSUME BusInv, NEW s \in Subs
  PROVE  /\ in[s] \in Seq(Msgs) /\ buf[s] \in Seq(Msgs) /\ out[s] \in Seq(Msgs)
         /\ Underway(s) \in Seq(Msgs) /\ Underway(s) = out[s] \o buf[s] \o in[s]
         /\ Len(in[s]) <= Chan /\ Len(out[s]) <= Chan
         /\ \A p \in Publishers : seen[s][p] \in 0..MaxMsgs
         /\ PipeOf(s)
<1>1. in[s] \in Seq(Msgs) /\ buf[s] \in Seq(Msgs) /\ out[s] \in Seq(Msgs)
  BY DEF BusInv, TypeOK
<1>2. Underway(s) \in Seq(Msgs)
  BY <1>1 DEF Underway
<1> QED
  BY <1>1, <1>2 DEF BusInv, TypeOK, Pipes, Underway

\* The stream of a publisher, as the invariant has it.
LEMMA StreamOf ==
  ASSUME BusInv, NEW s \in Subs, NEW p \in Publishers
  PROVE  \E n \in seen[s][p]..MaxMsgs :
           /\ n \in Nat /\ seen[s][p] \in Nat /\ seen[s][p] <= n /\ n <= MaxMsgs
           /\ Consecutive(Underway(s), p, seen[s][p], n)
           /\ Registered(s) => n = Reached(s, p)
<1>1. PICK n \in seen[s][p]..MaxMsgs :
           /\ Consecutive(Underway(s), p, seen[s][p], n)
           /\ Registered(s) => n = Reached(s, p)
  BY DEF BusInv, Streams
<1>2. seen[s][p] \in 0..MaxMsgs
  BY PipeFacts
<1>3. n \in Nat /\ seen[s][p] \in Nat /\ seen[s][p] <= n /\ n <= MaxMsgs
  BY <1>2, PubSubAssumption
<1> QED
  BY <1>1, <1>3

\* A subscription gets the message of the publisher that reaches it.
LEMMA SendBus ==
  ASSUME BusInv, NEW p \in Publishers, Send(p)
  PROVE  BusInv'
<1>1. PICK s : s = Head(todo[p])
  OBVIOUS
<1>2. PICK m : m = [from |-> p, no |-> sent[p][subj[p]]]
  OBVIOUS
<1>3. /\ UNCHANGED <<ctxDone, mu, closed, subs, wg, inClosed, buf, out, outClosed, buffer,
                     worker, seen, isAlive, subj, sent, pc>>
      /\ pc[p] = "send" /\ todo[p] # << >> /\ Len(in[s]) < Chan
      /\ in' = [in EXCEPT ![s] = Append(in[s], m)]
      /\ todo' = [todo EXCEPT ![p] = Tail(todo[p])]
  BY <1>1, <1>2 DEF Send, workers
<1>4. todo[p] \in Seq(Subs) /\ NoDuplicates(todo[p]) /\ subj[p] \in Subjects
  BY DEF BusInv, IInv, Types, TodoOnce
<1>5. /\ s \in Subs /\ s \in ToSet(todo[p])
      /\ ToSet(Tail(todo[p])) = ToSet(todo[p]) \ {s} /\ NoDuplicates(Tail(todo[p]))
  BY <1>1, <1>3, <1>4, TailOnce
<1>6. s \in ToSet(subs[subj[p]])
  BY <1>3, <1>5 DEF BusInv, IInv, TodoListed
<1>7. subj[s] = subj[p] /\ pc[s] \in {"subscribed", "remove"} /\ ~inClosed[s] /\ Registered(s)
  BY <1>4, <1>6 DEF BusInv, IInv, ListsExact, Registered
<1>8. buffer[s] = "on"
  BY <1>5, <1>7, PipeFacts DEF PipeOf, Open
<1>9. ~closed
  BY <1>3, NobodySends
<1>10. IInv'
  BY PublisherKeeps DEF BusInv, PublishGoesOn
<1>11. /\ todo'[p] = Tail(todo[p]) /\ \A q \in Publishers \ {p} : todo'[q] = todo[q]
       /\ in'[s] = Append(in[s], m) /\ \A r \in Subs \ {s} : in'[r] = in[r]
  BY <1>3, <1>5 DEF BusInv, IInv, Types, TypeOK
<1>12. PICK n \in Nat : /\ seen[s][p] \in Nat /\ seen[s][p] <= n /\ n <= MaxMsgs
                        /\ Consecutive(Underway(s), p, seen[s][p], n)
                        /\ n = Reached(s, p)
  BY <1>5, <1>7, StreamOf
<1>13. n + 1 = sent[p][subj[p]] /\ n + 1 \in 1..MaxMsgs
  <2>1. sent[p][subj[p]] \in 0..MaxMsgs /\ MaxMsgs \in Nat
    BY <1>4, PubSubAssumption DEF BusInv, TypeOK
  <2>2. n = sent[p][subj[p]] - 1
    BY <1>5, <1>7, <1>12 DEF Reached
  <2> QED
    BY <2>1, <2>2
<1>14. m \in Msgs /\ m.from = p /\ m.no = n + 1
  BY <1>2, <1>13 DEF Msgs
<1>15. RestTypes'
  <2>1. /\ RestTypes /\ Len(in[s]) \in Nat /\ Chan \in Nat
    BY <1>5, RestTyped, PipeFacts, PubSubAssumption DEF BusInv
  <2>2. in'[s] \in Seq(Msgs) /\ Len(in'[s]) <= Chan
    <3>1. in[s] \in Seq(Msgs)
      BY <1>5, PipeFacts
    <3>2. Append(in[s], m) \in Seq(Msgs) /\ Len(Append(in[s], m)) = Len(in[s]) + 1
      BY <1>14, <3>1
    <3> QED
      BY <1>3, <1>11, <2>1, <3>2
  <2>3. in' \in [Subs -> Seq(Msgs)]
    BY <1>3, <1>5, <1>11, <2>1, <2>2 DEF RestTypes
  <2>4. \A r \in Subs : Len(in'[r]) <= Chan
    BY <1>11, <2>1, <2>2 DEF RestTypes
  <2> QED
    BY <1>3, <2>1, <2>3, <2>4 DEF RestTypes
<1>16. WgExact'
  BY <1>3 DEF BusInv, WgExact
<1>17. TodoOnce'
  BY <1>5, <1>11 DEF BusInv, TodoOnce
<1>18. \A r \in Subs, q \in Publishers : r # s \/ q # p => Reached(r, q)' = Reached(r, q)
  BY <1>3, <1>5, <1>11 DEF Reached
<1>19. Reached(s, p)' = n + 1
  BY <1>3, <1>5, <1>7, <1>11, <1>13 DEF Reached
<1>20. PipeOf(s)'
  <2>1. PipeOf(s)
    BY <1>5, PipeFacts
  <2> QED
    BY <1>3, <1>7, <1>8, <2>1 DEF PipeOf, Early, Open
<1>21. Underway(s)' = Append(Underway(s), m)
  <2>1. Underway(s)' = out[s] \o buf[s] \o Append(in[s], m)
    BY <1>3, <1>11 DEF Underway
  <2>2. in[s] \in Seq(Msgs) /\ buf[s] \in Seq(Msgs) /\ out[s] \in Seq(Msgs)
    BY <1>5, PipeFacts
  <2>3. out[s] \o buf[s] \o Append(in[s], m) = Append(out[s] \o buf[s] \o in[s], m)
    <3>1. PICK x, y, z \in Seq(Msgs) : x = out[s] /\ y = buf[s] /\ z = in[s]
      BY <2>2
    <3>2. x \o y \o Append(z, m) = Append(x \o y \o z, m)
      <4>1. m \in Msgs
        BY <1>14
      <4> QED
        BY <4>1, StreamMoves
    <3> QED
      BY <3>1, <3>2
  <2> QED
    BY <2>1, <2>3 DEF Underway
<1>22. ASSUME NEW q \in Publishers
       PROVE  \E k \in seen'[s][q]..MaxMsgs :
                /\ Consecutive(Underway(s)', q, seen'[s][q], k)
                /\ Registered(s) => k = Reached(s, q)'
  <2>1. Underway(s) \in Seq(Msgs)
    BY <1>5, PipeFacts
  <2>2. CASE q = p
    <3>1. Consecutive(Append(Underway(s), m), p, seen[s][p], n + 1)
      BY <1>12, <1>14, <2>1, StreamAppend
    <3>2. n + 1 \in seen[s][p]..MaxMsgs
      BY <1>12, <1>13
    <3> QED
      BY <1>3, <1>19, <1>21, <2>2, <3>1, <3>2
  <2>3. CASE q # p
    <3>1. PICK k \in seen[s][q]..MaxMsgs :
            /\ k \in Nat /\ seen[s][q] \in Nat /\ seen[s][q] <= k
            /\ Consecutive(Underway(s), q, seen[s][q], k)
            /\ Registered(s) => k = Reached(s, q)
      BY <1>5, StreamOf
    <3>2. Consecutive(Append(Underway(s), m), q, seen[s][q], k)
      BY <1>14, <2>1, <2>3, <3>1, StreamAppend
    <3> QED
      BY <1>3, <1>5, <1>18, <1>21, <2>3, <3>1, <3>2
  <2> QED
    BY <2>2, <2>3
<1>23. \A c \in Closers : pc[c] # "closed"
  BY <1>9 DEF BusInv, TableGone
<1> QED
  BY <1>3, <1>5, <1>10, <1>11, <1>15, <1>16, <1>17, <1>18, <1>20, <1>22, <1>23, PipeMove

\* What is under way is gone when a Close returns.
LEMMA NotYetClosed ==
  ASSUME BusInv, NEW s \in Subs,
         worker[s] = "handler" \/ in[s] # << >> \/ buf[s] # << >> \/ out[s] # << >>
  PROVE  \A c \in Closers : pc[c] # "closed"
<1> SUFFICES ASSUME NEW c \in Closers, pc[c] = "closed" PROVE FALSE
  OBVIOUS
<1>1. worker[s] # "handler" /\ in[s] \o buf[s] \o out[s] = << >>
  BY DEF BusInv, CloseIsFinal
<1>2. PICK x, y, z \in Seq(Msgs) : x = in[s] /\ y = buf[s] /\ z = out[s]
  BY PipeFacts
<1>3. x \o y \o z = << >> => x = << >> /\ y = << >> /\ z = << >>
  OBVIOUS
<1> QED
  BY <1>1, <1>2, <1>3

\* A step inside s that leaves its stream as it is.
LEMMA PipeShift ==
  ASSUME BusInv, IInv', RestTypes', WgExact', NEW s \in Subs,
         UNCHANGED <<closed, subs, inClosed, subj, sent, pc, todo, seen>>,
         \A r \in Subs \ {s} :
           /\ in'[r] = in[r] /\ buf'[r] = buf[r] /\ out'[r] = out[r] /\ outClosed'[r] = outClosed[r]
           /\ buffer'[r] = buffer[r] /\ worker'[r] = worker[r],
         PipeOf(s)', Underway(s)' = Underway(s),
         worker'[s] = "handler" => worker[s] = "handler",
         (\E c \in Closers : pc[c] = "closed") => UNCHANGED <<in, buf, out>>
  PROVE  BusInv'
<1>1. TodoOnce'
  BY DEF BusInv, TodoOnce
<1>2. \A r \in Subs, p \in Publishers : Reached(r, p)' = Reached(r, p)
  BY DEF Reached
<1>3. (\E c \in Closers : pc[c] = "closed") =>
        worker'[s] # "handler" /\ in'[s] \o buf'[s] \o out'[s] = << >>
  BY DEF BusInv, CloseIsFinal
<1>4. ASSUME NEW p \in Publishers
      PROVE  \E n \in seen'[s][p]..MaxMsgs :
               /\ Consecutive(Underway(s)', p, seen'[s][p], n)
               /\ Registered(s) => n = Reached(s, p)'
  <2>1. PICK n \in seen[s][p]..MaxMsgs :
          /\ Consecutive(Underway(s), p, seen[s][p], n)
          /\ Registered(s) => n = Reached(s, p)
    BY DEF BusInv, Streams
  <2> QED
    BY <1>2, <2>1
<1> QED
  BY <1>1, <1>2, <1>3, <1>4, PipeMove

\* The buffer takes a message over.
LEMMA BufferTakesBus ==
  ASSUME BusInv, NEW s \in Subs, BufferTakes(s)
  PROVE  BusInv'
<1>1. /\ UNCHANGED <<ctxDone, mu, closed, subs, wg, inClosed, out, outClosed, buffer,
                     worker, seen, isAlive, todo, subj, sent, pc>>
      /\ buffer[s] = "on" /\ in[s] # << >>
      /\ buf' = [buf EXCEPT ![s] = Append(buf[s], Head(in[s]))]
      /\ in' = [in EXCEPT ![s] = Tail(in[s])]
  BY DEF BufferTakes, workers, callers
<1>2. IInv'
  BY PipeKeeps DEF BusInv, BufferGoesOn
<1>3. in \in [Subs -> Seq(Msgs)] /\ buf \in [Subs -> Seq(Msgs)]
  BY DEF BusInv, TypeOK
<1>4. PICK x, y, z \in Seq(Msgs) : x = out[s] /\ y = buf[s] /\ z = in[s]
  BY PipeFacts
<1>5. /\ in'[s] = Tail(z) /\ \A r \in Subs \ {s} : in'[r] = in[r]
      /\ buf'[s] = Append(y, Head(z)) /\ \A r \in Subs \ {s} : buf'[r] = buf[r]
  BY <1>1, <1>3, <1>4
<1>6. z # << >> /\ Tail(z) \in Seq(Msgs) /\ Append(y, Head(z)) \in Seq(Msgs) /\ Len(Tail(z)) <= Len(z)
  BY <1>1, <1>4
<1>7. RestTypes'
  <2>1. RestTypes /\ \A r \in Subs : Len(in[r]) \in Nat /\ Chan \in Nat
    BY <1>3, RestTyped, PubSubAssumption DEF BusInv
  <2>2. in' \in [Subs -> Seq(Msgs)] /\ buf' \in [Subs -> Seq(Msgs)]
    BY <1>1, <1>3, <1>4, <1>6
  <2>3. \A r \in Subs : Len(in'[r]) <= Chan
    <3>1. Len(z) \in Nat /\ Len(Tail(z)) \in Nat /\ Len(z) <= Chan
      <4>1. Len(in[s]) <= Chan
        BY PipeFacts
      <4> QED
        BY <1>4, <1>6, <4>1
    <3>2. Len(in'[s]) <= Chan
      BY <1>5, <1>6, <2>1, <3>1
    <3> QED
      BY <1>5, <2>1, <3>2 DEF RestTypes
  <2> QED
    BY <1>1, <2>1, <2>2, <2>3 DEF RestTypes
<1>8. WgExact'
  BY <1>1 DEF BusInv, WgExact
<1>9. PipeOf(s)'
  <2>1. PipeOf(s)
    BY PipeFacts
  <2> QED
    BY <1>1, <2>1 DEF PipeOf
<1>10. Underway(s)' = Underway(s)
  <2>1. x \o Append(y, Head(z)) \o Tail(z) = x \o y \o z
    BY <1>6, StreamMoves, SMTT(30)
  <2> QED
    BY <1>1, <1>4, <1>5, <2>1 DEF Underway
<1>11. \A c \in Closers : pc[c] # "closed"
  BY <1>1, NotYetClosed
<1> QED
  BY <1>1, <1>2, <1>5, <1>7, <1>8, <1>9, <1>10, <1>11, PipeShift

\* The buffer gives a message on.
LEMMA BufferGivesBus ==
  ASSUME BusInv, NEW s \in Subs, BufferGives(s)
  PROVE  BusInv'
<1>1. /\ UNCHANGED <<ctxDone, mu, closed, subs, wg, in, inClosed, outClosed, buffer,
                     worker, seen, isAlive, todo, subj, sent, pc>>
      /\ buffer[s] \in {"on", "drain"} /\ buf[s] # << >> /\ Len(out[s]) < Chan
      /\ out' = [out EXCEPT ![s] = Append(out[s], Head(buf[s]))]
      /\ buf' = [buf EXCEPT ![s] = Tail(buf[s])]
  BY DEF BufferGives, workers, callers
<1>2. IInv'
  BY PipeKeeps DEF BusInv, BufferGoesOn
<1>3. out \in [Subs -> Seq(Msgs)] /\ buf \in [Subs -> Seq(Msgs)]
  BY DEF BusInv, TypeOK
<1>4. PICK x, y, z \in Seq(Msgs) : x = out[s] /\ y = buf[s] /\ z = in[s]
  BY PipeFacts
<1>5. /\ buf'[s] = Tail(y) /\ \A r \in Subs \ {s} : buf'[r] = buf[r]
      /\ out'[s] = Append(x, Head(y)) /\ \A r \in Subs \ {s} : out'[r] = out[r]
  BY <1>1, <1>3, <1>4
<1>6. /\ y # << >> /\ Tail(y) \in Seq(Msgs) /\ Append(x, Head(y)) \in Seq(Msgs)
      /\ Len(Append(x, Head(y))) = Len(x) + 1 /\ Len(x) \in Nat
  BY <1>1, <1>4
<1>7. RestTypes'
  <2>1. RestTypes /\ Chan \in Nat
    BY RestTyped, PubSubAssumption DEF BusInv
  <2>2. out' \in [Subs -> Seq(Msgs)] /\ buf' \in [Subs -> Seq(Msgs)]
    BY <1>1, <1>3, <1>4, <1>6
  <2>3. Len(out'[s]) <= Chan
    BY <1>1, <1>4, <1>5, <1>6, <2>1
  <2>4. \A r \in Subs : Len(out'[r]) <= Chan
    BY <1>5, <2>1, <2>3 DEF RestTypes
  <2> QED
    BY <1>1, <2>1, <2>2, <2>4 DEF RestTypes
<1>8. WgExact'
  BY <1>1 DEF BusInv, WgExact
<1>9. PipeOf(s)'
  <2>1. PipeOf(s)
    BY PipeFacts
  <2> QED
    BY <1>1, <2>1 DEF PipeOf
<1>10. Underway(s)' = Underway(s)
  <2>1. Append(x, Head(y)) \o Tail(y) \o z = x \o y \o z
    BY <1>6, StreamMoves, SMTT(30)
  <2> QED
    BY <1>1, <1>4, <1>5, <2>1 DEF Underway
<1>11. \A c \in Closers : pc[c] # "closed"
  BY <1>1, NotYetClosed
<1> QED
  BY <1>1, <1>2, <1>5, <1>7, <1>8, <1>9, <1>10, <1>11, PipeShift

\* The buffer learns that there will be no more.
LEMMA BufferDrainsBus ==
  ASSUME BusInv, NEW s \in Subs, BufferDrains(s)
  PROVE  BusInv'
<1>1. /\ UNCHANGED <<ctxDone, mu, closed, subs, wg, in, inClosed, buf, out, outClosed,
                     worker, seen, isAlive, todo, subj, sent, pc>>
      /\ buffer[s] = "on" /\ in[s] = << >> /\ inClosed[s]
      /\ buffer' = [buffer EXCEPT ![s] = "drain"]
  BY DEF BufferDrains, workers, callers
<1>2. IInv'
  BY PipeKeeps DEF BusInv, BufferGoesOn
<1>3. RestTypes /\ RestTypes'
  BY <1>1, RestTyped DEF BusInv, RestTypes
<1>4. buffer'[s] = "drain" /\ \A r \in Subs \ {s} : buffer'[r] = buffer[r]
  BY <1>1, <1>3 DEF RestTypes
<1>5. WgExact'
  <2>1. {r \in Subs : buffer'[r] # "off"} = {r \in Subs : buffer[r] # "off"}
    BY <1>1, <1>4
  <2> QED
    BY <1>1, <2>1 DEF BusInv, WgExact
<1>6. PipeOf(s)'
  <2>1. PipeOf(s)
    BY PipeFacts
  <2> QED
    BY <1>1, <1>4, <2>1 DEF PipeOf
<1>7. Underway(s)' = Underway(s)
  BY <1>1 DEF Underway
<1> QED
  BY <1>1, <1>2, <1>3, <1>4, <1>5, <1>6, <1>7, PipeShift

\* The handler is done with a message.
LEMMA HandlerReturnsBus ==
  ASSUME BusInv, NEW s \in Subs, HandlerReturns(s)
  PROVE  BusInv'
<1>1. /\ UNCHANGED <<ctxDone, mu, closed, subs, wg, in, inClosed, buf, out, outClosed,
                     buffer, seen, isAlive, todo, subj, sent, pc>>
      /\ worker[s] = "handler" /\ worker' = [worker EXCEPT ![s] = "on"]
  BY DEF HandlerReturns, buffers, callers
<1>2. IInv'
  BY PipeKeeps DEF BusInv
<1>3. RestTypes /\ RestTypes'
  BY <1>1, RestTyped DEF BusInv, RestTypes
<1>4. worker'[s] = "on" /\ \A r \in Subs \ {s} : worker'[r] = worker[r]
  BY <1>1, <1>3 DEF RestTypes
<1>5. WgExact'
  <2>1. {r \in Subs : worker'[r] # "off"} = {r \in Subs : worker[r] # "off"}
    BY <1>1, <1>4
  <2> QED
    BY <1>1, <2>1 DEF BusInv, WgExact
<1>6. PipeOf(s)'
  <2>1. PipeOf(s)
    BY PipeFacts
  <2> QED
    BY <1>1, <1>4, <2>1 DEF PipeOf, Early
<1>7. Underway(s)' = Underway(s)
  BY <1>1 DEF Underway
<1> QED
  BY <1>1, <1>2, <1>3, <1>4, <1>5, <1>6, <1>7, PipeShift

\* The buffer ends: one goroutine less.
LEMMA BufferEndsBus ==
  ASSUME BusInv, NEW s \in Subs, BufferEnds(s)
  PROVE  BusInv'
<1>1. /\ UNCHANGED <<ctxDone, mu, closed, subs, in, inClosed, buf, out,
                     worker, seen, isAlive, todo, subj, sent, pc>>
      /\ buffer[s] = "drain" /\ buf[s] = << >>
      /\ outClosed' = [outClosed EXCEPT ![s] = TRUE]
      /\ buffer' = [buffer EXCEPT ![s] = "off"]
      /\ wg' = wg - 1
  BY DEF BufferEnds, workers, callers
<1>2. IInv'
  BY PipeKeeps DEF BusInv, BufferGoesOn
<1>3. RestTypes /\ RestTypes'
  BY <1>1, RestTyped DEF BusInv, RestTypes
<1>4. /\ buffer'[s] = "off" /\ \A r \in Subs \ {s} : buffer'[r] = buffer[r]
      /\ \A r \in Subs \ {s} : outClosed'[r] = outClosed[r]
  BY <1>1, <1>3 DEF RestTypes
<1>5. WgExact'
  <2>1. PICK b : b = {r \in Subs : buffer[r] # "off"}
    OBVIOUS
  <2>2. PICK w : w = {r \in Subs : worker[r] # "off"}
    OBVIOUS
  <2>3. {r \in Subs : buffer'[r] # "off"} = b \ {s} /\ s \in b /\ IsFiniteSet(b) /\ w \in SUBSET Subs /\ b \in SUBSET Subs
    BY <1>1, <1>4, <2>1, <2>2, FiniteRoles
  <2>4. Cardinality(b \ {s}) = Cardinality(b) - 1
    BY <2>3, FS_RemoveElement
  <2>5. wg = Cardinality(b) + Cardinality(w)
    BY <2>1, <2>2 DEF BusInv, WgExact
  <2>6. Cardinality(b) \in Nat /\ Cardinality(w) \in Nat
    BY <2>3, FiniteRoles
  <2>7. wg' = Cardinality(b \ {s}) + Cardinality(w)
    BY <1>1, <2>4, <2>5, <2>6
  <2> QED
    BY <1>1, <2>2, <2>3, <2>7 DEF WgExact
<1>6. PipeOf(s)'
  <2>1. PipeOf(s)
    BY PipeFacts
  <2>2. pc[s] \notin Early /\ ~(pc[s] \in Open /\ ~inClosed[s])
    BY <1>1, <2>1 DEF PipeOf
  <2> QED
    BY <1>1, <1>4, <2>1, <2>2 DEF PipeOf
<1>7. Underway(s)' = Underway(s)
  BY <1>1 DEF Underway
<1> QED
  BY <1>1, <1>2, <1>3, <1>4, <1>5, <1>6, <1>7, PipeShift

\* The worker ends: one goroutine less.
LEMMA WorkerEndsBus ==
  ASSUME BusInv, NEW s \in Subs, WorkerEnds(s)
  PROVE  BusInv'
<1>1. /\ UNCHANGED <<ctxDone, mu, closed, subs, in, inClosed, buf, out, outClosed, buffer,
                     seen, isAlive, todo, subj, sent, pc>>
      /\ worker[s] = "on" /\ out[s] = << >> /\ outClosed[s]
      /\ worker' = [worker EXCEPT ![s] = "off"]
      /\ wg' = wg - 1
  BY DEF WorkerEnds, buffers, callers
<1>2. IInv'
  BY PipeKeeps DEF BusInv, WorkerGoesOn
<1>3. RestTypes /\ RestTypes'
  BY <1>1, RestTyped DEF BusInv, RestTypes
<1>4. worker'[s] = "off" /\ \A r \in Subs \ {s} : worker'[r] = worker[r]
  BY <1>1, <1>3 DEF RestTypes
<1>5. WgExact'
  <2>1. PICK b : b = {r \in Subs : buffer[r] # "off"}
    OBVIOUS
  <2>2. PICK w : w = {r \in Subs : worker[r] # "off"}
    OBVIOUS
  <2>3. {r \in Subs : worker'[r] # "off"} = w \ {s} /\ s \in w /\ IsFiniteSet(w) /\ w \in SUBSET Subs /\ b \in SUBSET Subs
    BY <1>1, <1>4, <2>1, <2>2, FiniteRoles
  <2>4. Cardinality(w \ {s}) = Cardinality(w) - 1
    BY <2>3, FS_RemoveElement
  <2>5. wg = Cardinality(b) + Cardinality(w)
    BY <2>1, <2>2 DEF BusInv, WgExact
  <2>6. Cardinality(b) \in Nat /\ Cardinality(w) \in Nat
    BY <2>3, FiniteRoles
  <2>7. wg' = Cardinality(b) + Cardinality(w \ {s})
    BY <1>1, <2>4, <2>5, <2>6
  <2> QED
    BY <1>1, <2>1, <2>3, <2>7 DEF WgExact
<1>6. PipeOf(s)'
  <2>1. PipeOf(s)
    BY PipeFacts
  <2> QED
    BY <1>1, <1>4, <2>1 DEF PipeOf
<1>7. Underway(s)' = Underway(s)
  BY <1>1 DEF Underway
<1> QED
  BY <1>1, <1>2, <1>3, <1>4, <1>5, <1>6, <1>7, PipeShift

\* The worker takes the first of the stream: the next of its publisher.
LEMMA WorkerTakesBus ==
  ASSUME BusInv, NEW s \in Subs, WorkerTakes(s)
  PROVE  BusInv'
<1>1. PICK m : m = Head(out[s])
  OBVIOUS
<1>2. /\ UNCHANGED <<ctxDone, mu, closed, subs, wg, in, inClosed, buf, outClosed, buffer,
                     isAlive, todo, subj, sent, pc>>
      /\ worker[s] = "on" /\ out[s] # << >>
      /\ out' = [out EXCEPT ![s] = Tail(out[s])]
      /\ seen' = [seen EXCEPT ![s][m.from] = m.no]
      /\ worker' = [worker EXCEPT ![s] = IF isAlive[s] THEN "handler" ELSE "on"]
  BY <1>1 DEF WorkerTakes, callers
<1>3. IInv'
  BY PipeKeeps DEF BusInv, WorkerGoesOn
<1>4. /\ out \in [Subs -> Seq(Msgs)] /\ worker \in [Subs -> {"off", "on", "handler"}]
      /\ seen \in [Subs -> [Publishers -> 0..MaxMsgs]] /\ MaxMsgs \in Nat
  BY PubSubAssumption DEF BusInv, TypeOK
<1>5. PICK x, y, z \in Seq(Msgs) : x = out[s] /\ y = buf[s] /\ z = in[s]
  BY PipeFacts
<1>6. x # << >> /\ Tail(x) \in Seq(Msgs) /\ m = Head(x) /\ m \in Msgs /\ Len(Tail(x)) \in Nat /\ Len(Tail(x)) <= Len(x)
  BY <1>1, <1>2, <1>5
<1>7. m.from \in Publishers /\ m.no \in 1..MaxMsgs
  BY <1>6 DEF Msgs
<1>8. /\ out'[s] = Tail(x) /\ \A r \in Subs \ {s} : out'[r] = out[r]
      /\ worker'[s] \in {"handler", "on"} /\ \A r \in Subs \ {s} : worker'[r] = worker[r]
      /\ seen'[s][m.from] = m.no /\ \A p \in Publishers \ {m.from} : seen'[s][p] = seen[s][p]
      /\ \A r \in Subs \ {s} : seen'[r] = seen[r]
  BY <1>2, <1>4, <1>5, <1>7
<1>9. RestTypes'
  <2>1. RestTypes /\ Chan \in Nat
    BY RestTyped, PubSubAssumption DEF BusInv
  <2>2. out' \in [Subs -> Seq(Msgs)]
    BY <1>2, <1>4, <1>5, <1>6
  <2>3. \A r \in Subs : Len(out'[r]) <= Chan
    <3>1. Len(x) \in Nat /\ Len(x) <= Chan
      <4>1. Len(out[s]) <= Chan
        BY PipeFacts
      <4> QED
        BY <1>5, <4>1
    <3>2. Len(out'[s]) <= Chan
      BY <1>6, <1>8, <2>1, <3>1
    <3> QED
      BY <1>8, <2>1, <3>2 DEF RestTypes
  <2>4. seen' \in [Subs -> [Publishers -> 0..MaxMsgs]]
    BY <1>2, <1>4, <1>7
  <2>5. worker' \in [Subs -> {"off", "on", "handler"}]
    BY <1>2, <1>4
  <2> QED
    BY <1>2, <2>1, <2>2, <2>3, <2>4, <2>5 DEF RestTypes
<1>10. WgExact'
  <2>1. {r \in Subs : worker'[r] # "off"} = {r \in Subs : worker[r] # "off"}
    BY <1>2, <1>8
  <2> QED
    BY <1>2, <2>1 DEF BusInv, WgExact
<1>11. TodoOnce'
  BY <1>2 DEF BusInv, TodoOnce
<1>12. \A r \in Subs, p \in Publishers : Reached(r, p)' = Reached(r, p)
  BY <1>2 DEF Reached
<1>13. PipeOf(s)'
  <2>1. PipeOf(s)
    BY PipeFacts
  <2>2. pc[s] \notin Early /\ pc[s] \in {"subscribed", "remove", "gone"}
    BY <1>2, <2>1 DEF PipeOf
  <2> QED
    BY <1>2, <1>8, <2>1, <2>2 DEF PipeOf
<1>14. Underway(s) # << >> /\ Head(Underway(s)) = m /\ Underway(s)' = Tail(Underway(s))
  <2>1. Tail(x) \o y \o z = Tail(x \o y \o z) /\ x \o y \o z # << >> /\ Head(x \o y \o z) = Head(x)
    <3>1. x # << >>
      BY <1>6
    <3> QED
      BY <3>1, StreamMoves, Zenon
  <2>2. Underway(s) = x \o y \o z /\ Underway(s)' = Tail(x) \o y \o z
    BY <1>2, <1>5, <1>8 DEF Underway
  <2> QED
    BY <1>6, <2>1, <2>2
<1>15. ASSUME NEW p \in Publishers
       PROVE  \E n \in seen'[s][p]..MaxMsgs :
                /\ Consecutive(Underway(s)', p, seen'[s][p], n)
                /\ Registered(s) => n = Reached(s, p)'
  <2>1. PICK n \in seen[s][p]..MaxMsgs :
          /\ n \in Nat /\ seen[s][p] \in Nat /\ seen[s][p] <= n /\ n <= MaxMsgs
          /\ Consecutive(Underway(s), p, seen[s][p], n)
          /\ Registered(s) => n = Reached(s, p)
    BY StreamOf
  <2>2. Underway(s) \in Seq(Msgs)
    BY PipeFacts
  <2>3. CASE m.from = p
    <3>1. /\ m.no = seen[s][p] + 1 /\ seen[s][p] + 1 <= n
          /\ Consecutive(Tail(Underway(s)), p, seen[s][p] + 1, n)
      BY <1>14, <2>1, <2>2, <2>3, StreamTail
    <3>2. seen'[s][p] = seen[s][p] + 1
      BY <1>8, <2>3, <3>1
    <3>3. n \in seen'[s][p]..MaxMsgs
      BY <2>1, <3>1, <3>2
    <3> QED
      BY <1>12, <1>14, <2>1, <3>1, <3>2, <3>3
  <2>4. CASE m.from # p
    <3>1. Consecutive(Tail(Underway(s)), p, seen[s][p], n)
      BY <1>14, <2>1, <2>2, <2>4, StreamTail
    <3> QED
      BY <1>8, <1>12, <1>14, <2>1, <2>4, <3>1
  <2> QED
    BY <2>3, <2>4
<1>16. \A c \in Closers : pc[c] # "closed"
  BY <1>2, NotYetClosed
<1> QED
  BY <1>2, <1>3, <1>8, <1>9, <1>10, <1>11, <1>12, <1>13, <1>15, <1>16, PipeMove

---------------------------------------------------------------------------
(* The steps of Subscribe and Unsubscribe.                                 *)

\* Subscribe begins on a subject.
LEMMA SubscribeBus ==
  ASSUME BusInv, NEW s \in Subs, NEW t \in Subjects, Subscribe(s, t)
  PROVE  BusInv'
<1>1. /\ UNCHANGED <<ctxDone, mu, closed, subs, wg, buffers, workers, isAlive, todo, sent>>
      /\ pc[s] = "idle" /\ pc' = [pc EXCEPT ![s] = "subscribe"]
      /\ subj' = [subj EXCEPT ![s] = t]
  BY DEF Subscribe, Goto
<1>2. /\ \A g \in Goroutines \ {s} : pc'[g] = pc[g]
      /\ pc'[s] = "subscribe"
      /\ \A h \in (Publishers \cup Subs) \ {s} : subj'[h] = subj[h]
  BY <1>1 DEF BusInv, IInv, Types, Goroutines
<1>3. IInv'
  BY SubscriberKeeps DEF BusInv
<1>4. Bounded'
  <2>1. \A p \in Publishers : /\ pc'[p] = "publish" <=> pc[p] = "publish"
                              /\ pc[p] = "publish" => subj'[p] = subj[p]
    BY <1>1, <1>2 DEF Goroutines
  <2> QED
    BY <1>1, <2>1, BoundedStays
<1> QED
  BY <1>1, <1>2, <1>3, <1>4, QuietBus DEF PCs, Goroutines, Early, Open, BusInv, TypeOK

\* The steps of a subscriber that change nothing but the lock.
LEMMA SubscriberQuietBus ==
  ASSUME BusInv, NEW s \in Subs, MakeSubject(s) \/ LockAdd(s) \/ Unsubscribe(s)
  PROVE  BusInv'
<1>1. IInv'
  BY SubscriberKeeps DEF BusInv, SubscriberGoesOn
<1>2. PICK l \in PCs :
        /\ UNCHANGED <<ctxDone, closed, subs, wg, buffers, workers, isAlive, todo, sent, subj>>
        /\ pc' = [pc EXCEPT ![s] = l]
        /\ \/ pc[s] = "subscribe" /\ l \in {"gone", "start"}
           \/ pc[s] = "lockAdd" /\ l = "add"
           \/ pc[s] = "subscribed" /\ l = "remove"
  BY DEF MakeSubject, LockAdd, Unsubscribe, Goto, callers, PCs
<1>3. Bounded'
  BY <1>2, BoundedStays DEF BusInv, IInv, Types, Goroutines
<1> QED
  BY <1>1, <1>2, <1>3, QuietBus DEF Goroutines, Early, Open, BusInv, TypeOK

\* A step of a subscriber in its subscription and in the list.
LEMMA SubscriberMove ==
  ASSUME BusInv, IInv', RestTypes', WgExact', NEW s \in Subs, NEW l \in PCs,
         pc' = [pc EXCEPT ![s] = l], pc[s] # "publish", l \notin {"publish", "waitWg", "closed"},
         UNCHANGED <<closed, in, buf, out, todo, sent, subj>>,
         closed => \A t \in Subjects : subs'[t] = << >>,
         \A r \in Subs \ {s} :
           /\ inClosed'[r] = inClosed[r] /\ outClosed'[r] = outClosed[r]
           /\ buffer'[r] = buffer[r] /\ worker'[r] = worker[r] /\ seen'[r] = seen[r]
           /\ Registered(r)' => Registered(r),
         PipeOf(s)',
         worker'[s] = "handler" => worker[s] = "handler",
         \A p \in Publishers :
           \E n \in seen'[s][p]..MaxMsgs :
             /\ Consecutive(Underway(s), p, seen'[s][p], n)
             /\ Registered(s)' => n = Reached(s, p)
  PROVE  BusInv'
<1>1. TypeOK'
  BY TypesNext
<1>2. pc'[s] = l /\ \A g \in Goroutines \ {s} : pc'[g] = pc[g]
  BY DEF BusInv, IInv, Types, Goroutines
<1>3. Pipes'
  <2>1. ASSUME NEW r \in Subs \ {s} PROVE PipeOf(r)'
    <3>1. PipeOf(r)
      BY DEF BusInv, Pipes
    <3>2. pc'[r] = pc[r]
      BY <1>2 DEF Goroutines
    <3> QED
      BY <3>1, <3>2 DEF PipeOf
  <2> QED
    BY <2>1 DEF Pipes
<1>4. \A c \in Closers : pc'[c] \in {"waitWg", "closed"} => pc'[c] = pc[c]
  BY <1>2 DEF Goroutines
<1>5. TableGone'
  BY <1>4 DEF BusInv, TableGone
<1>6. Bounded'
  BY <1>2, BoundedStays DEF Goroutines
<1>7. CloseIsFinal'
  <2> SUFFICES ASSUME NEW c \in Closers, pc'[c] = "closed", NEW r \in Subs
               PROVE  worker'[r] # "handler" /\ in[r] \o buf[r] \o out[r] = << >>
    BY DEF CloseIsFinal
  <2>1. worker[r] # "handler" /\ in[r] \o buf[r] \o out[r] = << >>
    BY <1>4 DEF BusInv, CloseIsFinal
  <2> QED
    BY <2>1
<1>8. TodoOnce'
  BY DEF BusInv, TodoOnce
<1>9. \A r \in Subs, p \in Publishers : Reached(r, p)' = Reached(r, p) /\ Underway(r)' = Underway(r)
  BY DEF Reached, Underway
<1>10. Streams'
  <2> SUFFICES ASSUME NEW r \in Subs, NEW p \in Publishers
               PROVE  \E n \in seen'[r][p]..MaxMsgs :
                        /\ Consecutive(Underway(r)', p, seen'[r][p], n)
                        /\ Registered(r)' => n = Reached(r, p)'
    BY DEF Streams
  <2>1. CASE r = s
    BY <1>9, <2>1
  <2>2. CASE r # s
    <3>1. PICK n \in seen[r][p]..MaxMsgs :
            /\ Consecutive(Underway(r), p, seen[r][p], n)
            /\ Registered(r) => n = Reached(r, p)
      BY DEF BusInv, Streams
    <3>2. seen'[r] = seen[r] /\ (Registered(r)' => Registered(r))
      BY <2>2
    <3> QED
      BY <1>9, <3>1, <3>2
  <2> QED
    BY <2>1, <2>2
<1> QED
  BY <1>1, <1>3, <1>5, <1>6, <1>7, <1>8, <1>10 DEF BusInv

\* The two goroutines of a subscription start.
LEMMA StartPipeBus ==
  ASSUME BusInv, NEW s \in Subs, StartPipe(s)
  PROVE  BusInv'
<1>1. /\ UNCHANGED <<ctxDone, mu, closed, subs, in, inClosed, buf, out, outClosed, seen, todo, subj, sent>>
      /\ pc[s] = "start" /\ pc' = [pc EXCEPT ![s] = "lockAdd"]
      /\ wg' = wg + 2
      /\ buffer' = [buffer EXCEPT ![s] = "on"]
      /\ worker' = [worker EXCEPT ![s] = "on"]
      /\ isAlive' = [isAlive EXCEPT ![s] = TRUE]
  BY DEF StartPipe, Goto, callers
<1>2. IInv'
  BY SubscriberKeeps DEF BusInv, SubscriberGoesOn
<1>3. RestTypes /\ RestTypes'
  BY <1>1, RestTyped DEF BusInv, RestTypes
<1>4. /\ buffer'[s] = "on" /\ \A r \in Subs \ {s} : buffer'[r] = buffer[r]
      /\ worker'[s] = "on" /\ \A r \in Subs \ {s} : worker'[r] = worker[r]
      /\ pc'[s] = "lockAdd"
  BY <1>1, <1>3 DEF RestTypes, BusInv, IInv, Types, Goroutines
<1>5. PipeOf(s) /\ buffer[s] = "off" /\ worker[s] = "off"
  BY <1>1, PipeFacts DEF PipeOf, Early
<1>6. WgExact'
  <2>1. PICK b : b = {r \in Subs : buffer[r] # "off"}
    OBVIOUS
  <2>2. PICK w : w = {r \in Subs : worker[r] # "off"}
    OBVIOUS
  <2>3. /\ {r \in Subs : buffer'[r] # "off"} = b \cup {s} /\ s \notin b
        /\ {r \in Subs : worker'[r] # "off"} = w \cup {s} /\ s \notin w
        /\ b \in SUBSET Subs /\ w \in SUBSET Subs
    BY <1>4, <1>5, <2>1, <2>2
  <2>4. /\ IsFiniteSet(b) /\ IsFiniteSet(w)
        /\ Cardinality(b) \in Nat /\ Cardinality(w) \in Nat
    BY <2>3, FiniteRoles
  <2>5. Cardinality(b \cup {s}) = Cardinality(b) + 1 /\ Cardinality(w \cup {s}) = Cardinality(w) + 1
    BY <2>3, <2>4, FS_AddElement
  <2>6. wg = Cardinality(b) + Cardinality(w)
    BY <2>1, <2>2 DEF BusInv, WgExact
  <2>7. wg' = Cardinality(b \cup {s}) + Cardinality(w \cup {s})
    BY <1>1, <2>4, <2>5, <2>6
  <2> QED
    BY <2>3, <2>7 DEF WgExact
<1>7. PipeOf(s)'
  BY <1>1, <1>4, <1>5 DEF PipeOf, Early, Open
<1>8. \A r \in Subs : Registered(r)' = Registered(r)
  BY <1>1 DEF Registered
<1>9. \A p \in Publishers :
        \E n \in seen'[s][p]..MaxMsgs :
          /\ Consecutive(Underway(s), p, seen'[s][p], n)
          /\ Registered(s)' => n = Reached(s, p)
  BY <1>1, <1>8 DEF BusInv, Streams
<1>10. closed => \A t \in Subjects : subs'[t] = << >>
  BY <1>1 DEF BusInv, TableGone
<1> QED
  BY <1>1, <1>2, <1>3, <1>4, <1>6, <1>7, <1>8, <1>9, <1>10, SubscriberMove DEF PCs

\* A subscription that came too late ends its goroutines.
LEMMA AddRefusedBus ==
  ASSUME BusInv, NEW s \in Subs, AddRefused(s)
  PROVE  BusInv'
<1>1. /\ UNCHANGED <<ctxDone, closed, subs, wg, in, buf, out, outClosed, buffer, worker, seen,
                     isAlive, todo, subj, sent>>
      /\ pc[s] = "add" /\ pc' = [pc EXCEPT ![s] = "gone"]
      /\ inClosed' = [inClosed EXCEPT ![s] = TRUE]
  BY DEF AddRefused, Goto, callers, workers
<1>2. IInv'
  BY SubscriberKeeps DEF BusInv, SubscriberGoesOn
<1>3. RestTypes'
  BY <1>1, RestTyped DEF BusInv, RestTypes
<1>4. /\ inClosed'[s] /\ \A r \in Subs \ {s} : inClosed'[r] = inClosed[r]
      /\ pc'[s] = "gone"
  BY <1>1 DEF BusInv, IInv, Types, Goroutines
<1>5. WgExact'
  BY <1>1 DEF BusInv, WgExact
<1>6. PipeOf(s)'
  <2>1. PipeOf(s)
    BY PipeFacts
  <2> QED
    BY <1>1, <1>4, <2>1 DEF PipeOf, Early, Open
<1>7. \A r \in Subs : Registered(r)' = Registered(r)
  BY <1>1 DEF Registered
<1>8. \A p \in Publishers :
        \E n \in seen'[s][p]..MaxMsgs :
          /\ Consecutive(Underway(s), p, seen'[s][p], n)
          /\ Registered(s)' => n = Reached(s, p)
  BY <1>1, <1>7 DEF BusInv, Streams
<1>9. closed => \A t \in Subjects : subs'[t] = << >>
  BY <1>1 DEF BusInv, TableGone
<1> QED
  BY <1>1, <1>2, <1>3, <1>4, <1>5, <1>6, <1>7, <1>8, <1>9, SubscriberMove DEF PCs

\* A subscription begins after what its publishers have sent so far.
LEMMA AddBus ==
  ASSUME BusInv, NEW s \in Subs, Add(s)
  PROVE  BusInv'
<1> DEFINE t == subj[s]
<1>1. /\ UNCHANGED <<ctxDone, closed, wg, in, inClosed, buf, out, outClosed, buffer, worker,
                     isAlive, todo, subj, sent>>
      /\ pc[s] = "add" /\ pc' = [pc EXCEPT ![s] = "subscribed"] /\ ~closed
      /\ subs' = [subs EXCEPT ![t] = Append(subs[t], s)]
      /\ seen' = [seen EXCEPT ![s] = [p \in Publishers |-> sent[p][t]]]
      /\ Sending(t) = {}
  BY DEF Add, Goto, callers, buffers
<1>2. IInv'
  BY SubscriberKeeps DEF BusInv, SubscriberGoesOn
<1>3. t \in Subjects /\ subs \in [Subjects -> Seq(Subs)] /\ pc'[s] = "subscribed"
  BY <1>1 DEF BusInv, IInv, Types, Goroutines
<1>4. \A p \in Publishers : sent[p][t] \in 0..MaxMsgs /\ sent[p][t] \in Nat
  BY <1>3, PubSubAssumption DEF BusInv, TypeOK
<1>5. /\ \A p \in Publishers : seen'[s][p] = sent[p][t]
      /\ \A r \in Subs \ {s} : seen'[r] = seen[r]
      /\ seen' \in [Subs -> [Publishers -> 0..MaxMsgs]]
  BY <1>1, <1>4 DEF BusInv, TypeOK
<1>6. RestTypes'
  BY <1>1, <1>5, RestTyped DEF BusInv, RestTypes
<1>7. WgExact'
  BY <1>1 DEF BusInv, WgExact
<1>8. PipeOf(s)
  BY PipeFacts
<1>9. PipeOf(s)'
  BY <1>1, <1>3, <1>8 DEF PipeOf, Early, Open
<1>10. s \notin ToSet(subs[t])
  BY <1>1, <1>3 DEF BusInv, IInv, ListsExact
<1>11. \A u \in Subjects : u # t => subs'[u] = subs[u]
  BY <1>1, <1>3
<1>12. ToSet(subs'[t]) = ToSet(subs[t]) \cup {s}
  <2>1. NoDuplicates(subs[t])
    BY <1>3 DEF BusInv, IInv, ListsExact
  <2> QED
    BY <1>1, <1>3, <1>10, <2>1, AppendList
<1>13. ASSUME NEW r \in Subs \ {s}, Registered(r)' PROVE Registered(r)
  <2>1. subj[r] \in Subjects /\ r \in ToSet(subs'[subj[r]])
    BY <1>1, <1>13 DEF BusInv, IInv, Types, Registered
  <2> QED
    BY <1>11, <1>12, <2>1 DEF Registered
<1>14. ASSUME NEW p \in Publishers
       PROVE  \E n \in seen'[s][p]..MaxMsgs :
                /\ Consecutive(Underway(s), p, seen'[s][p], n)
                /\ Registered(s)' => n = Reached(s, p)
  <2>1. Underway(s) = << >>
    <3>1. in[s] = << >> /\ buf[s] = << >> /\ out[s] = << >>
      BY <1>1, <1>8 DEF PipeOf
    <3> QED
      BY <3>1 DEF Underway
  <2>2. s \notin ToSet(todo[p])
    <3>1. CASE todo[p] = << >>
      BY <3>1, EmptyList
    <3>2. CASE todo[p] # << >>
      <4>1. pc[p] = "send" /\ ToSet(todo[p]) \subseteq ToSet(subs[subj[p]]) /\ subj[p] \in Subjects
        BY <3>2 DEF BusInv, IInv, Types, TodoListed
      <4>2. subj[p] # t
        BY <1>1, <4>1 DEF Sending
      <4>3. s \notin ToSet(subs[subj[p]])
        BY <4>1, <4>2 DEF BusInv, IInv, ListsExact
      <4> QED
        BY <4>1, <4>3
    <3> QED
      BY <3>1, <3>2
  <2>3. Reached(s, p) = sent[p][t]
    BY <2>2 DEF Reached
  <2>4. Consecutive(<< >>, p, sent[p][t], sent[p][t])
    BY <1>4, NoneUnderway
  <2>5. sent[p][t] \in sent[p][t]..MaxMsgs
    BY <1>4, PubSubAssumption
  <2> QED
    BY <1>5, <2>1, <2>3, <2>4, <2>5
<1> HIDE DEF t
<1> QED
  BY <1>1, <1>2, <1>5, <1>6, <1>7, <1>9, <1>13, <1>14, SubscriberMove DEF PCs

\* Unsubscribe takes a subscription out of its list; what is under way stays.
LEMMA RemoveSubBus ==
  ASSUME BusInv, NEW s \in Subs, RemoveSub(s)
  PROVE  BusInv'
<1> DEFINE t == subj[s]
<1>1. /\ UNCHANGED <<ctxDone, closed, wg, in, buf, out, outClosed, buffer, worker, seen,
                     todo, subj, sent>>
      /\ pc[s] = "remove" /\ pc' = [pc EXCEPT ![s] = "gone"]
      /\ inClosed' = [inClosed EXCEPT ![s] = TRUE]
      /\ isAlive' = [isAlive EXCEPT ![s] = FALSE]
      /\ subs' = [subs EXCEPT ![t] = Without(subs[t], s)]
  BY DEF RemoveSub, Goto, callers, workers
<1>2. IInv'
  BY SubscriberKeeps DEF BusInv, SubscriberGoesOn
<1>3. RestTypes'
  BY <1>1, RestTyped DEF BusInv, RestTypes
<1>4. /\ inClosed'[s] /\ \A r \in Subs \ {s} : inClosed'[r] = inClosed[r]
      /\ pc'[s] = "gone"
      /\ t \in Subjects /\ subs \in [Subjects -> Seq(Subs)]
  BY <1>1 DEF BusInv, IInv, Types, Goroutines
<1>5. WgExact'
  BY <1>1 DEF BusInv, WgExact
<1>6. PipeOf(s)'
  <2>1. PipeOf(s)
    BY PipeFacts
  <2> QED
    BY <1>1, <1>4, <2>1 DEF PipeOf, Early, Open
<1>7. s \in ToSet(subs[t]) /\ NoDuplicates(subs[t])
  BY <1>1, <1>4 DEF BusInv, IInv, SubscribedListed, ListsExact
<1>8. ToSet(subs'[t]) = ToSet(subs[t]) \ {s} /\ \A u \in Subjects : u # t => subs'[u] = subs[u]
  BY <1>1, <1>4, <1>7, WithoutList
<1>9. ASSUME NEW r \in Subs, Registered(r)' PROVE Registered(r) /\ r # s
  <2>1. subj[r] \in Subjects /\ r \in ToSet(subs'[subj[r]])
    BY <1>1, <1>9 DEF BusInv, IInv, Types, Registered
  <2> QED
    BY <1>8, <2>1 DEF Registered
<1>10. \A p \in Publishers :
         \E n \in seen'[s][p]..MaxMsgs :
           /\ Consecutive(Underway(s), p, seen'[s][p], n)
           /\ Registered(s)' => n = Reached(s, p)
  BY <1>1, <1>9 DEF BusInv, Streams
<1>11. ~closed
  BY <1>4, <1>7, EmptyList DEF BusInv, TableGone
<1> HIDE DEF t
<1> QED
  BY <1>1, <1>2, <1>3, <1>4, <1>5, <1>6, <1>9, <1>10, <1>11, SubscriberMove DEF PCs

---------------------------------------------------------------------------
(* The steps of Close.                                                     *)

\* The steps of Close that change nothing but its place and the lock.  It
\* returns without error when wg is zero, so that nothing is under way.
LEMMA CloserQuietBus ==
  ASSUME BusInv, NEW c \in Closers,
         Close(c) \/ LockClose(c) \/ CloseReturns(c) \/ CloseGivesUp(c)
  PROVE  BusInv'
<1>1. IInv'
  BY CloserKeeps DEF BusInv, CloseGoesOn
<1>2. PICK l \in PCs :
        /\ UNCHANGED <<closed, subs, wg, buffers, workers, isAlive, todo, sent, subj>>
        /\ ctxDone' \in BOOLEAN
        /\ pc' = [pc EXCEPT ![c] = l]
        /\ \/ pc[c] = "idle" /\ l = "lockClose"
           \/ pc[c] = "lockClose" /\ l = "closeIn"
           \/ pc[c] = "waitWg" /\ l = "closed" /\ wg = 0
           \/ pc[c] = "waitWg" /\ l = "gone"
  <2>1. ctxDone \in BOOLEAN
    BY DEF BusInv, TypeOK
  <2>2. CASE Close(c)
    BY <2>2 DEF Close, Goto, callers, PCs
  <2>3. CASE LockClose(c)
    BY <2>1, <2>3 DEF LockClose, Goto, callers, PCs
  <2>4. CASE CloseReturns(c)
    BY <2>1, <2>4 DEF CloseReturns, Goto, callers, PCs
  <2>5. CASE CloseGivesUp(c)
    BY <2>1, <2>5 DEF CloseGivesUp, Goto, callers, PCs
  <2> QED
    BY <2>2, <2>3, <2>4, <2>5
<1>3. Bounded'
  BY <1>2, BoundedStays DEF BusInv, IInv, Types, Goroutines
<1> QED
  BY <1>1, <1>2, <1>3, QuietBus DEF Goroutines, Early, Open

\* Close ends the subscriptions of a subject; their messages stay under way.
LEMMA CloseSubjectBus ==
  ASSUME BusInv, NEW c \in Closers, NEW t \in Subjects, CloseSubject(c, t)
  PROVE  BusInv'
<1>1. /\ UNCHANGED <<ctxDone, closed, wg, in, buf, out, outClosed, buffer, worker, seen,
                     isAlive, todo, subj, sent, pc>>
      /\ inClosed' = [s \in Subs |-> inClosed[s] \/ s \in ToSet(subs[t])]
      /\ subs' = [subs EXCEPT ![t] = << >>]
  BY DEF CloseSubject, callers, workers
<1>2. IInv'
  BY CloserKeeps DEF BusInv, CloseGoesOn
<1>3. RestTypes'
  BY <1>1, RestTyped DEF BusInv, RestTypes
<1>4. WgExact'
  BY <1>1 DEF BusInv, WgExact
<1>5. TypeOK'
  BY <1>2, <1>3, <1>4, TypesNext
<1>6. \A s \in Subs : inClosed[s] => inClosed'[s]
  BY <1>1
<1>7. Pipes'
  <2>1. ASSUME NEW s \in Subs PROVE PipeOf(s)'
    BY <1>1, <1>6, PipeFacts DEF PipeOf
  <2> QED
    BY <2>1 DEF Pipes
<1>8. \A u \in Subjects : subs'[u] = subs[u] \/ subs'[u] = << >>
  BY <1>1 DEF BusInv, IInv, Types
<1>9. TableGone' /\ CloseIsFinal' /\ TodoOnce'
  BY <1>1, <1>8 DEF BusInv, TableGone, CloseIsFinal, TodoOnce
<1>10. Bounded'
  BY <1>1, BoundedStays
<1>11. Streams'
  <2> SUFFICES ASSUME NEW s \in Subs, Registered(s)'
               PROVE  Registered(s) /\ \A p \in Publishers : Reached(s, p)' = Reached(s, p)
    BY <1>1, StreamsKept
  <2>1. subj[s] \in Subjects /\ s \in ToSet(subs'[subj[s]])
    BY <1>1 DEF BusInv, IInv, Types, Registered
  <2>2. Registered(s)
    BY <1>8, <2>1, EmptyList DEF Registered
  <2> QED
    BY <1>1, <2>2 DEF Reached
<1> QED
  BY <1>2, <1>4, <1>5, <1>7, <1>9, <1>10, <1>11 DEF BusInv

\* The table is gone.
LEMMA CloseTableBus ==
  ASSUME BusInv, NEW c \in Closers, CloseTable(c)
  PROVE  BusInv'
<1>1. /\ UNCHANGED <<ctxDone, subs, wg, in, inClosed, buf, out, outClosed, buffer, worker, seen,
                     isAlive, todo, subj, sent>>
      /\ pc[c] = "closeIn" /\ pc' = [pc EXCEPT ![c] = "waitWg"]
      /\ closed' = TRUE
      /\ \A t \in Subjects : subs[t] = << >>
  BY DEF CloseTable, Goto, callers, workers, buffers
<1>2. IInv'
  BY CloserKeeps DEF BusInv, CloseGoesOn
<1>3. RestTypes'
  BY <1>1, RestTyped DEF BusInv, RestTypes
<1>4. WgExact'
  BY <1>1 DEF BusInv, WgExact
<1>5. TypeOK'
  BY <1>2, <1>3, <1>4, TypesNext
<1>6. pc'[c] = "waitWg" /\ \A g \in Goroutines \ {c} : pc'[g] = pc[g]
  BY <1>1 DEF BusInv, IInv, Types, Goroutines
<1>7. Pipes'
  <2>1. ASSUME NEW s \in Subs PROVE PipeOf(s)'
    <3>1. CASE s = c
      BY <1>1, <1>6, <3>1, PipeFacts DEF PipeOf, Early, Open
    <3>2. CASE s # c
      BY <1>1, <1>6, <3>2, PipeFacts DEF PipeOf, Goroutines
    <3> QED
      BY <3>1, <3>2
  <2> QED
    BY <2>1 DEF Pipes
<1>8. TableGone' /\ TodoOnce'
  BY <1>1 DEF BusInv, TableGone, TodoOnce
<1>9. CloseIsFinal'
  <2>1. \A d \in Closers : pc'[d] = "closed" => pc[d] = "closed"
    BY <1>6 DEF Goroutines
  <2> QED
    BY <1>1, <2>1 DEF BusInv, CloseIsFinal
<1>10. Bounded'
  BY <1>1, <1>6, BoundedStays DEF Goroutines
<1>11. Streams'
  <2>1. \A s \in Subs : Registered(s)' = Registered(s) /\ \A p \in Publishers : Reached(s, p)' = Reached(s, p)
    BY <1>1 DEF Registered, Reached
  <2> QED
    BY <1>1, <2>1, StreamsKept
<1> QED
  BY <1>2, <1>4, <1>5, <1>7, <1>8, <1>9, <1>10, <1>11 DEF BusInv

---------------------------------------------------------------------------
(* The invariant of the bus and what follows from it.                      *)

\* A new bus: nothing was sent, and nothing runs.
LEMMA InitBus == Init => BusInv
<1> SUFFICES ASSUME Init PROVE BusInv
  OBVIOUS
<1>1. /\ ctxDone = FALSE /\ closed = FALSE /\ wg = 0
      /\ subs = [t \in Subjects |-> << >>]
      /\ in = [s \in Subs |-> << >>] /\ buf = [s \in Subs |-> << >>] /\ out = [s \in Subs |-> << >>]
      /\ inClosed = [s \in Subs |-> FALSE] /\ outClosed = [s \in Subs |-> FALSE]
      /\ isAlive = [s \in Subs |-> FALSE]
      /\ buffer = [s \in Subs |-> "off"] /\ worker = [s \in Subs |-> "off"]
      /\ todo = [p \in Publishers |-> << >>]
      /\ sent = [p \in Publishers |-> [t \in Subjects |-> 0]]
      /\ seen = [s \in Subs |-> [p \in Publishers |-> 0]]
      /\ pc = [g \in Goroutines |-> "idle"]
  BY DEF Init
<1>2. IInv
  BY InitIInv
<1>3. WgExact
  <2>1. PICK b : b = {s \in Subs : buffer[s] # "off"}
    OBVIOUS
  <2>2. PICK w : w = {s \in Subs : worker[s] # "off"}
    OBVIOUS
  <2>3. b = {} /\ w = {}
    BY <1>1, <2>1, <2>2
  <2>4. Cardinality(b) = 0 /\ Cardinality(w) = 0
    BY <2>3, FS_EmptySet
  <2>5. wg = Cardinality(b) + Cardinality(w)
    BY <1>1, <2>4
  <2> QED
    BY <2>1, <2>2, <2>5 DEF WgExact
<1>4. TypeOK
  <2>1. wg \in 0..(2 * Cardinality(Subs))
    BY <1>1, FiniteRoles
  <2>2. ctxDone \in BOOLEAN /\ outClosed \in [Subs -> BOOLEAN] /\ isAlive \in [Subs -> BOOLEAN]
    BY <1>1, Zenon
  <2>3. in \in [Subs -> Seq(Msgs)] /\ buf \in [Subs -> Seq(Msgs)] /\ out \in [Subs -> Seq(Msgs)]
    BY <1>1
  <2>4. \A s \in Subs : Len(in[s]) <= Chan /\ Len(out[s]) <= Chan
    BY <1>1, PubSubAssumption
  <2>5. buffer \in [Subs -> {"off", "on", "drain"}] /\ worker \in [Subs -> {"off", "on", "handler"}]
    BY <1>1
  <2>6. 0 \in 0..MaxMsgs
    BY PubSubAssumption
  <2>7. sent \in [Publishers -> [Subjects -> 0..MaxMsgs]] /\ seen \in [Subs -> [Publishers -> 0..MaxMsgs]]
    BY <1>1, <2>6
  <2> QED
    BY <1>2, <2>1, <2>2, <2>3, <2>4, <2>5, <2>7 DEF IInv, Types, TypeOK
<1>5. Pipes
  BY <1>1, Zenon DEF Pipes, PipeOf, Goroutines, Open
<1>6. TableGone /\ CloseIsFinal /\ TodoOnce
  BY <1>1, EmptyList DEF TableGone, CloseIsFinal, TodoOnce, Goroutines
<1>7. Bounded
  <2> SUFFICES ASSUME NEW t \in Subjects PROVE Published(t) <= MaxMsgs
    BY DEF Bounded
  <2>1. \A p \in Publishers : PublishedBy(t)[p] = 0
    BY <1>1 DEF PublishedBy, Goroutines
  <2>2. PICK f : f = PublishedBy(t)
    OBVIOUS
  <2>3. SumFunctionOnSet(f, Publishers) = 0
    BY <2>1, <2>2, FiniteRoles, SumZero
  <2> QED
    BY <2>2, <2>3, PubSubAssumption DEF Published
<1>8. Streams
  <2> SUFFICES ASSUME NEW s \in Subs, NEW p \in Publishers
               PROVE  \E n \in seen[s][p]..MaxMsgs :
                        /\ Consecutive(Underway(s), p, seen[s][p], n)
                        /\ Registered(s) => n = Reached(s, p)
    BY DEF Streams
  <2>1. seen[s][p] = 0 /\ Underway(s) = << >>
    BY <1>1 DEF Underway
  <2>2. ~Registered(s)
    <3>1. subs[subj[s]] = << >>
      BY <1>1, <1>2 DEF IInv, Types
    <3> QED
      BY <3>1, EmptyList DEF Registered
  <2>3. Consecutive(<< >>, p, 0, 0) /\ 0 \in 0..MaxMsgs
    BY NoneUnderway, PubSubAssumption
  <2> QED
    BY <2>1, <2>2, <2>3
<1> QED
  BY <1>2, <1>3, <1>4, <1>5, <1>6, <1>7, <1>8 DEF BusInv

\* Every step keeps it.
LEMMA NextBus == BusInv /\ [Next]_vars => BusInv'
<1> SUFFICES ASSUME BusInv, [Next]_vars PROVE BusInv'
  OBVIOUS
<1>1. CASE UNCHANGED vars
  <2>1. UNCHANGED <<ctxDone, mu, closed, subs, wg, in, inClosed, buf, out, outClosed, buffer,
                    worker, seen, isAlive, todo, subj, sent, pc>>
    BY <1>1 DEF vars, buffers, workers, callers
  <2>2. IInv'
    BY NextIInv DEF BusInv
  <2>3. RestTypes'
    BY <2>1, RestTyped DEF BusInv, RestTypes
  <2>4. WgExact'
    BY <2>1 DEF BusInv, WgExact
  <2>5. TypeOK'
    BY <2>2, <2>3, <2>4, TypesNext
  <2>6. Pipes'
    BY <2>1 DEF BusInv, Pipes, PipeOf
  <2>7. TableGone' /\ CloseIsFinal' /\ TodoOnce'
    BY <2>1 DEF BusInv, TableGone, CloseIsFinal, TodoOnce
  <2>8. Bounded'
    BY <2>1, BoundedStays
  <2>9. Streams'
    BY <2>1, StreamsKept DEF Registered, Reached
  <2> QED
    BY <2>2, <2>4, <2>5, <2>6, <2>7, <2>8, <2>9 DEF BusInv
<1>2. CASE \E p \in Publishers : PublishGoesOn(p) \/ \E t \in Subjects : Publish(p, t)
  BY <1>2, PublishBus, PublishRefusedBus, PublishLocksBus, SendBus, PublishReturnsBus DEF PublishGoesOn
<1>3. CASE \E c \in Closers : Close(c) \/ CloseGivesUp(c) \/ CloseGoesOn(c)
  BY <1>3, CloserQuietBus, CloseSubjectBus, CloseTableBus DEF CloseGoesOn
<1>4. CASE \E s \in Subs : \/ \E t \in Subjects : Subscribe(s, t)
                           \/ Unsubscribe(s) \/ SubscriberGoesOn(s)
  BY <1>4, SubscribeBus, SubscriberQuietBus, StartPipeBus, AddRefusedBus, AddBus, RemoveSubBus
  DEF SubscriberGoesOn
<1>5. CASE \E s \in Subs : BufferGoesOn(s) \/ WorkerGoesOn(s) \/ HandlerReturns(s)
  BY <1>5, BufferTakesBus, BufferGivesBus, BufferDrainsBus, BufferEndsBus,
     WorkerTakesBus, WorkerEndsBus, HandlerReturnsBus
  DEF BufferGoesOn, WorkerGoesOn
<1> QED
  BY <1>1, <1>2, <1>3, <1>4, <1>5 DEF Next

\* The streams of the subscriptions and the goroutines of the bus in step.
THEOREM BusInvariance == Spec => []BusInv
  BY InitBus, NextBus, PTL DEF Spec

\* Every subscription gets all messages of a publisher since it subscribed,
\* each once and in order, whatever subscribes, unsubscribes or closes
\* meanwhile (my_pubsub.go:71-155, 185-222).
THEOREM MessagesInOrder == Spec => []InOrder
<1>1. BusInv => InOrder
  BY DEF BusInv, Streams, InOrder
<1> QED
  BY BusInvariance, <1>1, PTL

\* After a Close without error no message is under way and no handler runs
\* (my_pubsub.go:157-183).
THEOREM NothingAfterClose == Spec => []CloseIsFinal
<1>1. BusInv => CloseIsFinal
  BY DEF BusInv
<1> QED
  BY BusInvariance, <1>1, PTL
=============================================================================
