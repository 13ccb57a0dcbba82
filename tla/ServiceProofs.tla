--------------------------- MODULE ServiceProofs ---------------------------
(* Proofs about the services: UpdateValue, the ledger, the artifact cache,   *)
(* the peers of gossip, grade, urlshortener and coverme, and the middleware. *)
EXTENDS RetryUpdate, Ledger, ArtifactCache, Gossip, Grader, WebServices, Middleware, SetLemmas


---------------------------------------------------------------------------
(* retryupdate: the inductive invariant.                                   *)

EndsWith(v, c) == v # << >> /\ v[Len(v)] = c
NoStutter(v) == \A i \in 2..Len(v) : v[i] # v[i - 1]
AtMostOnce(v, c) == \A i, j \in DOMAIN v : v[i] = c /\ v[j] = c => i = j
Without(v, c) == \A i \in DOMAIN v : v[i] # c

\* Those who are about to send a Set.
Setting == {c \in Updaters : updPc[c] = "set"}

\* A caller whose update is the last one is through, or finds its own version.
StoredOK ==
  /\ stored.version <= lastUUID
  /\ stored.version = 0 => stored.value = << >>
  /\ NoStutter(stored.value)
  /\ \A c \in Updaters : EndsWith(stored.value, c) =>
       \/ updPc[c] \in {"updated", "failed"}
       \/ c \in Setting /\ stored.version = updLocal[c].new

\* What c is about to write extends the value it is written over: the one
\* stored, or one that another caller has still to write.
LocalOK(c) ==
  /\ updLocal[c].new \in 1..lastUUID
  /\ updLocal[c].old < updLocal[c].new
  /\ EndsWith(updLocal[c].value, c)
  /\ NoStutter(updLocal[c].value)
  /\ updLocal[c].old = 0 => updLocal[c].value = <<c>>
  /\ stored.version = updLocal[c].old => updLocal[c].value = Append(stored.value, c)
  /\ stored.version = updLocal[c].new => updLocal[c].value = stored.value
  /\ \A d \in Setting \ {c} :
       /\ updLocal[c].new # updLocal[d].new
       /\ updLocal[c].old = updLocal[d].new => updLocal[c].value = Append(updLocal[d].value, c)

\* Who was told of all its writes is nowhere twice, and before the end of its
\* call nowhere but in what it is about to write.
ToldOK(c) ==
  /\ AtMostOnce(stored.value, c)
  /\ \A d \in Setting : AtMostOnce(updLocal[d].value, c)
  /\ updPc[c] # "updated" => /\ Without(stored.value, c)
                             /\ \A d \in Setting \ {c} : Without(updLocal[d].value, c)

RetryInv ==
  /\ RetryTypeOK
  /\ StoredOK
  /\ \A c \in Setting : LocalOK(c)
  /\ \A c \in Updaters \ lostWrite : ToldOK(c)
  /\ removals = 0 => \A c \in Updaters : updPc[c] = "updated" => ~Without(stored.value, c)

---------------------------------------------------------------------------
(* retryupdate: values.                                                    *)

\* Nothing is in the empty value.
LEMMA NothingApplied ==
  /\ NoStutter(<< >>)
  /\ \A c : ~EndsWith(<< >>, c) /\ AtMostOnce(<< >>, c) /\ Without(<< >>, c)
BY DEF NoStutter, EndsWith, AtMostOnce, Without

\* What updateFn of c makes of a value.
LEMMA OneMore ==
  ASSUME NEW v \in Seq(Updaters), NEW c \in Updaters
  PROVE  /\ Append(v, c) \in Seq(Updaters)
         /\ EndsWith(Append(v, c), c)
         /\ \A d : EndsWith(Append(v, c), d) => d = c
         /\ ~Without(Append(v, c), c)
         /\ NoStutter(v) /\ ~EndsWith(v, c) => NoStutter(Append(v, c))
         /\ Without(v, c) => AtMostOnce(Append(v, c), c)
         /\ \A d : d # c /\ AtMostOnce(v, d) => AtMostOnce(Append(v, c), d)
         /\ \A d : d # c /\ Without(v, d) => Without(Append(v, c), d)
<1> DEFINE w == Append(v, c)
           n == Len(v)
<1>1. /\ w \in Seq(Updaters) /\ n \in Nat /\ Len(w) = n + 1
      /\ DOMAIN v = 1..n /\ DOMAIN w = 1..(n + 1)
      /\ \A i \in 1..n : w[i] = v[i]
      /\ w[n + 1] = c
  OBVIOUS
<1>2. w # << >>
  BY <1>1
<1>3. v # << >> => n > 0
  OBVIOUS
<1> HIDE DEF w, n
<1>4. EndsWith(w, c) /\ (\A d : EndsWith(w, d) => d = c) /\ ~Without(w, c)
  BY <1>1, <1>2 DEF EndsWith, Without
<1>5. ASSUME NoStutter(v), ~EndsWith(v, c) PROVE NoStutter(w)
  <2> SUFFICES ASSUME NEW i \in 2..(n + 1) PROVE w[i] # w[i - 1]
    BY <1>1 DEF NoStutter
  <2>1. CASE i \in 2..n
    <3>1. v[i] # v[i - 1] /\ i \in 1..n /\ i - 1 \in 1..n
      BY <1>1, <1>5, <2>1 DEF NoStutter, n
    <3> QED
      BY <3>1, <1>1
  <2>2. CASE i = n + 1
    <3>1. n \in 1..n /\ i - 1 = n
      BY <1>1, <1>3, <2>2
    <3>2. v[n] # c
      BY <1>1, <1>5, <3>1 DEF EndsWith, n
    <3> QED
      BY <1>1, <2>2, <3>1, <3>2
  <2> QED
    BY <1>1, <2>1, <2>2
<1>6. /\ Without(v, c) => AtMostOnce(w, c)
      /\ \A d : d # c /\ AtMostOnce(v, d) => AtMostOnce(w, d)
      /\ \A d : d # c /\ Without(v, d) => Without(w, d)
  BY <1>1 DEF Without, AtMostOnce
<1> QED
  BY <1>1, <1>4, <1>5, <1>6 DEF w

---------------------------------------------------------------------------
(* retryupdate: the steps.                                                 *)

\* The invariant holds before the first call.
LEMMA RetryInitInv == RetryInit => RetryInv
<1> SUFFICES ASSUME RetryInit PROVE RetryInv
  OBVIOUS
<1> USE DEF RetryInit, NoKey
<1>1. Setting = {}
  BY DEF Setting
<1>2. RetryTypeOK
  BY RetryAssumption DEF RetryTypeOK
<1>3. StoredOK
  BY NothingApplied DEF StoredOK
<1>4. \A c \in Updaters \ lostWrite : ToldOK(c)
  BY <1>1, NothingApplied DEF ToldOK
<1> QED
  BY <1>1, <1>2, <1>3, <1>4 DEF RetryInv

\* The value and the version for a Set, computed from what is stored: a fresh
\* version, and a value that c was not the last to extend.
LEMMA PrepareInv ==
  ASSUME RetryInv, NEW c \in Updaters, Prepare(c, stored),
         UNCHANGED <<stored, removals, lostWrite>>,
         updPc[c] \in {"get", "set"}, UpdGoto(c, "set"),
         ~EndsWith(stored.value, c)
  PROVE  RetryInv'
<1> DEFINE new == [old |-> stored.version, new |-> lastUUID + 1, value |-> Append(stored.value, c)]
<1> USE DEF UpdGoto
<1>1. /\ RetryTypeOK /\ StoredOK
      /\ stored \in [version : 0..MaxUUID, value : Seq(Updaters)]
      /\ lastUUID \in Nat /\ lastUUID < MaxUUID /\ lastUUID' = lastUUID + 1
      /\ updPc \in [Updaters -> {"get", "set", "updated", "failed"}]
      /\ updLocal' = [updLocal EXCEPT ![c] = new]
      /\ DOMAIN updLocal = Updaters
      /\ stored.version \in Nat /\ stored.version <= lastUUID
  BY RetryAssumption, SMTT(30) DEF RetryInv, RetryTypeOK, StoredOK, Prepare
<1>2. /\ updLocal'[c] = new
      /\ \A d \in Updaters \ {c} : updLocal'[d] = updLocal[d]
  BY <1>1
<1>3. /\ Setting' = Setting \cup {c}
      /\ updPc'[c] = "set"
      /\ \A d \in Updaters \ {c} : updPc'[d] = updPc[d]
  BY <1>1 DEF Setting
<1>4. /\ new.value \in Seq(Updaters) /\ EndsWith(new.value, c)
      /\ NoStutter(new.value)
      /\ Without(stored.value, c) => AtMostOnce(new.value, c)
      /\ \A d : d # c /\ AtMostOnce(stored.value, d) => AtMostOnce(new.value, d)
      /\ \A d : d # c /\ Without(stored.value, d) => Without(new.value, d)
  BY <1>1, OneMore DEF StoredOK
<1>5. RetryTypeOK'
  <2>1. new \in [old : 0..MaxUUID, new : 0..MaxUUID, value : Seq(Updaters)]
    BY <1>1, <1>4, RetryAssumption
  <2> HIDE DEF new
  <2> QED
    BY <1>1, <2>1, RetryAssumption, SMTT(30) DEF RetryTypeOK
<1>6. StoredOK'
  BY <1>1, <1>2, <1>3 DEF StoredOK
<1>7. ASSUME NEW d \in Setting' PROVE LocalOK(d)'
  <2>1. CASE d = c
    <3>1. \A e \in Setting' \ {c} : updLocal'[e] = updLocal[e] /\ updLocal[e].new \in 1..lastUUID
      BY <1>2, <1>3 DEF RetryInv, LocalOK, Setting
    <3>2. stored.version = 0 => new.value = <<c>>
      <4>1. Append(<< >>, c) = <<c>>
        OBVIOUS
      <4> QED
        BY <1>1, <4>1 DEF StoredOK
    <3>3. \A e \in Setting' \ {c} :
            stored.version = updLocal[e].new => new.value = Append(updLocal[e].value, c)
      BY <1>3 DEF RetryInv, LocalOK
    <3> QED
      BY <1>1, <1>2, <1>4, <2>1, <3>1, <3>2, <3>3 DEF LocalOK
  <2>2. CASE d # c
    <3>1. LocalOK(d) /\ d \in Updaters /\ updLocal'[d] = updLocal[d]
      BY <1>2, <1>3, <2>2 DEF RetryInv, Setting
    <3>2. updLocal[d].old \in Nat /\ updLocal[d].new \in 1..lastUUID
      BY <1>1, <3>1 DEF RetryTypeOK, LocalOK
    <3>3. updLocal[d].old # lastUUID + 1 /\ updLocal[d].new # lastUUID + 1
      BY <1>1, <3>1, <3>2 DEF LocalOK
    <3>4. \A e \in Setting' \ {d} : e # c => updLocal'[e] = updLocal[e] /\ e \in Setting \ {d}
      BY <1>2, <1>3 DEF Setting
    <3> QED
      BY <1>1, <1>2, <3>1, <3>2, <3>3, <3>4 DEF LocalOK
  <2> QED
    BY <2>1, <2>2
<1>8. ASSUME NEW d \in Updaters \ lostWrite' PROVE ToldOK(d)'
  <2>1. ToldOK(d)
    BY <1>8 DEF RetryInv
  <2>2. \A e \in Setting' : e # c => updLocal'[e] = updLocal[e] /\ e \in Setting
    BY <1>2, <1>3 DEF Setting
  <2>3. CASE d = c
    <3>1. Without(stored.value, c) /\ AtMostOnce(new.value, c)
      BY <1>4, <2>1, <2>3 DEF ToldOK
    <3> QED
      BY <1>1, <1>2, <2>1, <2>2, <2>3, <3>1 DEF ToldOK
  <2>4. CASE d # c
    BY <1>2, <1>3, <1>4, <2>1, <2>2, <2>4 DEF ToldOK
  <2> QED
    BY <2>3, <2>4
<1>9. removals' = 0 => \A d \in Updaters : updPc'[d] = "updated" => ~Without(stored'.value, d)
  BY <1>3 DEF RetryInv
<1> QED
  BY <1>5, <1>6, <1>7, <1>8, <1>9 DEF RetryInv

\* A Set that goes through, whether or not c is told of it.
LEMMA WriteInv ==
  ASSUME RetryInv, NEW c \in Updaters, updPc[c] = "set", VersionMatches(c), StoreNew(c),
         UNCHANGED <<removals, lastUUID, updLocal>>,
         \/ UpdGoto(c, "updated") /\ UNCHANGED lostWrite
         \/ UNCHANGED updPc /\ lostWrite' = lostWrite \cup {c}
  PROVE  RetryInv' /\ stored'.value = Append(stored.value, c)
<1> DEFINE l == updLocal[c]
<1>1. /\ RetryTypeOK /\ StoredOK
      /\ c \in Setting /\ LocalOK(c)
      /\ stored.version = l.old
      /\ stored' = [version |-> l.new, value |-> l.value]
      /\ l \in [old : 0..MaxUUID, new : 0..MaxUUID, value : Seq(Updaters)]
      /\ stored.value \in Seq(Updaters)
      /\ updPc \in [Updaters -> {"get", "set", "updated", "failed"}]
  BY DEF RetryInv, RetryTypeOK, Setting, VersionMatches, StoreNew
<1>2. l.value = Append(stored.value, c) /\ stored'.value = l.value /\ stored'.version = l.new
  BY <1>1 DEF LocalOK
<1>3. /\ Setting' \subseteq Setting
      /\ \A d \in Setting \ {c} : d \in Setting'
      /\ \A d \in Updaters \ {c} : updPc'[d] = updPc[d]
      /\ updPc'[c] \in {"set", "updated"}
  BY <1>1 DEF Setting, UpdGoto
<1>4. RetryTypeOK'
  BY <1>1 DEF RetryTypeOK, UpdGoto
<1>5. StoredOK'
  <2>1. l.new \in 1..lastUUID /\ NoStutter(l.value)
    BY <1>1 DEF LocalOK
  <2>2. ASSUME NEW d \in Updaters, EndsWith(stored'.value, d)
        PROVE  \/ updPc'[d] \in {"updated", "failed"}
               \/ d \in Setting' /\ stored'.version = updLocal'[d].new
    <3>1. d = c
      BY <1>1, <1>2, <2>2, OneMore
    <3> QED
      BY <1>2, <1>3, <3>1 DEF Setting
  <2>3. l.new # 0 /\ l.new <= lastUUID'
    BY <1>1, <2>1 DEF RetryTypeOK
  <2> HIDE DEF l
  <2> QED
    BY <1>2, <2>1, <2>2, <2>3 DEF StoredOK
<1>6. ASSUME NEW d \in Setting' PROVE LocalOK(d)'
  <2>1. LocalOK(d) /\ d \in Setting
    BY <1>3 DEF RetryInv
  <2>2. stored'.version = updLocal[d].old => updLocal[d].value = Append(stored'.value, d)
    <3>1. CASE d = c
      <4>1. l.old < l.new /\ l.old \in Nat /\ l.new \in Nat
        BY <1>1, RetryAssumption DEF LocalOK
      <4> QED
        BY <1>2, <3>1, <4>1
    <3>2. CASE d # c
      BY <1>1, <1>2, <2>1, <3>2 DEF LocalOK
    <3> QED
      BY <3>1, <3>2
  <2>3. stored'.version = updLocal[d].new => updLocal[d].value = stored'.value
    <3>1. CASE d = c
      BY <1>2, <3>1
    <3>2. CASE d # c
      BY <1>1, <1>2, <2>1, <3>2 DEF LocalOK
    <3> QED
      BY <3>1, <3>2
  <2>4. \A e \in Setting' \ {d} : e \in Setting \ {d}
    BY <1>3
  <2> QED
    BY <2>1, <2>2, <2>3, <2>4 DEF LocalOK
<1>7. ASSUME NEW d \in Updaters \ lostWrite' PROVE ToldOK(d)'
  <2>1. ToldOK(d)
    BY <1>7 DEF RetryInv
  <2>2. AtMostOnce(stored'.value, d)
    BY <1>1, <1>2, <2>1 DEF ToldOK
  <2>3. updPc'[d] # "updated" => Without(stored'.value, d)
    <3>1. d = c => updPc'[d] = "updated"
      BY <1>1, <1>7 DEF UpdGoto
    <3> QED
      BY <1>1, <1>2, <1>3, <2>1, <3>1 DEF ToldOK
  <2>4. updPc'[d] # "updated" => updPc[d] # "updated"
    BY <1>3
  <2> QED
    BY <1>3, <2>1, <2>2, <2>3, <2>4 DEF ToldOK
<1>8. removals' = 0 => \A d \in Updaters : updPc'[d] = "updated" => ~Without(stored'.value, d)
  <2> SUFFICES ASSUME removals = 0, NEW d \in Updaters, updPc'[d] = "updated"
               PROVE  ~Without(stored'.value, d)
    OBVIOUS
  <2>1. CASE d = c
    BY <1>1, <1>2, <2>1, OneMore
  <2>2. CASE d # c
    <3>1. ~Without(stored.value, d)
      BY <1>3, <2>2 DEF RetryInv
    <3>2. ~Without(Append(stored.value, c), d)
      BY <1>1, <3>1, SMTT(30) DEF Without
    <3> QED
      BY <1>2, <3>2
  <2> QED
    BY <2>1, <2>2
<1> QED
  BY <1>2, <1>4, <1>5, <1>6, <1>7, <1>8 DEF RetryInv

\* What c is told in a conflict: it is through when the version is its own,
\* else somebody else was the last to extend the value.
LEMMA ConflictInv ==
  ASSUME RetryInv, NEW c \in Updaters, SetConflict(c)
  PROVE  RetryInv'
<1>1. /\ RetryTypeOK /\ StoredOK
      /\ c \in Setting /\ LocalOK(c)
      /\ updPc \in [Updaters -> {"get", "set", "updated", "failed"}]
      /\ updLocal[c].value \in Seq(Updaters)
      /\ UNCHANGED <<stored, removals, lastUUID, updLocal, lostWrite>>
  BY DEF RetryInv, RetryTypeOK, Setting, SetConflict
<1>2. /\ Setting' = Setting \ {c}
      /\ \A d \in Updaters \ {c} : updPc'[d] = updPc[d]
      /\ updPc'[c] = IF stored.version = updLocal[c].new THEN "updated" ELSE "get"
  BY <1>1 DEF SetConflict, UpdGoto, Setting
<1>3. RetryTypeOK'
  BY <1>1 DEF RetryTypeOK, SetConflict, UpdGoto
<1>4. StoredOK'
  BY <1>1, <1>2 DEF StoredOK, Setting
<1>5. \A d \in Setting' : LocalOK(d)'
  BY <1>1, <1>2 DEF RetryInv, LocalOK
<1>6. \A d \in Updaters \ lostWrite' : ToldOK(d)'
  BY <1>1, <1>2 DEF RetryInv, ToldOK, Setting
<1>7. updPc'[c] = "updated" => ~Without(stored.value, c)
  <2> SUFFICES ASSUME stored.version = updLocal[c].new PROVE ~Without(stored.value, c)
    BY <1>2
  <2>1. EndsWith(stored.value, c) /\ stored.value \in Seq(Updaters)
    BY <1>1 DEF LocalOK
  <2>2. Len(stored.value) \in DOMAIN stored.value
    BY <2>1 DEF EndsWith
  <2> QED
    BY <2>1, <2>2 DEF EndsWith, Without
<1>8. removals' = 0 => \A d \in Updaters : updPc'[d] = "updated" => ~Without(stored'.value, d)
  BY <1>1, <1>2, <1>7 DEF RetryInv
<1> QED
  BY <1>3, <1>4, <1>5, <1>6, <1>8 DEF RetryInv

\* Somebody else removes the key: the versions drawn match it no more.
LEMMA RemoveInv ==
  ASSUME RetryInv, RemoveKey
  PROVE  RetryInv'
<1>1. /\ RetryTypeOK /\ StoredOK
      /\ stored' = NoKey /\ removals' = removals + 1 /\ removals < MaxRemovals
      /\ removals \in Nat
      /\ UNCHANGED <<lastUUID, updPc, updLocal, lostWrite>>
      /\ Setting' = Setting
  BY DEF RetryInv, RetryTypeOK, RemoveKey, Setting
<1>2. RetryTypeOK'
  BY <1>1, RetryAssumption DEF RetryTypeOK, NoKey
<1>3. StoredOK'
  BY <1>1, NothingApplied DEF StoredOK, NoKey, RetryTypeOK
<1>4. ASSUME NEW c \in Setting PROVE LocalOK(c)'
  <2>1. LocalOK(c) /\ updLocal[c].new \in Nat /\ c \in Updaters
    BY <1>1 DEF RetryInv, RetryTypeOK, Setting
  <2>2. updLocal[c].old = 0 => updLocal[c].value = Append(<< >>, c)
    <3>1. Append(<< >>, c) = <<c>>
      OBVIOUS
    <3> QED
      BY <2>1, <3>1 DEF LocalOK
  <2>3. updLocal[c].new # 0
    BY <1>1, <2>1 DEF LocalOK, RetryTypeOK
  <2> QED
    BY <1>1, <2>1, <2>2, <2>3 DEF LocalOK, NoKey
<1>5. \A c \in Updaters \ lostWrite' : ToldOK(c)'
  BY <1>1, NothingApplied DEF RetryInv, ToldOK, NoKey
<1>6. removals' # 0
  BY <1>1
<1> QED
  BY <1>1, <1>2, <1>3, <1>4, <1>5, <1>6 DEF RetryInv

\* Every step keeps the invariant, and a write extends what it replaces.
LEMMA RetryStepInv ==
  ASSUME RetryInv, [RetryNext]_retryVars
  PROVE  /\ RetryInv'
         /\ stored' # stored /\ stored' # NoKey =>
              \E c \in Updaters : stored'.value = Append(stored.value, c)
<1>1. CASE RemoveKey
  BY <1>1, RemoveInv DEF RemoveKey
<1>2. ASSUME NEW c \in Updaters, GetValue(c) PROVE RetryInv' /\ UNCHANGED stored
  <2>1. ~EndsWith(stored.value, c)
    BY <1>2 DEF RetryInv, StoredOK, GetValue, Setting
  <2> QED
    BY <1>2, <2>1, PrepareInv DEF GetValue
<1>3. ASSUME NEW c \in Updaters, SetNoKey(c) PROVE RetryInv' /\ UNCHANGED stored
  <2>1. ~EndsWith(stored.value, c) /\ Prepare(c, stored)
    BY <1>3, NothingApplied DEF SetNoKey, NoKey
  <2>2. UpdGoto(c, "set")
    BY <1>3 DEF SetNoKey, UpdGoto, RetryInv, RetryTypeOK
  <2> QED
    BY <1>3, <2>1, <2>2, PrepareInv DEF SetNoKey
<1>4. ASSUME NEW c \in Updaters, UpdateRefused(c) PROVE RetryInv' /\ UNCHANGED stored
  <2>1. /\ RetryTypeOK /\ StoredOK
        /\ Setting' = Setting \ {c}
        /\ updPc'[c] = "failed"
        /\ \A d \in Updaters \ {c} : updPc'[d] = updPc[d]
        /\ updPc[c] # "updated"
        /\ UNCHANGED <<stored, removals, lastUUID, updLocal, lostWrite>>
    BY <1>4 DEF RetryInv, RetryTypeOK, UpdateRefused, UpdGoto, Setting
  <2>2. RetryTypeOK'
    BY <1>4, <2>1 DEF RetryTypeOK, UpdateRefused, UpdGoto
  <2>3. StoredOK'
    BY <2>1 DEF StoredOK
  <2>4. \A d \in Setting' : LocalOK(d)'
    BY <2>1 DEF RetryInv, LocalOK
  <2>5. \A d \in Updaters \ lostWrite' : ToldOK(d)'
    BY <2>1 DEF RetryInv, ToldOK
  <2> QED
    BY <2>1, <2>2, <2>3, <2>4, <2>5 DEF RetryInv
<1>5. ASSUME NEW c \in Updaters, SetOK(c) \/ SetAnswerLost(c)
      PROVE  RetryInv' /\ stored'.value = Append(stored.value, c)
  BY <1>5, WriteInv DEF SetOK, SetAnswerLost
<1>6. ASSUME NEW c \in Updaters, SetConflict(c) PROVE RetryInv' /\ UNCHANGED stored
  BY <1>6, ConflictInv DEF SetConflict
<1>7. CASE UNCHANGED retryVars
  BY <1>7 DEF retryVars, RetryInv, RetryTypeOK, StoredOK, LocalOK, ToldOK, Setting
<1> QED
  BY <1>1, <1>2, <1>3, <1>4, <1>5, <1>6, <1>7 DEF RetryNext

---------------------------------------------------------------------------
(* retryupdate: the theorems.                                              *)

\* The variables of UpdateValue and of the service hold what they may hold,
\* and the invariant holds whatever is lost and removed (update.go:15-78).
THEOREM RetryInvariant == RetrySpec => [](RetryTypeOK /\ RetryInv)
<1>1. RetryInv => RetryTypeOK
  BY DEF RetryInv
<1>2. RetryInv /\ [RetryNext]_retryVars => RetryInv'
  BY RetryStepInv
<1> QED
  BY RetryInitInv, <1>1, <1>2, PTL DEF RetrySpec

\* A write extends the value it replaces by one update, for any number of
\* callers, lost answers and removals (update.go:49-59).
THEOREM RetryOverwritesNothing == RetrySpec => NothingOverwritten
<1>1. RetryInv /\ [RetryNext]_retryVars =>
        [stored' # stored /\ stored' # NoKey =>
           \E c \in Updaters : stored'.value = Append(stored.value, c)]_retryVars
  BY RetryStepInv
<1> QED
  BY RetryInvariant, <1>1, PTL DEF RetrySpec, NothingOverwritten

\* An update is in the value once, but for a caller that was not told of a
\* write, and never on top of itself (update.go:49-59).
THEOREM RetryReappliesOnlyIfUntold == RetrySpec => []AppliedOnce
<1>1. RetryInv => AppliedOnce
  <2> SUFFICES ASSUME RetryInv, NEW c \in Updaters
               PROVE  /\ Cardinality(AppliedAt(c)) > 1 => c \in lostWrite
                      /\ removals = 0 /\ updPc[c] = "updated" => AppliedAt(c) # {}
                      /\ \A i \in 2..Len(stored.value) : stored.value[i] # stored.value[i - 1]
    BY DEF AppliedOnce
  <2>1. ASSUME c \notin lostWrite PROVE ~(Cardinality(AppliedAt(c)) > 1)
    <3>1. \A i, j \in AppliedAt(c) : i = j
      BY <2>1 DEF RetryInv, ToldOK, AtMostOnce, AppliedAt
    <3>2. CASE AppliedAt(c) = {}
      BY <3>2, FS_EmptySet
    <3>3. CASE AppliedAt(c) # {}
      <4>1. PICK i : AppliedAt(c) = {i}
        BY <3>1, <3>3
      <4>2. Cardinality({i}) = 1
        BY FS_Singleton
      <4> QED
        BY <4>1, <4>2
    <3> QED
      BY <3>2, <3>3
  <2>2. removals = 0 /\ updPc[c] = "updated" => AppliedAt(c) # {}
    BY DEF RetryInv, Without, AppliedAt
  <2>3. NoStutter(stored.value)
    BY DEF RetryInv, StoredOK
  <2> QED
    BY <2>1, <2>2, <2>3 DEF NoStutter
<1> QED
  BY RetryInvariant, <1>1, PTL

---------------------------------------------------------------------------
(* ledger: the inductive invariant.                                        *)

Transfers == [at : {"none", "lock", "debit", "credit", "commit", "panicked"},
              from : Accounts \cup {0}, to : Accounts \cup {0}, amount : Nat,
              rows : SUBSET Accounts, took : Nat, gave : Nat, missed : Int]

LedgerTypes ==
  /\ money \in [Accounts -> Nat \cup {-1}]
  /\ holds \in [Clients -> SUBSET Accounts]
  /\ transfer \in [Clients -> Transfers]
  /\ paid \in Int /\ noRow \in Int /\ lost \in Int

\* What c took and gave is in rows that it has locked, so that a rollback can
\* take it back; while it locks, what it still wants comes after what it has.
TransferOK(c) ==
  /\ ~Open(c) => holds[c] = {}
  /\ Open(c) => /\ transfer[c].from \in Accounts
                /\ transfer[c].to \in Accounts
                /\ transfer[c].amount \in Amounts
  /\ transfer[c].at \in {"none", "lock", "debit", "panicked"} => transfer[c].took = 0
  /\ transfer[c].at # "commit" => transfer[c].gave = 0
  /\ transfer[c].took # 0 => transfer[c].from \in holds[c] /\ Exists(transfer[c].from)
  /\ transfer[c].gave # 0 => /\ transfer[c].to \in holds[c] /\ Exists(transfer[c].to)
                             /\ money[transfer[c].to] >= transfer[c].gave
  /\ transfer[c].at = "lock" =>
       /\ holds[c] \subseteq transfer[c].rows
       /\ \A h \in holds[c], a \in transfer[c].rows \ holds[c] : h < a
  /\ transfer[c].at \in {"debit", "credit", "commit"} => transfer[c].rows \subseteq holds[c]

\* What it missed is what is wanting between its two halves.
MissedOK(c) ==
  transfer[c].missed = CASE transfer[c].at = "credit" -> transfer[c].took - transfer[c].amount
                         [] transfer[c].at = "commit" -> transfer[c].took - transfer[c].gave
                         [] OTHER -> 0

RowsApart == \A c, d \in Clients : c # d => holds[c] \cap holds[d] = {}

\* The two sums of MoneyConserved, over the rows m and the transfers t.
InRows(m) == [a \in Accounts |-> IF m[a] # -1 THEN m[a] ELSE 0]
InTransfers(t) == [c \in Clients |-> t[c].took - t[c].gave]

LedgerInv == LedgerTypes /\ RowsApart /\ (\A c \in Clients : TransferOK(c) /\ MissedOK(c)) /\ MoneyConserved

---------------------------------------------------------------------------
(* ledger: lemmas.                                                         *)

\* The rows, and the amounts under way, have sums.
LEMMA LedgerSums ==
  ASSUME NEW m \in [Accounts -> Nat \cup {-1}], NEW t \in [Clients -> Transfers]
  PROVE  /\ InRows(m) \in [Accounts -> Int]
         /\ InTransfers(t) \in [Clients -> Int]
         /\ SumFunction(InRows(m)) = SumFunctionOnSet(InRows(m), Accounts)
         /\ SumFunction(InTransfers(t)) = SumFunctionOnSet(InTransfers(t), Clients)
         /\ SumFunction(InRows(m)) \in Int
         /\ SumFunction(InTransfers(t)) \in Int
<1>1. InRows(m) \in [Accounts -> Int]
  BY DEF InRows
<1>2. InTransfers(t) \in [Clients -> Int]
  BY DEF InTransfers, Transfers
<1>3. DOMAIN InRows(m) = Accounts /\ DOMAIN InTransfers(t) = Clients
  BY DEF InRows, InTransfers
<1>4. SumFunctionOnSet(InRows(m), Accounts) \in Int
  BY <1>1, LedgerAssumption, SumInt
<1>5. SumFunctionOnSet(InTransfers(t), Clients) \in Int
  BY <1>2, LedgerAssumption, SumInt
<1> QED
  BY <1>1, <1>2, <1>3, <1>4, <1>5 DEF SumFunction

\* The sum over the rows, when one of them changes.
LEMMA OneRow ==
  ASSUME NEW m \in [Accounts -> Nat \cup {-1}], NEW n \in [Accounts -> Nat \cup {-1}],
         NEW a \in Accounts, \A e \in Accounts : e # a => m[e] = n[e]
  PROVE  SumFunction(InRows(n)) = SumFunction(InRows(m)) + InRows(n)[a] - InRows(m)[a]
<1>1. \A e \in Accounts : e # a => InRows(m)[e] = InRows(n)[e]
  BY DEF InRows
<1>2. /\ InRows(m) \in [Accounts -> Int] /\ InRows(n) \in [Accounts -> Int]
      /\ IsFiniteSet(Accounts)
  BY LedgerAssumption DEF InRows
<1>3. /\ SumFunction(InRows(m)) = SumFunctionOnSet(InRows(m), Accounts)
      /\ SumFunction(InRows(n)) = SumFunctionOnSet(InRows(n), Accounts)
  BY DEF SumFunction, InRows
<1> QED
  BY <1>1, <1>2, <1>3, SumChange

\* The sum over the rows, when two of them change.
LEMMA TwoRows ==
  ASSUME NEW m \in [Accounts -> Nat \cup {-1}], NEW n \in [Accounts -> Nat \cup {-1}],
         NEW a \in Accounts, NEW b \in Accounts,
         \A e \in Accounts \ {a, b} : m[e] = n[e]
  PROVE  SumFunction(InRows(n)) = SumFunction(InRows(m)) + (InRows(n)[a] - InRows(m)[a])
                                    + (IF a = b THEN 0 ELSE InRows(n)[b] - InRows(m)[b])
<1> DEFINE k == [m EXCEPT ![a] = n[a]]
<1>1. /\ k \in [Accounts -> Nat \cup {-1}]
      /\ \A e \in Accounts : e # a => m[e] = k[e]
      /\ \A e \in Accounts : e # b => k[e] = n[e]
      /\ k[a] = n[a]
      /\ a # b => k[b] = m[b]
  OBVIOUS
<1> HIDE DEF k
<1>2. SumFunction(InRows(k)) = SumFunction(InRows(m)) + InRows(k)[a] - InRows(m)[a]
  BY <1>1, OneRow
<1>3. SumFunction(InRows(n)) = SumFunction(InRows(k)) + InRows(n)[b] - InRows(k)[b]
  BY <1>1, OneRow
<1>4. /\ InRows(k)[a] = InRows(n)[a]
      /\ a # b => InRows(k)[b] = InRows(m)[b]
  BY <1>1 DEF InRows
<1>5. \A x \in {m, n, k} : \A e \in {a, b} : InRows(x)[e] \in Int
  BY <1>1 DEF InRows
<1>6. SumFunction(InRows(m)) \in Int
  <2>1. InRows(m) \in [Accounts -> Int] /\ SumFunction(InRows(m)) = SumFunctionOnSet(InRows(m), Accounts)
    BY DEF InRows, SumFunction
  <2> HIDE DEF InRows
  <2> QED
    BY <2>1, LedgerAssumption, SumInt
<1> QED
  BY <1>2, <1>3, <1>4, <1>5, <1>6

\* The sum over the transfers, when one of them changes.
LEMMA OneTransfer ==
  ASSUME NEW t \in [Clients -> Transfers], NEW u \in [Clients -> Transfers], NEW c \in Clients,
         \A d \in Clients \ {c} : t[d] = u[d]
  PROVE  SumFunction(InTransfers(u)) =
           SumFunction(InTransfers(t)) + InTransfers(u)[c] - InTransfers(t)[c]
<1>1. \A d \in Clients : d # c => InTransfers(t)[d] = InTransfers(u)[d]
  BY DEF InTransfers
<1>2. /\ InTransfers(t) \in [Clients -> Int] /\ InTransfers(u) \in [Clients -> Int]
      /\ IsFiniteSet(Clients)
  BY LedgerAssumption DEF InTransfers, Transfers
<1>3. /\ SumFunction(InTransfers(t)) = SumFunctionOnSet(InTransfers(t), Clients)
      /\ SumFunction(InTransfers(u)) = SumFunctionOnSet(InTransfers(u), Clients)
  BY DEF SumFunction, InTransfers
<1> QED
  BY <1>1, <1>2, <1>3, SumChange

\* Two rows and one transfer change, and the books with them.
LEMMA Booked ==
  ASSUME LedgerTypes, LedgerTypes', MoneyConserved,
         NEW a \in Accounts, NEW b \in Accounts, NEW c \in Clients,
         \A e \in Accounts \ {a, b} : money'[e] = money[e],
         \A d \in Clients \ {c} : transfer'[d] = transfer[d],
         (InRows(money')[a] - InRows(money)[a])
             + (IF a = b THEN 0 ELSE InRows(money')[b] - InRows(money)[b])
             + (InTransfers(transfer')[c] - InTransfers(transfer)[c])
           = (paid' - paid) - (noRow' - noRow) - (lost' - lost)
  PROVE  MoneyConserved'
<1>1. /\ money \in [Accounts -> Nat \cup {-1}] /\ money' \in [Accounts -> Nat \cup {-1}]
      /\ transfer \in [Clients -> Transfers] /\ transfer' \in [Clients -> Transfers]
      /\ paid \in Int /\ noRow \in Int /\ paid' \in Int /\ noRow' \in Int /\ lost \in Int /\ lost' \in Int
  BY DEF LedgerTypes
<1>2. SumFunction(InRows(money')) =
        SumFunction(InRows(money)) + (InRows(money')[a] - InRows(money)[a])
          + (IF a = b THEN 0 ELSE InRows(money')[b] - InRows(money)[b])
  BY <1>1, TwoRows
<1>3. SumFunction(InTransfers(transfer')) =
        SumFunction(InTransfers(transfer)) + InTransfers(transfer')[c] - InTransfers(transfer)[c]
  BY <1>1, OneTransfer
<1>4. /\ MoneyConserved <=> SumFunction(InRows(money)) + SumFunction(InTransfers(transfer)) = paid - noRow - lost
      /\ MoneyConserved' <=>
           SumFunction(InRows(money')) + SumFunction(InTransfers(transfer')) = paid' - noRow' - lost'
  BY DEF MoneyConserved, MoneyInRows, MoneyUnderWay, InRows, InTransfers, Exists
<1>5. /\ SumFunction(InRows(money)) \in Int /\ SumFunction(InTransfers(transfer)) \in Int
      /\ InRows(money)[a] \in Int /\ InRows(money')[a] \in Int
      /\ InRows(money)[b] \in Int /\ InRows(money')[b] \in Int
      /\ InTransfers(transfer)[c] \in Int /\ InTransfers(transfer')[c] \in Int
  BY <1>1, LedgerSums
<1> QED
  BY <1>1, <1>2, <1>3, <1>4, <1>5

\* A transfer is not disturbed by changes to rows that it has not locked.
LEMMA TransferKept ==
  ASSUME LedgerTypes, NEW d \in Clients, TransferOK(d), MissedOK(d),
         holds'[d] = holds[d], transfer'[d] = transfer[d],
         \A a \in holds[d] : Exists(a) => money'[a] = money[a]
  PROVE  TransferOK(d)' /\ MissedOK(d)'
<1>1. TransferOK(d)'
  BY DEF TransferOK, Open, Exists
<1>2. MissedOK(d)'
  <2> DEFINE m(t) == CASE t.at = "credit" -> t.took - t.amount
                       [] t.at = "commit" -> t.took - t.gave
                       [] OTHER -> 0
  <2>1. transfer[d].missed = m(transfer[d]) /\ m(transfer'[d]) = m(transfer[d])
    BY DEF MissedOK
  <2>2. MissedOK(d)' <=> transfer'[d].missed = m(transfer'[d])
    BY DEF MissedOK
  <2> QED
    BY <2>1, <2>2
<1> QED
  BY <1>1, <1>2

---------------------------------------------------------------------------
(* ledger: the steps.                                                      *)

\* The invariant holds before the first call.
LEMMA LedgerInitInv == LedgerInit => LedgerInv
<1> SUFFICES ASSUME LedgerInit PROVE LedgerInv
  OBVIOUS
<1> USE DEF LedgerInit, NoTransfer
<1>1. LedgerTypes
  BY DEF LedgerTypes, Transfers
<1>2. RowsApart /\ \A c \in Clients : TransferOK(c) /\ MissedOK(c)
  BY DEF RowsApart, TransferOK, MissedOK, Open
<1>3. MoneyConserved
  <2>1. /\ DOMAIN InRows(money) = Accounts /\ DOMAIN InTransfers(transfer) = Clients
        /\ \A a \in Accounts : InRows(money)[a] = 0
        /\ \A c \in Clients : InTransfers(transfer)[c] = 0
    BY DEF InRows, InTransfers
  <2>2. SumFunction(InRows(money)) = 0 /\ SumFunction(InTransfers(transfer)) = 0
    <3> HIDE DEF LedgerInit
    <3> QED
      BY <2>1, LedgerAssumption, SumZero DEF SumFunction
  <2>3. MoneyConserved <=> SumFunction(InRows(money)) + SumFunction(InTransfers(transfer)) = paid - noRow - lost
    BY DEF MoneyConserved, MoneyInRows, MoneyUnderWay, InRows, InTransfers, Exists
  <2> QED
    BY <2>2, <2>3
<1> QED
  BY <1>1, <1>2, <1>3 DEF LedgerInv

\* A statement of its own: the row is locked by no transfer.
LEMMA StatementInv ==
  ASSUME LedgerInv, NEW c \in Clients, NEW a \in Accounts, NEW x \in Nat,
         CreateAccount(c, a) \/ Deposit(c, a, x) \/ Withdraw(c, a, x)
  PROVE  LedgerInv'
<1>1. /\ LedgerTypes /\ RowsApart /\ MoneyConserved
      /\ x \in Nat /\ money[a] \in Nat \cup {-1}
      /\ UNCHANGED <<holds, transfer, lost>>
      /\ transfer[c].at = "none"
  BY LedgerAssumption DEF LedgerInv, LedgerTypes, CreateAccount, Deposit, Withdraw, Statement
<1>2. /\ money' = [money EXCEPT ![a] = money'[a]]
      /\ money'[a] \in Nat \cup {-1} /\ paid' \in Int /\ noRow' \in Int /\ lost' \in Int
  BY <1>1, LedgerAssumption DEF LedgerTypes, CreateAccount, Deposit, Withdraw, Exists
<1>3. LedgerTypes'
  BY <1>1, <1>2 DEF LedgerTypes
<1>4. ASSUME NEW d \in Clients PROVE TransferOK(d)' /\ MissedOK(d)'
  <2>1. a \in holds[d] => ~Exists(a) \/ money'[a] = money[a]
    <3>1. holds[c] = {}
      BY <1>1 DEF LedgerInv, TransferOK, Open
    <3> QED
      BY <1>1, <3>1 DEF CreateAccount, Deposit, Withdraw, FreeFor
  <2>2. \A b \in holds[d] : Exists(b) => money'[b] = money[b]
    BY <1>1, <1>2, <2>1 DEF LedgerTypes
  <2>3. TransferOK(d) /\ MissedOK(d)
    BY DEF LedgerInv
  <2> QED
    BY <1>1, <2>2, <2>3, TransferKept
<1>5. MoneyConserved'
  <2>1. /\ \A e \in Accounts \ {a} : money'[e] = money[e]
        /\ \A d \in Clients \ {c} : transfer'[d] = transfer[d]
        /\ InTransfers(transfer') = InTransfers(transfer)
        /\ InTransfers(transfer)[c] \in Int
    BY <1>1, <1>2, LedgerSums DEF LedgerTypes
  <2>2. InRows(money')[a] - InRows(money)[a] = (paid' - paid) - (noRow' - noRow) - (lost' - lost)
    <3>1. lost \in Int /\ lost' = lost /\ lost' - lost = 0
      BY <1>1 DEF LedgerTypes
    <3>2. InRows(money')[a] - InRows(money)[a] = (paid' - paid) - (noRow' - noRow)
      BY <1>1, <1>2 DEF LedgerTypes, InRows, CreateAccount, Deposit, Withdraw, Exists
    <3> QED
      BY <1>1, <1>2, <3>1, <3>2 DEF LedgerTypes
  <2>3. (InRows(money')[a] - InRows(money)[a]) + (IF a = a THEN 0 ELSE InRows(money')[a] - InRows(money)[a])
          + (InTransfers(transfer')[c] - InTransfers(transfer)[c]) = (paid' - paid) - (noRow' - noRow) - (lost' - lost)
    <3>1. InRows(money')[a] \in Int /\ InRows(money)[a] \in Int
      BY <1>1, <1>2 DEF InRows
    <3> QED
      BY <2>1, <2>2, <3>1
  <2> QED
    BY <1>1, <1>3, <2>1, <2>3, Booked
<1> QED
  BY <1>1, <1>3, <1>4, <1>5 DEF LedgerInv, RowsApart

\* The steps of a transfer up to the first update change no row.
LEMMA LockingInv ==
  ASSUME LedgerInv, NEW c \in Clients,
         \/ \E from, to \in Accounts, x \in Amounts : Begin(c, from, to, x)
         \/ BeginFails(c) \/ LockRow(c) \/ RowsLocked(c)
  PROVE  LedgerInv'
<1>1. /\ LedgerTypes /\ RowsApart /\ MoneyConserved /\ TransferOK(c) /\ MissedOK(c)
      /\ UNCHANGED <<money, paid, noRow, lost>>
      /\ transfer[c] \in Transfers /\ holds[c] \in SUBSET Accounts
      /\ transfer \in [Clients -> Transfers] /\ holds \in [Clients -> SUBSET Accounts]
  BY DEF LedgerInv, LedgerTypes, Begin, BeginFails, LockRow, RowsLocked
<1>2. /\ transfer' \in [Clients -> Transfers]
      /\ \A d \in Clients \ {c} : transfer'[d] = transfer[d] /\ holds'[d] = holds[d]
      /\ transfer'[c].took = transfer[c].took /\ transfer'[c].gave = transfer[c].gave
      /\ holds' \in [Clients -> SUBSET Accounts]
      /\ \A d \in Clients \ {c} : holds'[c] \cap holds[d] = {}
      /\ transfer[c].took = 0 /\ transfer[c].gave = 0
  <2>1. ASSUME NEW from \in Accounts, NEW to \in Accounts, NEW x \in Amounts, Begin(c, from, to, x)
        PROVE  <1>2!:
    <3> DEFINE r == {a \in {from, to} : Exists(a)}
               t == [NoTransfer EXCEPT !.at = "lock", !.from = from, !.to = to, !.amount = x, !.rows = r]
    <3>1. transfer' = [transfer EXCEPT ![c] = t] /\ holds' = holds /\ transfer[c].at = "none"
      BY <2>1 DEF Begin, Statement
    <3>2. t \in Transfers
      <4>1. r \in SUBSET Accounts /\ x \in Nat
        BY LedgerAssumption
      <4>2. NoTransfer \in Transfers
        BY DEF NoTransfer, Transfers
      <4> HIDE DEF r
      <4> QED
        BY <4>1, <4>2 DEF Transfers
    <3>3. t.took = 0 /\ t.gave = 0
      BY DEF NoTransfer
    <3>4. transfer[c].took = 0 /\ transfer[c].gave = 0
      BY <1>1, <3>1 DEF TransferOK, Open
    <3> HIDE DEF t
    <3> QED
      BY <1>1, <3>1, <3>2, <3>3, <3>4 DEF RowsApart
  <2>2. CASE LockRow(c)
    <3>1. PICK a \in transfer[c].rows \ holds[c] :
             FreeFor(c, a) /\ holds' = [holds EXCEPT ![c] = @ \union {a}]
      BY <2>2 DEF LockRow
    <3>2. a \in Accounts /\ \A d \in Clients \ {c} : a \notin holds[d]
      BY <1>1, <3>1 DEF Transfers, FreeFor
    <3>3. transfer' = transfer /\ transfer[c].at = "lock"
      BY <2>2 DEF LockRow
    <3>4. transfer[c].took = 0 /\ transfer[c].gave = 0
      BY <1>1, <3>3 DEF TransferOK, Open
    <3>5. /\ holds'[c] = holds[c] \cup {a}
          /\ holds' \in [Clients -> SUBSET Accounts]
          /\ \A d \in Clients \ {c} : holds'[d] = holds[d]
      BY <1>1, <3>1, <3>2
    <3> QED
      BY <1>1, <3>2, <3>3, <3>4, <3>5 DEF RowsApart
  <2>3. CASE RowsLocked(c)
    <3> DEFINE t == [transfer[c] EXCEPT !.at = "debit"]
    <3>1. transfer' = [transfer EXCEPT ![c] = t] /\ holds' = holds /\ transfer[c].at = "lock"
      BY <2>3 DEF RowsLocked
    <3>2. t \in Transfers /\ t.took = transfer[c].took /\ t.gave = transfer[c].gave
      BY <1>1 DEF Transfers
    <3>3. transfer[c].took = 0 /\ transfer[c].gave = 0
      BY <1>1, <3>1 DEF TransferOK, Open
    <3> HIDE DEF t
    <3> QED
      BY <1>1, <3>1, <3>2, <3>3 DEF RowsApart
  <2>4. CASE BeginFails(c)
    <3> DEFINE t == [transfer[c] EXCEPT !.at = "panicked"]
    <3>1. transfer' = [transfer EXCEPT ![c] = t] /\ holds' = holds /\ transfer[c].at = "none"
      BY <2>4 DEF BeginFails, Statement
    <3>2. t \in Transfers /\ t.took = transfer[c].took /\ t.gave = transfer[c].gave
      BY <1>1 DEF Transfers
    <3>3. transfer[c].took = 0 /\ transfer[c].gave = 0
      BY <1>1, <3>1 DEF TransferOK, Open
    <3> HIDE DEF t
    <3> QED
      BY <1>1, <3>1, <3>2, <3>3 DEF RowsApart
  <2> QED
    BY <2>1, <2>2, <2>3, <2>4
<1>3. LedgerTypes'
  BY <1>1, <1>2 DEF LedgerTypes
<1>4. RowsApart'
  BY <1>1, <1>2 DEF RowsApart
<1>5. TransferOK(c)' /\ MissedOK(c)'
  <2>1. ASSUME NEW from \in Accounts, NEW to \in Accounts, NEW x \in Amounts, Begin(c, from, to, x)
        PROVE  TransferOK(c)' /\ MissedOK(c)'
    <3>1. transfer'[c].at = "lock" /\ transfer'[c].from = from /\ transfer'[c].to = to
            /\ transfer'[c].amount = x /\ transfer'[c].missed = 0 /\ holds'[c] = {}
      BY <1>1, <2>1 DEF Begin, NoTransfer, Statement, TransferOK, Open
    <3> QED
      BY <1>2, <3>1 DEF TransferOK, MissedOK, Open
  <2>2. CASE LockRow(c)
    <3>1. PICK a \in transfer[c].rows \ holds[c] :
             /\ \A b \in transfer[c].rows \ holds[c] : a <= b
             /\ holds' = [holds EXCEPT ![c] = @ \union {a}]
      BY <2>2 DEF LockRow
    <3>2. transfer[c].at = "lock" /\ transfer' = transfer
      BY <2>2 DEF LockRow
    <3>3. holds'[c] = holds[c] \cup {a}
      BY <1>1, <3>1
    <3>4. \A b \in transfer[c].rows \ holds'[c] : a < b
      <4>1. transfer[c].rows \subseteq Nat
        BY <1>1, LedgerAssumption DEF Transfers
      <4> QED
        BY <3>1, <3>3, <4>1
    <3>5. \A h \in holds'[c], b \in transfer[c].rows \ holds'[c] : h < b
      BY <1>1, <3>2, <3>3, <3>4 DEF TransferOK, Open
    <3> QED
      BY <1>1, <1>2, <3>1, <3>2, <3>3, <3>5 DEF TransferOK, MissedOK, Open
  <2>3. CASE RowsLocked(c)
    <3>1. /\ transfer[c].rows \subseteq holds[c] /\ transfer[c].at = "lock"
          /\ transfer'[c] = [transfer[c] EXCEPT !.at = "debit"] /\ holds' = holds
      BY <1>1, <2>3 DEF RowsLocked
    <3> QED
      BY <1>1, <3>1 DEF TransferOK, MissedOK, Open, Transfers
  <2>4. CASE BeginFails(c)
    <3>1. /\ transfer[c].at = "none" /\ holds' = holds
          /\ transfer'[c] = [transfer[c] EXCEPT !.at = "panicked"]
      BY <1>1, <2>4 DEF BeginFails, Statement
    <3> QED
      BY <1>1, <3>1 DEF TransferOK, MissedOK, Open, Transfers
  <2> QED
    BY <2>1, <2>2, <2>3, <2>4
<1>6. ASSUME NEW d \in Clients, d # c PROVE TransferOK(d)' /\ MissedOK(d)'
  <2>1. holds'[d] = holds[d] /\ transfer'[d] = transfer[d] /\ TransferOK(d) /\ MissedOK(d)
    BY <1>1, <1>2, <1>6 DEF LedgerInv
  <2> QED
    BY <1>1, <2>1, TransferKept
<1>7. MoneyConserved'
  <2>1. InTransfers(transfer') = InTransfers(transfer)
    BY <1>1, <1>2 DEF InTransfers
  <2> QED
    BY <1>1, <2>1 DEF MoneyConserved, MoneyInRows, MoneyUnderWay, InTransfers, Exists
<1> QED
  BY <1>3, <1>4, <1>5, <1>6, <1>7 DEF LedgerInv

\* An update of a row, for debit or credit: the row is locked now, by nobody
\* else, or there is none.
LEMMA UpdateRow ==
  ASSUME LedgerTypes, RowsApart, NEW c \in Clients, NEW a \in Accounts, NEW x \in Int, NEW y \in Int, NEW z \in Int,
         Update(c, a, x, y, z)
  PROVE  /\ money' \in [Accounts -> Nat \cup {-1}] /\ holds' \in [Clients -> SUBSET Accounts]
         /\ \A b \in Accounts \ {a} : money'[b] = money[b]
         /\ \A b \in Accounts : Exists(b)' <=> Exists(b)
         /\ \A d \in Clients \ {c} : holds'[d] = holds[d]
         /\ \A d \in Clients \ {c} : \A b \in holds[d] : money'[b] = money[b]
         /\ holds[c] \subseteq holds'[c]
         /\ RowsApart'
         /\ y # 0 => Exists(a) /\ a \in holds'[c]
         /\ Exists(a) => money[a] \in Nat /\ money'[a] = money[a] + y
         /\ InRows(money')[a] - InRows(money)[a] = y
         /\ y + z = x
<1>1. money \in [Accounts -> Nat \cup {-1}] /\ holds \in [Clients -> SUBSET Accounts]
  BY DEF LedgerTypes
<1>2. CASE Exists(a)
  <2>1. /\ \A d \in Clients \ {c} : a \notin holds[d]
        /\ money[a] \in Nat /\ money[a] + x \in Nat
        /\ money' = [money EXCEPT ![a] = money[a] + x]
        /\ holds' = [holds EXCEPT ![c] = holds[c] \cup {a}]
        /\ y = x /\ z = 0
    BY <1>1, <1>2 DEF Update, FreeFor, Exists
  <2>2. /\ money' \in [Accounts -> Nat \cup {-1}]
        /\ money'[a] = money[a] + x /\ money'[a] \in Nat
        /\ \A b \in Accounts \ {a} : money'[b] = money[b]
    BY <1>1, <2>1
  <2>3. /\ holds' \in [Clients -> SUBSET Accounts]
        /\ holds'[c] = holds[c] \cup {a}
        /\ \A d \in Clients \ {c} : holds'[d] = holds[d]
    BY <1>1, <2>1
  <2>4. RowsApart'
    BY <2>1, <2>3 DEF RowsApart
  <2>5. \A b \in Accounts : Exists(b)' <=> Exists(b)
    BY <2>1, <2>2 DEF Exists
  <2>6. \A d \in Clients \ {c} : \A b \in holds[d] : money'[b] = money[b]
    BY <1>1, <2>1, <2>2
  <2>7. InRows(money')[a] - InRows(money)[a] = y
    BY <2>1, <2>2 DEF InRows
  <2> QED
    BY <1>2, <2>1, <2>2, <2>3, <2>4, <2>5, <2>6, <2>7
<1>3. CASE ~Exists(a)
  <2>1. y = 0 /\ z = x /\ UNCHANGED <<money, holds>>
    BY <1>3 DEF Update
  <2>2. InRows(money')[a] - InRows(money)[a] = 0
    BY <1>3, <2>1 DEF InRows, Exists
  <2> QED
    BY <1>1, <1>3, <2>1, <2>2 DEF RowsApart, Exists
<1> QED
  BY <1>2, <1>3

\* The two updates of a transfer.
LEMMA DebitCreditInv ==
  ASSUME LedgerInv, NEW c \in Clients, Debit(c) \/ Credit(c)
  PROVE  LedgerInv'
<1> DEFINE t == transfer[c]
           u == transfer'[c]
<1>1. /\ LedgerTypes /\ RowsApart /\ MoneyConserved /\ TransferOK(c) /\ MissedOK(c)
      /\ transfer \in [Clients -> Transfers] /\ t \in Transfers
      /\ t.from \in Accounts /\ t.to \in Accounts /\ t.amount \in Nat
      /\ UNCHANGED <<paid, noRow, lost>> /\ paid \in Int /\ noRow \in Int
  BY LedgerAssumption DEF LedgerInv, LedgerTypes, TransferOK, Open, Debit, Credit
<1>2. PICK a \in Accounts, x \in Int, y \in Int, z \in Int :
        /\ Update(c, a, x, y, z)
        /\ transfer' \in [Clients -> Transfers]
        /\ \A d \in Clients \ {c} : transfer'[d] = transfer[d]
        /\ u.from = t.from /\ u.to = t.to /\ u.amount = t.amount /\ u.rows = t.rows
        /\ \/ /\ t.at = "debit" /\ u.at = "credit" /\ a = t.from
              /\ u.took = -y /\ u.gave = t.gave /\ u.missed = z /\ x = -t.amount
           \/ /\ t.at = "credit" /\ u.at = "commit" /\ a = t.to
              /\ u.gave = y /\ u.took = t.took /\ u.missed = t.missed + z /\ x = t.amount
  <2>1. CASE Debit(c)
    <3> DEFINE w(x, y) == [t EXCEPT !.at = "credit", !.took = x, !.missed = -y]
    <3>1. PICK x \in {0, t.amount}, y \in {0, t.amount} :
            /\ Update(c, t.from, -t.amount, -x, -y)
            /\ transfer' = [transfer EXCEPT ![c] = w(x, y)]
      BY <2>1 DEF Debit
    <3>2. t.at = "debit"
      BY <2>1 DEF Debit
    <3>3. x \in Nat /\ -t.amount \in Int /\ -x \in Int /\ -(-x) = x /\ -y \in Int
      BY <1>1
    <3> DEFINE v == w(x, y)
    <3>4. v \in Transfers /\ v.at = "credit" /\ v.took = x /\ v.missed = -y /\ v.gave = t.gave /\ v.from = t.from
            /\ v.to = t.to /\ v.amount = t.amount /\ v.rows = t.rows
      BY <1>1, <3>3 DEF Transfers
    <3>5. transfer' = [transfer EXCEPT ![c] = v]
      BY <1>1, <3>1
    <3> HIDE DEF v
    <3>6. transfer' \in [Clients -> Transfers] /\ u = v /\ \A d \in Clients \ {c} : transfer'[d] = transfer[d]
      BY <1>1, <3>4, <3>5
    <3> QED
      BY <1>1, <3>1, <3>2, <3>3, <3>4, <3>6
  <2>2. CASE Credit(c)
    <3> DEFINE w(x, m) == [t EXCEPT !.at = "commit", !.gave = x, !.missed = m]
    <3>1. PICK x \in {0, t.amount}, y \in {0, t.amount} :
            /\ Update(c, t.to, t.amount, x, y)
            /\ transfer' = [transfer EXCEPT ![c] = w(x, t.missed + y)]
      BY <2>2 DEF Credit
    <3>2. t.at = "credit"
      BY <2>2 DEF Credit
    <3>3. x \in Nat /\ y \in Nat /\ t.missed + y \in Int
      BY <1>1 DEF Transfers
    <3> DEFINE v == w(x, t.missed + y)
    <3>4. v \in Transfers /\ v.at = "commit" /\ v.gave = x /\ v.missed = t.missed + y /\ v.took = t.took /\ v.from = t.from
            /\ v.to = t.to /\ v.amount = t.amount /\ v.rows = t.rows
      <4>1. ASSUME NEW m \in Int
            PROVE  /\ w(x, m) \in Transfers /\ w(x, m).at = "commit" /\ w(x, m).gave = x
                   /\ w(x, m).missed = m /\ w(x, m).took = t.took /\ w(x, m).from = t.from
                   /\ w(x, m).to = t.to /\ w(x, m).amount = t.amount /\ w(x, m).rows = t.rows
        BY <1>1, <3>3 DEF Transfers
      <4> HIDE DEF w
      <4> QED
        BY <3>3, <4>1
    <3>5. transfer' = [transfer EXCEPT ![c] = v]
      BY <1>1, <3>1
    <3> HIDE DEF v
    <3>6. transfer' \in [Clients -> Transfers] /\ u = v /\ \A d \in Clients \ {c} : transfer'[d] = transfer[d]
      BY <1>1, <3>4, <3>5
    <3> QED
      BY <1>1, <3>1, <3>2, <3>3, <3>4, <3>6
  <2> QED
    BY <2>1, <2>2 DEF LedgerInv
<1>3. /\ money' \in [Accounts -> Nat \cup {-1}] /\ holds' \in [Clients -> SUBSET Accounts]
      /\ \A b \in Accounts \ {a} : money'[b] = money[b]
      /\ \A b \in Accounts : Exists(b)' <=> Exists(b)
      /\ \A d \in Clients \ {c} : holds'[d] = holds[d]
      /\ \A d \in Clients \ {c} : \A b \in holds[d] : money'[b] = money[b]
      /\ holds[c] \subseteq holds'[c]
      /\ RowsApart'
      /\ y # 0 => Exists(a) /\ a \in holds'[c]
      /\ Exists(a) => money[a] \in Nat /\ money'[a] = money[a] + y
      /\ InRows(money')[a] - InRows(money)[a] = y
      /\ y + z = x
  BY <1>1, <1>2, UpdateRow
<1>4. LedgerTypes'
  BY <1>1, <1>2, <1>3 DEF LedgerTypes
<1>5. TransferOK(c)' /\ MissedOK(c)'
  <2>1. u.at \in {"credit", "commit"} /\ t.at \in {"debit", "credit"} /\ t.gave = 0
    BY <1>1, <1>2 DEF TransferOK, Open
  <2>2. u.took # 0 => t.from \in holds'[c] /\ money'[t.from] # -1
    <3>1. t.took # 0 => t.from \in holds[c] /\ Exists(t.from)
      BY <1>1 DEF TransferOK, Open
    <3>2. t.took # 0 => t.from \in holds'[c] /\ money'[t.from] # -1
      BY <1>1, <1>3, <3>1 DEF Exists
    <3>3. a = t.from /\ y # 0 => t.from \in holds'[c] /\ money'[t.from] # -1
      BY <1>1, <1>3 DEF Exists
    <3>4. u.took = t.took \/ (u.took = -y /\ a = t.from)
      BY <1>2
    <3> HIDE DEF t, u
    <3> QED
      BY <1>2, <3>2, <3>3, <3>4
  <2>3. u.gave # 0 => t.to \in holds'[c] /\ money'[t.to] # -1 /\ money'[t.to] >= u.gave
    <3>1. u.gave # 0 => u.gave = y /\ a = t.to
      BY <1>2, <2>1
    <3>2. a = t.to /\ y # 0 => t.to \in holds'[c] /\ money'[t.to] # -1 /\ money'[t.to] >= y
      <4>1. ASSUME a = t.to, y # 0 PROVE money[a] \in Nat /\ money'[a] = money[a] + y /\ money'[a] # -1
        BY <1>3, <4>1 DEF Exists
      <4> HIDE DEF t
      <4> QED
        BY <1>2, <1>3, <4>1
    <3> HIDE DEF t, u
    <3> QED
      BY <3>1, <3>2
  <2>4. u.rows \subseteq holds'[c]
    BY <1>1, <1>2, <1>3, <2>1 DEF TransferOK, Open
  <2>5. u.at # "commit" => u.gave = 0
    BY <1>2, <2>1
  <2>6. u.from \in Accounts /\ u.to \in Accounts /\ u.amount \in Amounts /\ u.from = t.from /\ u.to = t.to
    BY <1>1, <1>2, <2>1 DEF TransferOK, Open
  <2>7. MissedOK(c)'
    <3>1. /\ t.at = "debit" => t.missed = 0
          /\ t.at = "credit" => t.missed = t.took - t.amount
          /\ t.took \in Int /\ t.amount \in Int
      BY <1>1 DEF MissedOK, Transfers
    <3>2. /\ u.at = "credit" => u.missed = u.took - u.amount
          /\ u.at = "commit" => u.missed = u.took - u.gave
      <4> HIDE DEF t, u
      <4> QED
        BY <1>2, <1>3, <3>1
    <3> QED
      BY <2>1, <3>2 DEF MissedOK
  <2> QED
    BY <2>1, <2>2, <2>3, <2>4, <2>5, <2>6, <2>7 DEF TransferOK, Open, Exists
<1>6. ASSUME NEW d \in Clients, d # c PROVE TransferOK(d)' /\ MissedOK(d)'
  <2>1. TransferOK(d) /\ MissedOK(d) /\ holds'[d] = holds[d] /\ transfer'[d] = transfer[d]
          /\ \A b \in holds[d] : money'[b] = money[b]
    BY <1>2, <1>3, <1>6 DEF LedgerInv
  <2> QED
    BY <1>1, <2>1, TransferKept
<1>7. MoneyConserved'
  <2>1. InTransfers(transfer')[c] - InTransfers(transfer)[c] = -y
    <3>1. t.gave \in Int /\ t.took \in Int /\ (t.at = "debit" => t.took = 0) /\ (t.at = "credit" => t.gave = 0)
      BY <1>1 DEF Transfers, TransferOK, Open
    <3>2. InTransfers(transfer')[c] = u.took - u.gave /\ InTransfers(transfer)[c] = t.took - t.gave
      BY DEF InTransfers
    <3>3. CASE u.took = -y /\ u.gave = t.gave /\ t.took = 0
      BY <1>2, <3>1, <3>2, <3>3
    <3>4. CASE u.gave = y /\ u.took = t.took /\ t.gave = 0
      BY <1>2, <3>1, <3>2, <3>4
    <3> QED
      BY <1>2, <3>1, <3>3, <3>4
  <2>2. (InRows(money')[a] - InRows(money)[a]) + (IF a = a THEN 0 ELSE InRows(money')[a] - InRows(money)[a])
          + (InTransfers(transfer')[c] - InTransfers(transfer)[c]) = (paid' - paid) - (noRow' - noRow) - (lost' - lost)
    <3>1. InTransfers(transfer')[c] \in Int /\ InTransfers(transfer)[c] \in Int
      BY <1>1, <1>4, LedgerSums DEF LedgerTypes
    <3>2. (paid' - paid) - (noRow' - noRow) - (lost' - lost) = 0
      BY <1>1 DEF LedgerTypes
    <3> QED
      BY <1>2, <1>3, <2>1, <3>1, <3>2
  <2> QED
    BY <1>1, <1>2, <1>3, <1>4, <2>2, Booked
<1> QED
  BY <1>3, <1>4, <1>5, <1>6, <1>7 DEF LedgerInv

\* The end of a transfer: what it did stays, or is taken back from rows that
\* nobody else could touch.
LEMMA TransferEndInv ==
  ASSUME LedgerInv, NEW c \in Clients, CommitTransfer(c) \/ Rollback(c)
  PROVE  LedgerInv'
<1> DEFINE t == transfer[c]
<1>1. /\ LedgerTypes /\ RowsApart /\ MoneyConserved /\ TransferOK(c) /\ MissedOK(c)
      /\ money \in [Accounts -> Nat \cup {-1}] /\ holds \in [Clients -> SUBSET Accounts]
      /\ transfer \in [Clients -> Transfers] /\ t \in Transfers
      /\ t.took \in Nat /\ t.gave \in Nat /\ paid \in Int /\ noRow \in Int /\ lost \in Int
      /\ t.missed \in Int /\ t.from \in Accounts /\ t.to \in Accounts
  BY DEF LedgerInv, LedgerTypes, TransferOK, Open, CommitTransfer, Rollback, Transfers
<1>2. /\ transfer' = [transfer EXCEPT ![c] = NoTransfer] /\ NoTransfer \in Transfers
      /\ holds' = [holds EXCEPT ![c] = {}]
      /\ paid' = paid /\ noRow' = noRow
      /\ \/ UNCHANGED money /\ lost' = lost + t.took - t.gave
         \/ /\ money' = [a \in Accounts |-> money[a] + (IF a = t.from THEN t.took ELSE 0)
                                                    - (IF a = t.to THEN t.gave ELSE 0)]
            /\ lost' = lost
  <2>1. CommitTransfer(c) => t.missed = t.took - t.gave
    BY <1>1 DEF MissedOK, CommitTransfer
  <2> QED
    BY <1>1, <2>1 DEF CommitTransfer, Rollback, NoTransfer, Transfers
<1>3. /\ transfer' \in [Clients -> Transfers] /\ holds' \in [Clients -> SUBSET Accounts]
      /\ transfer'[c] = NoTransfer /\ holds'[c] = {}
      /\ \A d \in Clients \ {c} : transfer'[d] = transfer[d] /\ holds'[d] = holds[d]
      /\ noRow' \in Int /\ lost' \in Int
  BY <1>1, <1>2
<1>4. /\ t.took # 0 => t.from \in holds[c] /\ money[t.from] \in Nat
      /\ t.gave # 0 => t.to \in holds[c] /\ money[t.to] \in Nat /\ money[t.to] >= t.gave
  BY <1>1 DEF TransferOK, Open, Exists
<1> HIDE DEF t
<1>5. /\ money' \in [Accounts -> Nat \cup {-1}]
      /\ \A a \in Accounts \ {t.from, t.to} : money'[a] = money[a]
      /\ \A a \in Accounts \ holds[c] : money'[a] = money[a]
  <2>1. CASE UNCHANGED money
    BY <1>1, <2>1
  <2>2. CASE money' = [a \in Accounts |-> money[a] + (IF a = t.from THEN t.took ELSE 0)
                                                  - (IF a = t.to THEN t.gave ELSE 0)]
    <3>1. \A a \in Accounts : /\ a # t.from /\ a # t.to => money'[a] = money[a]
                              /\ a = t.from /\ a # t.to => money'[a] = money[a] + t.took
                              /\ a # t.from /\ a = t.to => money'[a] = money[a] - t.gave
                              /\ a = t.from /\ a = t.to => money'[a] = money[a] + t.took - t.gave
      BY <1>1, <2>2
    <3>2. \A a \in Accounts : money'[a] \in Nat \cup {-1}
      BY <1>1, <1>4, <3>1
    <3>3. \A a \in Accounts \ holds[c] : money'[a] = money[a]
      BY <1>1, <1>4, <3>1
    <3> QED
      BY <2>2, <3>1, <3>2, <3>3
  <2> QED
    BY <1>2, <2>1, <2>2
<1>6. LedgerTypes'
  BY <1>1, <1>2, <1>3, <1>5 DEF LedgerTypes
<1>7. RowsApart'
  BY <1>1, <1>3 DEF RowsApart
<1>8. TransferOK(c)' /\ MissedOK(c)'
  BY <1>3 DEF TransferOK, MissedOK, Open, NoTransfer
<1>9. ASSUME NEW d \in Clients, d # c PROVE TransferOK(d)' /\ MissedOK(d)'
  <2>1. TransferOK(d) /\ MissedOK(d) /\ holds'[d] = holds[d] /\ transfer'[d] = transfer[d]
    BY <1>3, <1>9 DEF LedgerInv
  <2>2. \A a \in holds[d] : money'[a] = money[a]
    BY <1>1, <1>5, <1>9 DEF RowsApart
  <2> QED
    BY <1>1, <2>1, <2>2, TransferKept
<1>10. MoneyConserved'
  <2>1. InTransfers(transfer')[c] - InTransfers(transfer)[c] = t.gave - t.took
    <3>1. InTransfers(transfer')[c] = 0 /\ InTransfers(transfer)[c] = t.took - t.gave
      BY <1>3 DEF InTransfers, NoTransfer, t
    <3> QED
      BY <1>1, <3>1
  <2> DEFINE onFrom == InRows(money')[t.from] - InRows(money)[t.from]
             onTo == IF t.from = t.to THEN 0 ELSE InRows(money')[t.to] - InRows(money)[t.to]
  <2>2. onFrom + onTo = (t.took - t.gave) - (lost' - lost)
    <3>1. CASE UNCHANGED money /\ lost' = lost + t.took - t.gave
      <4>1. onFrom = 0 /\ onTo = 0
        BY <1>1, <3>1 DEF InRows
      <4> QED
        BY <1>1, <3>1, <4>1
    <3>2. CASE /\ money' = [a \in Accounts |-> money[a] + (IF a = t.from THEN t.took ELSE 0)
                                                       - (IF a = t.to THEN t.gave ELSE 0)]
               /\ lost' = lost
      <4>1. CASE t.from = t.to
        <5>1. money'[t.from] = money[t.from] + t.took - t.gave
          BY <1>1, <3>2, <4>1
        <5>2. onFrom = t.took - t.gave /\ onTo = 0
          BY <1>1, <1>4, <4>1, <5>1 DEF InRows
        <5> QED
          BY <1>1, <3>2, <5>2
      <4>2. CASE t.from # t.to
        <5>1. money'[t.from] = money[t.from] + t.took /\ money'[t.to] = money[t.to] - t.gave
          BY <1>1, <3>2, <4>2
        <5>2. onFrom = t.took /\ onTo = -t.gave
          BY <1>1, <1>4, <4>2, <5>1 DEF InRows
        <5> QED
          BY <1>1, <3>2, <5>2
      <4> QED
        BY <4>1, <4>2
    <3> QED
      BY <1>2, <3>1, <3>2 DEF t
  <2>3. onFrom \in Int /\ onTo \in Int
    BY <1>1, <1>5 DEF InRows
  <2>4. onFrom + onTo + (InTransfers(transfer')[c] - InTransfers(transfer)[c])
          = (paid' - paid) - (noRow' - noRow) - (lost' - lost)
    <3> HIDE DEF onFrom, onTo
    <3> QED
      BY <1>1, <1>2, <1>3, <2>1, <2>2, <2>3
  <2> QED
    BY <1>1, <1>3, <1>5, <1>6, <2>4, Booked
<1> QED
  BY <1>6, <1>7, <1>8, <1>9, <1>10 DEF LedgerInv

\* Every step keeps the invariant.
LEMMA LedgerStepInv ==
  ASSUME LedgerInv, [LedgerNext]_ledgerVars
  PROVE  LedgerInv'
<1>1. ASSUME NEW c \in Clients, NEW a \in Accounts, CreateAccount(c, a) PROVE LedgerInv'
  BY <1>1, StatementInv
<1>2. ASSUME NEW c \in Clients, NEW a \in Accounts, NEW x \in Amounts, Deposit(c, a, x) \/ Withdraw(c, a, x)
      PROVE  LedgerInv'
  BY <1>2, StatementInv, LedgerAssumption
<1>3. ASSUME NEW c \in Clients, BeginFails(c) \/ RowsLocked(c) \/ LockRow(c) PROVE LedgerInv'
  BY <1>3, LockingInv
<1>4. ASSUME NEW c \in Clients, \E from, to \in Accounts, x \in Amounts : Begin(c, from, to, x)
      PROVE  LedgerInv'
  BY <1>4, LockingInv
<1>5. ASSUME NEW c \in Clients, Debit(c) \/ Credit(c) PROVE LedgerInv'
  BY <1>5, DebitCreditInv
<1>6. ASSUME NEW c \in Clients, CommitTransfer(c) \/ Rollback(c) PROVE LedgerInv'
  BY <1>6, TransferEndInv
<1>7. CASE UNCHANGED ledgerVars
  BY <1>7 DEF ledgerVars, LedgerInv, LedgerTypes, RowsApart, TransferOK, MissedOK, Open, MoneyConserved, MoneyInRows, MoneyUnderWay, Exists
<1> QED
  BY <1>1, <1>2, <1>3, <1>4, <1>5, <1>6, <1>7 DEF LedgerNext

---------------------------------------------------------------------------
(* ledger: the theorems.                                                   *)

\* The invariant holds, however transfers and other calls interleave and fail
\* (ledger.go:19-120).
THEOREM LedgerInvariant == LedgerSpec => []LedgerInv
<1>1. LedgerInv /\ [LedgerNext]_ledgerVars => LedgerInv'
  BY LedgerStepInv
<1> QED
  BY LedgerInitInv, <1>1, PTL DEF LedgerSpec

\* For any clients, accounts and amounts, the rows and what is under way add up
\* to what was paid in, less exactly the changes whose row does not exist: what
\* a transfer took from or gave to a row is never lost (ledger.go:40-120).
THEOREM LedgerLosesOnlyWhatFindsNoRow == LedgerSpec => []MoneyConserved
<1>1. LedgerInv => MoneyConserved
  BY DEF LedgerInv
<1> QED
  BY LedgerInvariant, <1>1, PTL

\* A circle of waiting transfers contains one that waits, past the statement
\* that locks the rows, for a row created since.  Without it all of them wait
\* in that statement: take the one that waits for the greatest id; whoever has
\* that row waits for a greater one (ledger.go:85-113).
THEOREM LedgerDeadlocksOverNewRows == LedgerSpec => []DeadlockNeedsANewRow
<1>1. LedgerInv => DeadlockNeedsANewRow
  <2> SUFFICES ASSUME LedgerInv, NEW waiting \in SUBSET Clients, Circle(waiting)
               PROVE  \E c \in waiting : /\ transfer[c].at \in {"debit", "credit"}
                                         /\ Wants(c) \cap transfer[c].rows = {}
    BY DEF DeadlockNeedsANewRow
  <2> SUFFICES ASSUME \A c \in waiting : transfer[c].at \in {"debit", "credit"} =>
                                           Wants(c) \cap transfer[c].rows # {}
               PROVE  FALSE
    OBVIOUS
  <2>0. waiting # {} /\ \A c \in waiting : \E d \in waiting \ {c} : Wants(c) \cap holds[d] # {}
    BY DEF Circle
  <2> DEFINE todo(c) == transfer[c].rows \ holds[c]
             wanted == {a \in Accounts : \E c \in waiting : a \in Wants(c)}
  <2>1. ASSUME NEW c \in waiting
        PROVE  /\ transfer[c].at = "lock"
               /\ Wants(c) = {a \in todo(c) : \A b \in todo(c) : a <= b}
               /\ Wants(c) \subseteq Accounts
    <3>1. TransferOK(c) /\ transfer[c] \in Transfers
      BY DEF LedgerInv, LedgerTypes
    <3>2. PICK d \in waiting \ {c} : Wants(c) \cap holds[d] # {}
      BY <2>0
    <3>3. holds[c] \cap holds[d] = {}
      BY <3>2 DEF LedgerInv, RowsApart
    <3>4. CASE transfer[c].at = "lock"
      BY <3>1, <3>4 DEF Wants, Transfers
    <3>5. CASE transfer[c].at \in {"debit", "credit"}
      <4>1. \A a, b \in Wants(c) : a = b
        BY <3>5 DEF Wants
      <4>2. transfer[c].rows \subseteq holds[c]
        BY <3>1, <3>5 DEF TransferOK
      <4> QED
        BY <3>2, <3>3, <3>5, <4>1, <4>2
    <3>6. CASE transfer[c].at \in {"none", "commit", "panicked"}
      <4>1. Wants(c) = {}
        BY <3>6 DEF Wants
      <4> QED
        BY <3>2, <4>1
    <3> QED
      BY <3>1, <3>4, <3>5, <3>6 DEF Transfers
  <2>2. PICK m \in wanted : wanted \subseteq Int /\ \A a \in wanted : a <= m
    <3>1. wanted \subseteq Accounts /\ wanted # {}
      <4>1. PICK c \in waiting : TRUE
        BY <2>0
      <4>2. PICK a \in Wants(c) : TRUE
        BY <2>0
      <4>3. a \in Accounts
        BY <2>1
      <4> QED
        BY <4>2, <4>3
    <3> HIDE DEF wanted
    <3>2. IsFiniteSet(wanted)
      BY <3>1, LedgerAssumption, FS_Subset
    <3>3. wanted \subseteq Int
      BY <3>1, LedgerAssumption
    <3> QED
      BY <3>1, <3>2, <3>3, GreatestElement
  <2>3. PICK c \in waiting : m \in Wants(c)
    BY <2>2
  <2>4. PICK d \in waiting : m \in holds[d]
    <3>1. PICK d \in waiting \ {c} : Wants(c) \cap holds[d] # {}
      BY <2>0, <2>3
    <3>2. \A a \in Wants(c) : a = m
      <4>1. todo(c) \subseteq Nat
        BY LedgerAssumption DEF LedgerInv, LedgerTypes, Transfers
      <4> QED
        BY <2>1, <2>3, <4>1
    <3> QED
      BY <3>1, <3>2
  <2>5. PICK w \in Wants(d) : TRUE
    BY <2>0
  <2>6. m < w
    BY <2>1, <2>4, <2>5 DEF LedgerInv, TransferOK, Open
  <2>7. w \in wanted
    BY <2>1, <2>5
  <2>8. w <= m
    BY <2>2, <2>7
  <2> HIDE DEF wanted
  <2>9. m \in Int /\ w \in Int
    BY <2>2, <2>7
  <2> QED
    BY <2>6, <2>8, <2>9
<1> QED
  BY LedgerInvariant, <1>1, PTL

---------------------------------------------------------------------------
(* artifact cache: the inductive invariant.                                *)

Calls == [in : {"rest", "create", "fill", "stat", "read", "remove"},
          on : Dirs, id : SUBSET Artifacts]

CacheTypes ==
  /\ tmpDir \in [Artifacts -> Dirs] /\ cacheDir \in [Artifacts -> Dirs]
  /\ writeLocked \subseteq Artifacts /\ damaged \subseteq Artifacts
  /\ readLocked \in [Artifacts -> Nat]
  /\ user \in [CacheUsers -> Calls]
  /\ \A u \in CacheUsers : IF user[u].in = "rest" THEN user[u] = AtRest
                                                  ELSE \E a \in Artifacts : user[u].id = {a}
  /\ cacheWrites \in 0..MaxWrites /\ faults \in Nat

Writers(a) == UsersIn(a, {"create", "fill", "remove"})
Readers(a) == UsersIn(a, {"stat", "read"})
OneWrite(dir) == \E n \in 1..MaxWrites : dir.writes = {n}

\* The locks are exact; and of an artifact that is not damaged, a directory
\* below tmp is of the one write that fills it.
ArtifactOK(a) ==
  /\ \A u \in Writers(a) : a \in writeLocked
  /\ \A u, v \in Writers(a) : u = v
  /\ readLocked[a] = Cardinality(Readers(a))
  /\ a \in writeLocked => Readers(a) = {}
  /\ a \in writeLocked /\ a \notin damaged => Writers(a) # {}
  /\ \A u \in UsersIn(a, {"read"}) : cacheDir[a] = user[u].on
  /\ a \notin damaged =>
       /\ cacheDir[a] = NoDir \/ (cacheDir[a].whole /\ OneWrite(cacheDir[a]))
       /\ tmpDir[a] # NoDir => UsersIn(a, {"fill"}) # {}
       /\ UsersIn(a, {"fill"}) # {} => OneWrite(tmpDir[a])

CacheInv == CacheTypes /\ \A a \in Artifacts : ArtifactOK(a)

---------------------------------------------------------------------------
(* artifact cache: who is in which call.                                   *)

\* A step of u that has to do with a only.
StepOf(u, a) ==
  /\ \A v \in CacheUsers \ {u} : user'[v] = user[v]
  /\ user[u].id \subseteq {a} /\ user'[u].id \subseteq {a}
  /\ \A b \in Artifacts \ {a} : /\ tmpDir'[b] = tmpDir[b] /\ cacheDir'[b] = cacheDir[b]
                                /\ readLocked'[b] = readLocked[b]
                                /\ b \in writeLocked' <=> b \in writeLocked
                                /\ b \in damaged' <=> b \in damaged

\* Who is in a call of an artifact changes by u, and of a only.
LEMMA UsersMove ==
  ASSUME NEW u \in CacheUsers, NEW a \in Artifacts, StepOf(u, a), NEW calls
  PROVE  /\ UsersIn(a, calls)' = (UsersIn(a, calls) \ {u})
              \cup (IF user'[u].id = {a} /\ user'[u].in \in calls THEN {u} ELSE {})
         /\ \A b \in Artifacts : b # a => UsersIn(b, calls)' = UsersIn(b, calls)
<1>1. UsersIn(a, calls)' = {v \in CacheUsers : user'[v].id = {a} /\ user'[v].in \in calls}
  BY DEF UsersIn
<1>2. UsersIn(a, calls)' = (UsersIn(a, calls) \ {u})
         \cup (IF user'[u].id = {a} /\ user'[u].in \in calls THEN {u} ELSE {})
  BY <1>1 DEF UsersIn, StepOf
<1>3. ASSUME NEW b \in Artifacts, b # a PROVE UsersIn(b, calls)' = UsersIn(b, calls)
  <2>1. UsersIn(b, calls)' = {v \in CacheUsers : user'[v].id = {b} /\ user'[v].in \in calls}
    BY DEF UsersIn
  <2> QED
    BY <2>1, <1>3 DEF UsersIn, StepOf
<1> QED
  BY <1>2, <1>3

\* What holds of the other artifacts goes on to hold.
LEMMA OthersKept ==
  ASSUME CacheInv, NEW u \in CacheUsers, NEW a \in Artifacts, StepOf(u, a),
         NEW b \in Artifacts, b # a
  PROVE  ArtifactOK(b)'
<1>1. ASSUME NEW calls PROVE UsersIn(b, calls)' = UsersIn(b, calls)
  BY UsersMove
<1>2. \A v \in UsersIn(b, {"read"}) : user'[v] = user[v]
  BY DEF UsersIn, StepOf
<1>3. ArtifactOK(b)
  BY DEF CacheInv
<1> QED
  BY <1>1, <1>2, <1>3 DEF ArtifactOK, StepOf, Writers, Readers

\* Readers are finitely many, and none when their number is 0.
LEMMA ReadersCounted ==
  ASSUME NEW a
  PROVE  /\ IsFiniteSet(Readers(a)) /\ Cardinality(Readers(a)) \in 0..Cardinality(CacheUsers)
         /\ Cardinality(Readers(a)) = 0 <=> Readers(a) = {}
<1>1. Readers(a) \subseteq CacheUsers
  BY DEF Readers, UsersIn
<1>2. /\ IsFiniteSet(Readers(a)) /\ Cardinality(Readers(a)) <= Cardinality(CacheUsers)
      /\ Cardinality(Readers(a)) \in Nat /\ Cardinality(CacheUsers) \in Nat
  BY <1>1, CacheAssumption, FS_Subset, FS_CardinalityType
<1> QED
  BY <1>2, FS_EmptySet

\* The invariant for a, by the users in a call of a after the step.
LEMMA ArtifactNext ==
  ASSUME NEW u \in CacheUsers, NEW a \in Artifacts, StepOf(u, a), CacheInv,
         NEW in, user'[u].in = in, in # "rest" => user'[u].id = {a}, in = "rest" => user'[u].id = {}
  PROVE  /\ Writers(a)' = (Writers(a) \ {u}) \cup (IF in \in {"create", "fill", "remove"} THEN {u} ELSE {})
         /\ Readers(a)' = (Readers(a) \ {u}) \cup (IF in \in {"stat", "read"} THEN {u} ELSE {})
         /\ UsersIn(a, {"fill"})' = (UsersIn(a, {"fill"}) \ {u}) \cup (IF in = "fill" THEN {u} ELSE {})
         /\ UsersIn(a, {"read"})' = (UsersIn(a, {"read"}) \ {u}) \cup (IF in = "read" THEN {u} ELSE {})
         /\ \A v \in UsersIn(a, {"read"}) : v # u => user'[v] = user[v]
<1>1. \A v \in UsersIn(a, {"read"}) : v # u => user'[v] = user[v]
  BY DEF UsersIn, StepOf
<1>2. ASSUME NEW calls, "rest" \notin calls
      PROVE  UsersIn(a, calls)' = (UsersIn(a, calls) \ {u}) \cup (IF in \in calls THEN {u} ELSE {})
  <2>1. UsersIn(a, calls)' = (UsersIn(a, calls) \ {u})
           \cup (IF user'[u].id = {a} /\ user'[u].in \in calls THEN {u} ELSE {})
    BY UsersMove
  <2> QED
    BY <2>1, <1>2
<1> QED
  BY <1>1, <1>2 DEF Writers, Readers

\* The invariant, put together again.
LEMMA CacheInvNext ==
  ASSUME CacheInv, CacheTypes', NEW u \in CacheUsers, NEW a \in Artifacts, StepOf(u, a), ArtifactOK(a)'
  PROVE  CacheInv'
BY OthersKept DEF CacheInv

---------------------------------------------------------------------------
(* artifact cache: the steps.                                              *)

\* The invariant holds when NewCache has opened an empty directory.
LEMMA CacheInitInv == CacheInit => CacheInv
<1> SUFFICES ASSUME CacheInit PROVE CacheInv
  OBVIOUS
<1>1. NoDir \in Dirs /\ AtRest \in Calls /\ AtRest.in = "rest" /\ AtRest.id = {}
  BY DEF NoDir, Dirs, AtRest, Calls
<1>2. CacheTypes
  BY <1>1, CacheAssumption DEF CacheInit, CacheTypes
<1>3. ASSUME NEW a \in Artifacts PROVE ArtifactOK(a)
  <2>1. ASSUME NEW calls PROVE UsersIn(a, calls) = {}
    BY <1>1 DEF CacheInit, UsersIn
  <2>2. Writers(a) = {} /\ Readers(a) = {} /\ UsersIn(a, {"read"}) = {} /\ UsersIn(a, {"fill"}) = {}
    BY <2>1 DEF Writers, Readers
  <2>3. Cardinality(Readers(a)) = 0
    BY <2>2, ReadersCounted
  <2> QED
    BY <2>2, <2>3 DEF CacheInit, ArtifactOK
<1> QED
  BY <1>2, <1>3 DEF CacheInv

\* Create and Remove take the write lock.
LEMMA WriteLockInv ==
  ASSUME CacheInv, NEW u \in CacheUsers, NEW a \in Artifacts, Create(u, a) \/ RemoveArtifact(u, a)
  PROVE  CacheInv'
<1>1. CacheTypes /\ ArtifactOK(a)
  BY DEF CacheInv
<1>2. PICK to \in {"create", "remove"} :
        /\ user' = [user EXCEPT ![u].in = to, ![u].id = {a}] /\ user[u] = AtRest
        /\ writeLocked' = writeLocked \cup {a} /\ a \notin writeLocked /\ readLocked[a] = 0
        /\ UNCHANGED <<tmpDir, cacheDir, readLocked, cacheWrites, faults, damaged>>
  BY DEF Create, RemoveArtifact, WriteLock, StartCall
<1>3. /\ user'[u] = [AtRest EXCEPT !.in = to, !.id = {a}]
      /\ \A v \in CacheUsers \ {u} : user'[v] = user[v]
      /\ user' \in [CacheUsers -> Calls]
  BY <1>1, <1>2 DEF CacheTypes, AtRest, Calls
<1>4. user'[u].in = to /\ user'[u].id = {a} /\ user[u].id = {}
  BY <1>2, <1>3 DEF AtRest
<1>5. CacheTypes'
  BY <1>1, <1>2, <1>3, <1>4 DEF CacheTypes
<1>6. StepOf(u, a)
  BY <1>2, <1>3, <1>4 DEF StepOf
<1>7. ArtifactOK(a)'
  <2>1. /\ Writers(a)' = (Writers(a) \ {u}) \cup {u}
        /\ Readers(a)' = Readers(a) \ {u}
        /\ UsersIn(a, {"fill"})' = UsersIn(a, {"fill"}) \ {u}
        /\ UsersIn(a, {"read"})' = UsersIn(a, {"read"}) \ {u}
    <3>1. to # "rest" /\ to \in {"create", "fill", "remove"} /\ to # "fill" /\ to \notin {"stat", "read"}
      OBVIOUS
    <3>2. to # "rest" => user'[u].id = {a}
      BY <1>4
    <3>3. user'[u].in = to
      BY <1>4
    <3> QED
      BY <1>6, <3>1, <3>2, <3>3, ArtifactNext
  <2>2. Writers(a) = {} /\ Readers(a) = {}
    BY <1>1, <1>2, ReadersCounted DEF ArtifactOK
  <2>3. UsersIn(a, {"fill"}) = {} /\ UsersIn(a, {"read"}) = {}
    BY <2>2 DEF Writers, Readers, UsersIn
  <2>4. Writers(a)' = {u} /\ Readers(a)' = {} /\ UsersIn(a, {"fill"})' = {} /\ UsersIn(a, {"read"})' = {}
    BY <2>1, <2>2, <2>3
  <2>5. Cardinality(Readers(a)') = 0
    BY <2>4, FS_EmptySet
  <2> QED
    BY <1>1, <1>2, <2>3, <2>4, <2>5 DEF ArtifactOK
<1> QED
  BY <1>5, <1>6, <1>7, CacheInvNext

\* The writer of a goes on: no reader is there, and nobody else fills a.
LEMMA WriterInv ==
  ASSUME CacheInv, NEW u \in CacheUsers, NEW a \in Artifacts,
         MakeTmpDir(u, a) \/ FillTmpDir(u, a) \/ RemoveFiles(u, a)
  PROVE  CacheInv'
<1>1. CacheTypes /\ ArtifactOK(a)
  BY DEF CacheInv
<1>2. PICK from \in {"create", "fill", "remove"}, to \in {"fill", "remove"} :
        /\ user[u].in = from /\ user[u].id = {a} /\ user' = [user EXCEPT ![u].in = to]
        /\ UNCHANGED <<writeLocked, readLocked, faults>>
        /\ \/ MakeTmpDir(u, a) /\ from = "create" /\ to = "fill"
           \/ FillTmpDir(u, a) /\ from = "fill" /\ to = "fill"
           \/ RemoveFiles(u, a) /\ from = "remove" /\ to = "remove"
  BY DEF MakeTmpDir, FillTmpDir, RemoveFiles, CacheStep
<1>3. /\ \A v \in CacheUsers \ {u} : user'[v] = user[v]
      /\ user' \in [CacheUsers -> Calls]
      /\ user'[u].in = to /\ user'[u].id = {a}
  BY <1>1, <1>2 DEF CacheTypes, Calls
<1>4. /\ tmpDir' \in [Artifacts -> Dirs] /\ cacheDir' \in [Artifacts -> Dirs]
      /\ cacheWrites' \in 0..MaxWrites /\ damaged' \subseteq Artifacts
      /\ \A b \in Artifacts \ {a} : /\ tmpDir'[b] = tmpDir[b] /\ cacheDir'[b] = cacheDir[b]
                                    /\ b \in damaged' <=> b \in damaged
  <2>1. CASE MakeTmpDir(u, a)
    <3> DEFINE d == [writes |-> tmpDir[a].writes \cup {cacheWrites + 1}, whole |-> FALSE]
    <3>1. tmpDir' = [tmpDir EXCEPT ![a] = d]
      BY <1>1, <2>1 DEF MakeTmpDir, CacheTypes
    <3>2. cacheWrites + 1 \in 1..MaxWrites /\ tmpDir[a].writes \subseteq 1..MaxWrites
      BY <1>1, <2>1, CacheAssumption DEF MakeTmpDir, CacheTypes, Dirs
    <3>3. d \in Dirs
      BY <3>2 DEF Dirs
    <3> HIDE DEF d
    <3>4. tmpDir' \in [Artifacts -> Dirs] /\ \A b \in Artifacts \ {a} : tmpDir'[b] = tmpDir[b]
      BY <1>1, <3>1, <3>3 DEF CacheTypes
    <3>5. cacheWrites' \in 0..MaxWrites
      BY <2>1, <3>2, CacheAssumption DEF MakeTmpDir
    <3> QED
      BY <1>1, <2>1, <3>4, <3>5 DEF MakeTmpDir, CacheTypes
  <2>2. CASE FillTmpDir(u, a)
    BY <1>1, <2>2, ZenonT(30) DEF FillTmpDir, CacheTypes, Dirs
  <2>3. CASE RemoveFiles(u, a)
    BY <1>1, <2>3 DEF RemoveFiles, CacheTypes, Dirs
  <2> QED
    BY <2>1, <2>2, <2>3
<1>5. CacheTypes'
  BY <1>1, <1>2, <1>3, <1>4 DEF CacheTypes
<1>6. StepOf(u, a)
  BY <1>2, <1>3, <1>4 DEF StepOf
<1>7. u \in Writers(a) /\ Writers(a) = {u} /\ Readers(a) = {} /\ a \in writeLocked
  <2>1. u \in Writers(a)
    BY <1>2 DEF Writers, UsersIn
  <2> QED
    BY <1>1, <2>1 DEF ArtifactOK
<1>8. UsersIn(a, {"read"}) = {} /\ UsersIn(a, {"fill"}) = IF from = "fill" THEN {u} ELSE {}
  BY <1>2, <1>7 DEF Writers, Readers, UsersIn
<1>9. /\ Writers(a)' = {u} /\ Readers(a)' = {} /\ UsersIn(a, {"read"})' = {}
      /\ UsersIn(a, {"fill"})' = IF to = "fill" THEN {u} ELSE {}
  <2>1. /\ Writers(a)' = (Writers(a) \ {u}) \cup {u}
        /\ Readers(a)' = Readers(a) \ {u}
        /\ UsersIn(a, {"fill"})' = (UsersIn(a, {"fill"}) \ {u}) \cup (IF to = "fill" THEN {u} ELSE {})
        /\ UsersIn(a, {"read"})' = UsersIn(a, {"read"}) \ {u}
    BY <1>2, <1>3, <1>6, ArtifactNext
  <2> QED
    BY <2>1, <1>7, <1>8
<1>10. Cardinality(Readers(a)') = 0 /\ Cardinality(Readers(a)) = 0
  BY <1>7, <1>9, FS_EmptySet
<1>11. a \notin damaged' =>
         /\ cacheDir'[a] = NoDir \/ (cacheDir'[a].whole /\ OneWrite(cacheDir'[a]))
         /\ to = "fill" => OneWrite(tmpDir'[a])
         /\ tmpDir'[a] # NoDir => to = "fill"
  <2>1. CASE MakeTmpDir(u, a)
    <3>1. /\ UNCHANGED <<cacheDir, damaged>> /\ to = "fill" /\ from = "create"
          /\ tmpDir'[a].writes = tmpDir[a].writes \cup {cacheWrites + 1}
          /\ cacheWrites + 1 \in 1..MaxWrites
      BY <1>1, <1>2, <2>1, CacheAssumption DEF MakeTmpDir, FillTmpDir, RemoveFiles, CacheStep, CacheTypes
    <3>2. a \notin damaged => tmpDir[a] = NoDir
      BY <1>1, <1>8, <3>1 DEF ArtifactOK
    <3>3. a \notin damaged => tmpDir'[a].writes = {cacheWrites + 1}
      BY <3>1, <3>2 DEF NoDir
    <3> QED
      BY <1>1, <3>1, <3>3 DEF ArtifactOK, OneWrite
  <2>2. CASE FillTmpDir(u, a)
    <3>1. /\ UNCHANGED <<cacheDir, damaged>> /\ to = "fill" /\ from = "fill"
          /\ tmpDir'[a].writes = tmpDir[a].writes
      BY <1>1, <1>2, <2>2 DEF MakeTmpDir, FillTmpDir, RemoveFiles, CacheStep, CacheTypes, Dirs
    <3> QED
      BY <1>1, <1>8, <3>1 DEF ArtifactOK, OneWrite
  <2>3. CASE RemoveFiles(u, a)
    BY <2>3 DEF RemoveFiles
  <2> QED
    BY <1>2, <2>1, <2>2, <2>3
<1>12. ArtifactOK(a)'
  BY <1>1, <1>2, <1>7, <1>9, <1>10, <1>11 DEF ArtifactOK
<1> QED
  BY <1>5, <1>6, <1>12, CacheInvNext

\* The writer of a is done: the lock goes with it, or stays on an artifact
\* that counts as damaged.
LEMMA WriterEndInv ==
  ASSUME CacheInv, NEW u \in CacheUsers, NEW a \in Artifacts,
         \/ MakeTmpDirFails(u, a) \/ Commit(u, a) \/ CommitOrAbortFails(u, a) \/ Abort(u, a)
         \/ FileCreatePanics(u, a) \/ CommitDespiteClose(u, a) \/ RemoveEnds(u, a)
  PROVE  CacheInv'
<1>1. CacheTypes /\ ArtifactOK(a)
  BY DEF CacheInv
<1>2. PICK from \in {"create", "fill", "remove"} :
        /\ user[u].in = from /\ user[u].id = {a} /\ user' = [user EXCEPT ![u] = AtRest]
        /\ UNCHANGED <<readLocked, cacheWrites>>
        /\ \/ MakeTmpDirFails(u, a) /\ from = "create"
           \/ from = "fill" /\ \/ Commit(u, a) \/ CommitOrAbortFails(u, a) \/ Abort(u, a)
                               \/ FileCreatePanics(u, a) \/ CommitDespiteClose(u, a)
           \/ RemoveEnds(u, a) /\ from = "remove"
  BY DEF MakeTmpDirFails, Commit, CommitOrAbortFails, Abort, FileCreatePanics, CommitDespiteClose,
         RemoveEnds, EndCall, WriteUnlock
<1>3. \/ writeLocked' = writeLocked \ {a}
      \/ writeLocked' = writeLocked /\ a \in damaged'
  BY <1>2 DEF MakeTmpDirFails, Commit, CommitOrAbortFails, Abort, FileCreatePanics, CommitDespiteClose,
              RemoveEnds, WriteUnlock
<1>4. NoDir \in Dirs /\ AtRest \in Calls /\ AtRest.in = "rest" /\ AtRest.id = {}
  BY DEF NoDir, Dirs, AtRest, Calls
<1>5. /\ \A v \in CacheUsers \ {u} : user'[v] = user[v]
      /\ user' \in [CacheUsers -> Calls] /\ user'[u] = AtRest
  BY <1>1, <1>2, <1>4 DEF CacheTypes
<1>6. /\ tmpDir' \in [Artifacts -> Dirs] /\ cacheDir' \in [Artifacts -> Dirs]
      /\ faults' \in Nat /\ damaged' \subseteq Artifacts
      /\ \A b \in Artifacts \ {a} : /\ tmpDir'[b] = tmpDir[b] /\ cacheDir'[b] = cacheDir[b]
                                    /\ b \in damaged' <=> b \in damaged
  <2>1. CASE MakeTmpDirFails(u, a) \/ CommitOrAbortFails(u, a) \/ FileCreatePanics(u, a)
    BY <1>1, <2>1 DEF CacheTypes, MakeTmpDirFails, CommitOrAbortFails, FileCreatePanics, DiskFault
  <2>2. CASE Commit(u, a) \/ Abort(u, a)
    BY <1>1, <1>4, <2>2 DEF CacheTypes, Commit, Abort
  <2>3. CASE CommitDespiteClose(u, a)
    <3> DEFINE d == [tmpDir[a] EXCEPT !.whole = FALSE]
    <3>1. d \in Dirs
      BY <1>1, ZenonT(30) DEF CacheTypes, Dirs
    <3>2. /\ cacheDir' = [cacheDir EXCEPT ![a] = d] /\ tmpDir' = [tmpDir EXCEPT ![a] = NoDir]
          /\ damaged' = damaged \cup {a} /\ faults' = faults + 1
      BY <2>3 DEF CommitDespiteClose, DiskFault
    <3> HIDE DEF d
    <3> QED
      BY <1>1, <1>4, <3>1, <3>2 DEF CacheTypes
  <2>4. CASE RemoveEnds(u, a)
    BY <1>1, <1>4, <2>4 DEF CacheTypes, RemoveEnds, DiskFault
  <2> QED
    BY <1>2, <2>1, <2>2, <2>3, <2>4
<1>7. CacheTypes'
  BY <1>1, <1>2, <1>3, <1>4, <1>5, <1>6 DEF CacheTypes
<1>8. StepOf(u, a)
  BY <1>2, <1>3, <1>4, <1>5, <1>6 DEF StepOf
<1>9. Writers(a) = {u} /\ Readers(a) = {}
  <2>1. u \in Writers(a)
    BY <1>2 DEF Writers, UsersIn
  <2> QED
    BY <1>1, <2>1 DEF ArtifactOK
<1>10. UsersIn(a, {"read"}) = {} /\ UsersIn(a, {"fill"}) = IF from = "fill" THEN {u} ELSE {}
  BY <1>2, <1>9 DEF Writers, Readers, UsersIn
<1>11. Writers(a)' = {} /\ Readers(a)' = {} /\ UsersIn(a, {"read"})' = {} /\ UsersIn(a, {"fill"})' = {}
  <2>1. /\ Writers(a)' = (Writers(a) \ {u}) /\ Readers(a)' = Readers(a) \ {u}
        /\ UsersIn(a, {"fill"})' = UsersIn(a, {"fill"}) \ {u}
        /\ UsersIn(a, {"read"})' = UsersIn(a, {"read"}) \ {u}
    <3>1. user'[u].in = "rest" /\ user'[u].id = {}
      BY <1>4, <1>5
    <3> QED
      BY <1>8, <3>1, ArtifactNext
  <2> QED
    BY <2>1, <1>9, <1>10
<1>12. Cardinality(Readers(a)') = 0 /\ Cardinality(Readers(a)) = 0
  BY <1>9, <1>11, FS_EmptySet
<1>13. a \notin damaged' => /\ cacheDir'[a] = NoDir \/ (cacheDir'[a].whole /\ OneWrite(cacheDir'[a]))
                           /\ tmpDir'[a] = NoDir
  <2>1. /\ a \notin damaged => cacheDir[a] = NoDir \/ (cacheDir[a].whole /\ OneWrite(cacheDir[a]))
        /\ a \notin damaged /\ from # "fill" => tmpDir[a] = NoDir
        /\ a \notin damaged /\ from = "fill" => OneWrite(tmpDir[a])
    BY <1>1, <1>10 DEF ArtifactOK
  <2>2. CASE MakeTmpDirFails(u, a)
    BY <1>2, <2>1, <2>2 DEF MakeTmpDirFails
  <2>3. CASE Commit(u, a)
    BY <1>1, <2>1, <2>3 DEF Commit, CacheTypes
  <2>4. CASE Abort(u, a)
    BY <1>1, <2>1, <2>4 DEF Abort, CacheTypes
  <2>5. CASE CommitOrAbortFails(u, a) \/ FileCreatePanics(u, a) \/ CommitDespiteClose(u, a)
    BY <2>5 DEF CommitOrAbortFails, FileCreatePanics, CommitDespiteClose
  <2>6. CASE RemoveEnds(u, a)
    <3>1. a \notin damaged => tmpDir[a] = NoDir
      BY <1>2, <2>1, <2>6 DEF RemoveEnds
    <3> QED
      BY <1>1, <2>1, <2>6, <3>1 DEF RemoveEnds, CacheTypes
  <2> QED
    BY <1>2, <2>2, <2>3, <2>4, <2>5, <2>6
<1>14. a \in writeLocked' => a \in damaged'
  BY <1>3
<1>15. ArtifactOK(a)'
  BY <1>1, <1>2, <1>11, <1>12, <1>13, <1>14 DEF ArtifactOK
<1> QED
  BY <1>7, <1>8, <1>15, CacheInvNext

\* A reader comes and is counted.
LEMMA GetInv ==
  ASSUME CacheInv, NEW u \in CacheUsers, NEW a \in Artifacts, Get(u, a)
  PROVE  CacheInv'
<1>1. CacheTypes /\ ArtifactOK(a)
  BY DEF CacheInv
<1>2. /\ user' = [user EXCEPT ![u].in = "stat", ![u].id = {a}] /\ user[u] = AtRest
      /\ a \notin writeLocked /\ readLocked' = [readLocked EXCEPT ![a] = @ + 1]
      /\ UNCHANGED <<tmpDir, cacheDir, writeLocked, cacheWrites, faults, damaged>>
  BY DEF Get, ReadLock, StartCall
<1>3. /\ user'[u] = [AtRest EXCEPT !.in = "stat", !.id = {a}]
      /\ \A v \in CacheUsers \ {u} : user'[v] = user[v]
      /\ user' \in [CacheUsers -> Calls]
  BY <1>1, <1>2 DEF CacheTypes, AtRest, Calls
<1>4. user'[u].in = "stat" /\ user'[u].id = {a} /\ user[u].id = {} /\ user[u].in = "rest"
  BY <1>2, <1>3 DEF AtRest
<1>5. /\ readLocked' \in [Artifacts -> Nat] /\ readLocked'[a] = readLocked[a] + 1
      /\ \A b \in Artifacts \ {a} : readLocked'[b] = readLocked[b]
  BY <1>1, <1>2 DEF CacheTypes
<1>6. CacheTypes'
  BY <1>1, <1>2, <1>3, <1>4, <1>5 DEF CacheTypes
<1>7. StepOf(u, a)
  BY <1>2, <1>3, <1>4, <1>5 DEF StepOf
<1>8. /\ Writers(a)' = Writers(a) \ {u} /\ Readers(a)' = (Readers(a) \ {u}) \cup {u}
      /\ UsersIn(a, {"fill"})' = UsersIn(a, {"fill"}) \ {u}
      /\ UsersIn(a, {"read"})' = UsersIn(a, {"read"}) \ {u}
      /\ \A v \in UsersIn(a, {"read"}) : v # u => user'[v] = user[v]
  BY <1>4, <1>7, ArtifactNext
<1>9. u \notin Readers(a) /\ Writers(a) = {} /\ u \notin UsersIn(a, {"read"}) /\ UsersIn(a, {"fill"}) = {}
  BY <1>1, <1>2, <1>4 DEF ArtifactOK, Writers, Readers, UsersIn
<1>10. readLocked'[a] = Cardinality(Readers(a)')
  <2>1. Readers(a)' = Readers(a) \cup {u} /\ IsFiniteSet(Readers(a))
    BY <1>8, <1>9, ReadersCounted
  <2>2. Cardinality(Readers(a) \cup {u}) = Cardinality(Readers(a)) + 1
    BY <1>9, <2>1, FS_AddElement
  <2> QED
    BY <1>1, <1>5, <2>1, <2>2 DEF ArtifactOK
<1>11. /\ Writers(a)' = {} /\ UsersIn(a, {"fill"})' = {} /\ UsersIn(a, {"read"})' = UsersIn(a, {"read"})
  BY <1>8, <1>9
<1>12. ArtifactOK(a)'
  BY <1>1, <1>2, <1>8, <1>9, <1>10, <1>11 DEF ArtifactOK
<1> QED
  BY <1>6, <1>7, <1>12, CacheInvNext

\* A reader finds the artifact: its lock keeps writers out until unlock.
LEMMA StatFindsInv ==
  ASSUME CacheInv, NEW u \in CacheUsers, NEW a \in Artifacts,
         user[u].in = "stat", user[u].id = {a},
         user' = [user EXCEPT ![u].in = "read", ![u].on = cacheDir[a]],
         UNCHANGED <<tmpDir, cacheDir, writeLocked, readLocked, cacheWrites, faults, damaged>>
  PROVE  CacheInv'
<1>1. CacheTypes /\ ArtifactOK(a)
  BY DEF CacheInv
<1>2. /\ user'[u].in = "read" /\ user'[u].id = {a} /\ user'[u].on = cacheDir[a]
      /\ \A v \in CacheUsers \ {u} : user'[v] = user[v]
      /\ user' \in [CacheUsers -> Calls]
  <2> DEFINE t == [user[u] EXCEPT !.in = "read", !.on = cacheDir[a]]
  <2>1. user' = [user EXCEPT ![u] = t]
    BY <1>1 DEF CacheTypes
  <2>2. /\ t \in Calls /\ t.in = "read" /\ t.id = {a} /\ t.on = cacheDir[a]
    BY <1>1 DEF CacheTypes, Calls
  <2> HIDE DEF t
  <2> QED
    BY <1>1, <2>1, <2>2, ZenonT(30) DEF CacheTypes
<1>3. CacheTypes'
  BY <1>1, <1>2 DEF CacheTypes
<1>4. StepOf(u, a)
  BY <1>2 DEF StepOf
<1>5. /\ Writers(a)' = Writers(a) \ {u} /\ Readers(a)' = (Readers(a) \ {u}) \cup {u}
      /\ UsersIn(a, {"fill"})' = UsersIn(a, {"fill"}) \ {u}
      /\ UsersIn(a, {"read"})' = (UsersIn(a, {"read"}) \ {u}) \cup {u}
      /\ \A v \in UsersIn(a, {"read"}) : v # u => user'[v] = user[v]
  <2> DEFINE in == user'[u].in
  <2>1. in = "read" /\ user'[u].id = {a}
    BY <1>2
  <2> HIDE DEF in
  <2>2. /\ Writers(a)' = (Writers(a) \ {u}) \cup (IF in \in {"create", "fill", "remove"} THEN {u} ELSE {})
        /\ Readers(a)' = (Readers(a) \ {u}) \cup (IF in \in {"stat", "read"} THEN {u} ELSE {})
        /\ UsersIn(a, {"fill"})' = (UsersIn(a, {"fill"}) \ {u}) \cup (IF in = "fill" THEN {u} ELSE {})
        /\ UsersIn(a, {"read"})' = (UsersIn(a, {"read"}) \ {u}) \cup (IF in = "read" THEN {u} ELSE {})
        /\ \A v \in UsersIn(a, {"read"}) : v # u => user'[v] = user[v]
    BY <1>4, <2>1, ArtifactNext DEF in
  <2> QED
    BY <2>1, <2>2
<1>6. u \in Readers(a) /\ u \notin Writers(a) /\ u \notin UsersIn(a, {"fill"})
  BY DEF Writers, Readers, UsersIn
<1>7. Writers(a)' = Writers(a) /\ Readers(a)' = Readers(a) /\ UsersIn(a, {"fill"})' = UsersIn(a, {"fill"})
  BY <1>5, <1>6
<1>8. ASSUME NEW v \in UsersIn(a, {"read"})' PROVE cacheDir'[a] = user'[v].on
  <2>1. CASE v = u
    BY <1>2, <2>1
  <2>2. CASE v # u
    BY <1>1, <1>5, <1>8, <2>2 DEF ArtifactOK
  <2> QED
    BY <2>1, <2>2
<1>9. ArtifactOK(a)'
  BY <1>1, <1>7, <1>8 DEF ArtifactOK
<1> QED
  BY <1>3, <1>4, <1>9, CacheInvNext

\* A reader goes and is not counted any more.
LEMMA ReaderEndInv ==
  ASSUME CacheInv, NEW u \in CacheUsers, NEW a \in Artifacts,
         user[u].in \in {"stat", "read"}, user[u].id = {a},
         ReadUnlock(a), EndCall(u), faults' \in Nat,
         UNCHANGED <<tmpDir, cacheDir, cacheWrites, damaged>>
  PROVE  CacheInv'
<1>1. CacheTypes /\ ArtifactOK(a)
  BY DEF CacheInv
<1>2. AtRest \in Calls /\ AtRest.in = "rest" /\ AtRest.id = {}
  BY DEF NoDir, Dirs, AtRest, Calls
<1>3. /\ user'[u] = AtRest /\ \A v \in CacheUsers \ {u} : user'[v] = user[v]
      /\ user' \in [CacheUsers -> Calls]
  BY <1>1, <1>2 DEF CacheTypes, EndCall
<1>4. u \in Readers(a) /\ u \notin Writers(a) /\ u \notin UsersIn(a, {"fill"})
  BY DEF Writers, Readers, UsersIn
<1>5. readLocked[a] = Cardinality(Readers(a)) /\ readLocked[a] # 0 /\ readLocked[a] \in Nat
  BY <1>1, <1>4, ReadersCounted DEF ArtifactOK, CacheTypes
<1>6. /\ readLocked' \in [Artifacts -> Nat] /\ readLocked'[a] = readLocked[a] - 1
      /\ writeLocked' = writeLocked /\ \A b \in Artifacts \ {a} : readLocked'[b] = readLocked[b]
  BY <1>1, <1>5 DEF CacheTypes, ReadUnlock
<1>7. CacheTypes'
  BY <1>1, <1>2, <1>3, <1>6 DEF CacheTypes
<1>8. StepOf(u, a)
  BY <1>2, <1>3, <1>6 DEF StepOf
<1>9. /\ Writers(a)' = Writers(a) \ {u} /\ Readers(a)' = Readers(a) \ {u}
      /\ UsersIn(a, {"fill"})' = UsersIn(a, {"fill"}) \ {u}
      /\ UsersIn(a, {"read"})' = UsersIn(a, {"read"}) \ {u}
      /\ \A v \in UsersIn(a, {"read"}) : v # u => user'[v] = user[v]
  <2>1. user'[u].in = "rest" /\ user'[u].id = {}
    BY <1>2, <1>3
  <2> QED
    BY <1>8, <2>1, ArtifactNext
<1>10. readLocked'[a] = Cardinality(Readers(a)')
  BY <1>4, <1>5, <1>6, <1>9, ReadersCounted, FS_RemoveElement
<1>11. Writers(a)' = Writers(a) /\ UsersIn(a, {"fill"})' = UsersIn(a, {"fill"})
  BY <1>4, <1>9
<1>12. ArtifactOK(a)'
  BY <1>1, <1>6, <1>9, <1>10, <1>11 DEF ArtifactOK
<1> QED
  BY <1>7, <1>8, <1>12, CacheInvNext

\* A crash loses the locks and what is below tmp; what a call had left halfway
\* in the cache stays, and counts as damaged already.
LEMMA CrashInv ==
  ASSUME CacheInv, CrashAndNewCache
  PROVE  CacheInv'
<1>1. NoDir \in Dirs /\ AtRest \in Calls /\ AtRest.in = "rest" /\ AtRest.id = {}
  BY DEF NoDir, Dirs, AtRest, Calls
<1>2. CacheTypes'
  BY <1>1 DEF CacheInv, CacheTypes, CrashAndNewCache, DiskFault
<1>3. ASSUME NEW a \in Artifacts PROVE ArtifactOK(a)'
  <2>1. \A u \in CacheUsers : user'[u].in = "rest" /\ user'[u].id = {}
    BY <1>1 DEF CrashAndNewCache
  <2>2. ASSUME NEW calls PROVE UsersIn(a, calls)' = {}
    BY <2>1 DEF UsersIn
  <2>3. /\ Writers(a)' = {} /\ Readers(a)' = {}
        /\ UsersIn(a, {"read"})' = {} /\ UsersIn(a, {"fill"})' = {}
    BY <2>2 DEF Writers, Readers
  <2>4. Cardinality(Readers(a)') = 0
    BY <2>3, FS_EmptySet
  <2>5. ArtifactOK(a)
    BY DEF CacheInv
  <2> QED
    BY <2>3, <2>4, <2>5 DEF ArtifactOK, CrashAndNewCache
<1> QED
  BY <1>2, <1>3 DEF CacheInv

\* Every step keeps the invariant.
LEMMA CacheStepInv ==
  ASSUME CacheInv, [CacheNext]_cacheVars
  PROVE  CacheInv'
<1>1. CASE CrashAndNewCache
  BY <1>1, CrashInv
<1>2. ASSUME NEW u \in CacheUsers, NEW a \in Artifacts, Create(u, a) \/ RemoveArtifact(u, a)
      PROVE  CacheInv'
  BY <1>2, WriteLockInv
<1>3. ASSUME NEW u \in CacheUsers, NEW a \in Artifacts,
             MakeTmpDir(u, a) \/ FillTmpDir(u, a) \/ RemoveFiles(u, a)
      PROVE  CacheInv'
  BY <1>3, WriterInv
<1>4. ASSUME NEW u \in CacheUsers, NEW a \in Artifacts,
             \/ MakeTmpDirFails(u, a) \/ Commit(u, a) \/ CommitOrAbortFails(u, a) \/ Abort(u, a)
             \/ FileCreatePanics(u, a) \/ CommitDespiteClose(u, a) \/ RemoveEnds(u, a)
      PROVE  CacheInv'
  BY <1>4, WriterEndInv
<1>5. ASSUME NEW u \in CacheUsers, NEW a \in Artifacts, Get(u, a) PROVE CacheInv'
  BY <1>5, GetInv
<1>6. ASSUME NEW u \in CacheUsers, NEW a \in Artifacts, Stat(u, a) \/ Unlock(u, a) PROVE CacheInv'
  <2>1. faults \in Nat /\ faults + 1 \in Nat
    BY DEF CacheInv, CacheTypes
  <2>2. CASE /\ user' = [user EXCEPT ![u].in = "read", ![u].on = cacheDir[a]]
             /\ UNCHANGED <<writeLocked, readLocked, faults>>
             /\ Stat(u, a)
    BY <2>2, StatFindsInv DEF Stat
  <2>3. CASE ReadUnlock(a) /\ EndCall(u)
    BY <1>6, <2>1, <2>3, ReaderEndInv DEF Stat, Unlock, DiskFault
  <2> QED
    BY <1>6, <2>2, <2>3 DEF Stat, Unlock
<1>7. CASE UNCHANGED cacheVars
  <2>1. CacheTypes'
    BY <1>7 DEF cacheVars, CacheInv, CacheTypes
  <2>2. ASSUME NEW a \in Artifacts PROVE ArtifactOK(a)'
    <3>1. ASSUME NEW calls PROVE UsersIn(a, calls)' = UsersIn(a, calls)
      BY <1>7 DEF cacheVars, UsersIn
    <3>2. /\ Writers(a)' = Writers(a) /\ Readers(a)' = Readers(a)
          /\ UsersIn(a, {"read"})' = UsersIn(a, {"read"}) /\ UsersIn(a, {"fill"})' = UsersIn(a, {"fill"})
      BY <3>1 DEF Writers, Readers
    <3> QED
      BY <1>7, <3>2 DEF cacheVars, CacheInv, ArtifactOK
  <2> QED
    BY <2>1, <2>2 DEF CacheInv
<1> QED
  BY <1>1, <1>2, <1>3, <1>4, <1>5, <1>6, <1>7 DEF CacheNext

---------------------------------------------------------------------------
(* artifact cache: the theorems.                                           *)

\* The invariant holds for any users and artifacts, whatever fails or crashes
\* (cache.go:39-225, filecache.go:31-115).
THEOREM CacheInvariant == CacheSpec => []CacheInv
<1>1. CacheInv /\ [CacheNext]_cacheVars => CacheInv'
  BY CacheStepInv
<1> QED
  BY CacheInitInv, <1>1, PTL DEF CacheSpec

\* The maps of the cache say who is in a call of each artifact, and what a
\* reader has got stays until it unlocks (cache.go:39-102).
THEOREM CacheLocksAreExact == CacheSpec => []LocksAreExact
<1>1. CacheInv => LocksAreExact
  <2> SUFFICES ASSUME CacheInv, NEW a \in Artifacts
               PROVE  /\ Writers(a) # {} => a \in writeLocked
                      /\ Cardinality(Writers(a)) <= 1
                      /\ readLocked[a] = Cardinality(Readers(a))
                      /\ a \in writeLocked => readLocked[a] = 0
                      /\ a \in writeLocked /\ a \notin damaged => Writers(a) # {}
                      /\ \A u \in UsersIn(a, {"read"}) : cacheDir[a] = user[u].on
    BY DEF LocksAreExact, Writers, Readers
  <2>1. ArtifactOK(a)
    BY DEF CacheInv
  <2>2. Cardinality(Writers(a)) <= 1
    <3>1. CASE Writers(a) = {}
      BY <3>1, FS_EmptySet
    <3>2. CASE Writers(a) # {}
      <4>1. PICK u \in Writers(a) : TRUE
        BY <3>2
      <4>2. Writers(a) = {u}
        BY <2>1, <4>1 DEF ArtifactOK
      <4>3. Cardinality(Writers(a)) = 1
        BY <4>2, FS_Singleton
      <4> QED
        BY <4>3
    <3> QED
      BY <3>1, <3>2
  <2>3. Readers(a) = {} => Cardinality(Readers(a)) = 0
    BY ReadersCounted
  <2> QED
    BY <2>1, <2>2, <2>3 DEF ArtifactOK
<1> QED
  BY CacheInvariant, <1>1, PTL

\* What the cache holds of an artifact that no failed call has damaged is
\* whole, and of one write (cache.go:104-225).
THEOREM CacheHoldsWholeArtifacts == CacheSpec => []ArtifactsAreWhole
<1>1. CacheInv => ArtifactsAreWhole
  <2> SUFFICES ASSUME CacheInv, NEW a \in Artifacts, a \notin damaged, cacheDir[a] # NoDir
               PROVE  cacheDir[a].whole /\ Cardinality(cacheDir[a].writes) = 1
    BY DEF ArtifactsAreWhole
  <2>1. cacheDir[a].whole /\ OneWrite(cacheDir[a])
    BY DEF CacheInv, ArtifactOK
  <2>2. PICK n \in 1..MaxWrites : cacheDir[a].writes = {n}
    BY <2>1 DEF OneWrite
  <2> QED
    BY <2>1, <2>2, FS_Singleton
<1> QED
  BY CacheInvariant, <1>1, PTL

---------------------------------------------------------------------------
(* gossip: the inductive invariant.                                        *)

\* What a goroutine of a peer carries: it is about another address, unless it
\* forwards news of its own; only who has answered is inserted; and metadata of
\* a peer is not ahead of the peer, however old it is.
JobOK(j) ==
  /\ j.of \in alive /\ j.with \in Addresses /\ j.about \in Addresses /\ j.meta \in 0..MaxMeta
  /\ j.does \in {"seed", "ping", "update", "tell", "join", "admit", "insert", "forward", "connect",
                 "close", "forget"}
  /\ j.does # "forward" => j.with # j.of
  /\ j.does \notin {"update", "tell"} => j.about = j.with
  /\ j.does \in {"admit", "insert"} => j.with \in Peers
  /\ j.about \in Peers => j.meta <= Snapshot[j.about][j.about]

GossipTypes ==
  /\ Snapshot \in [Peers -> [Addresses -> {Unknown} \cup 0..MaxMeta]]
  /\ conns \in [Peers -> SUBSET Addresses]
  /\ alive \subseteq Peers

GossipInv == /\ GossipTypes /\ MembersAreReal
             /\ \A p \in Peers : p \notin conns[p]
             /\ \A j \in jobs : JobOK(j)

\* No peer forgets what it says of itself.
Grows == \A q \in Peers : Snapshot[q][q] <= Snapshot'[q][q]

\* A change of what p knows of q, when q has had this metadata.
LEMMA MemberSet ==
  ASSUME GossipInv, NEW p \in Peers, NEW q \in Addresses, NEW meta \in {Unknown} \cup 0..MaxMeta,
         SetMember(p, q, meta),
         q = p => Snapshot[p][p] <= meta,
         q \in Ghosts => meta = Unknown,
         q \in Peers /\ q # p => meta <= Snapshot[q][q]
  PROVE  Snapshot' \in [Peers -> [Addresses -> {Unknown} \cup 0..MaxMeta]] /\ MembersAreReal' /\ Grows
<1> USE GossipAssumption
<1>1. Snapshot \in [Peers -> [Addresses -> {Unknown} \cup 0..MaxMeta]] /\ MembersAreReal
  BY DEF GossipInv, GossipTypes
<1> DEFINE row == [Snapshot[p] EXCEPT ![q] = meta]
<1>2. row \in [Addresses -> {Unknown} \cup 0..MaxMeta] /\ row[q] = meta
      /\ \A r \in Addresses \ {q} : row[r] = Snapshot[p][r]
  BY <1>1
<1>3. Snapshot' = [Snapshot EXCEPT ![p] = row]
  BY <1>1 DEF SetMember
<1> HIDE DEF row
<1>4. Snapshot' \in [Peers -> [Addresses -> {Unknown} \cup 0..MaxMeta]]
  BY <1>1, <1>2, <1>3
<1>5. Snapshot'[p] = row /\ \A r \in Peers \ {p} : Snapshot'[r] = Snapshot[r]
  BY <1>1, <1>3
<1>6. \A r \in Peers, s \in Addresses : /\ Snapshot[r][s] \in Int
                                      /\ Snapshot'[r][s] = IF r = p /\ s = q THEN meta ELSE Snapshot[r][s]
  BY <1>1, <1>2, <1>5 DEF Unknown
<1>7. meta \in Int /\ Unknown = -1 /\ (meta = Unknown \/ meta >= 0)
  BY DEF Unknown
<1>8. \A r \in Peers : Snapshot[r][r] # Unknown /\ Snapshot[r][r] >= 0 /\ r \in Addresses /\ r \notin Ghosts
  BY <1>1 DEF MembersAreReal, Addresses, Unknown
<1>9. Grows
  BY <1>6, <1>7, <1>8 DEF Grows
<1>10. ASSUME NEW r \in Peers
       PROVE  /\ Snapshot'[r][r] # Unknown
              /\ \A g \in Ghosts : Snapshot'[r][g] = Unknown
              /\ \A s \in Peers : Snapshot'[r][s] <= Snapshot'[s][s]
  <2>1. Snapshot'[r][r] # Unknown
    BY <1>6, <1>7, <1>8
  <2>2. ASSUME NEW g \in Ghosts PROVE Snapshot'[r][g] = Unknown
    BY <1>1, <1>6 DEF MembersAreReal, Addresses
  <2>3. ASSUME NEW s \in Peers PROVE Snapshot'[r][s] <= Snapshot'[s][s]
    <3>1. Snapshot[r][s] <= Snapshot[s][s] /\ Snapshot[s][s] <= Snapshot'[s][s]
      BY <1>1, <1>9 DEF MembersAreReal, Grows
    <3>2. s \in Addresses
      BY <1>8
    <3> QED
      BY <1>6, <1>7, <3>1, <3>2
  <2> QED
    BY <2>1, <2>2, <2>3
<1>11. MembersAreReal'
  BY <1>10 DEF MembersAreReal
<1> QED
  BY <1>4, <1>9, <1>11

\* Jobs stay right while the metadata of the peers grow.
LEMMA JobKept ==
  ASSUME GossipInv, Grows, alive' = alive, Snapshot' \in [Peers -> [Addresses -> {Unknown} \cup 0..MaxMeta]],
         NEW j, JobOK(j)
  PROVE  JobOK(j)'
<1>1. ASSUME j.about \in Peers PROVE j.meta <= Snapshot'[j.about][j.about]
  <2>1. /\ j.meta \in Int /\ j.meta <= Snapshot[j.about][j.about] /\ j.about \in Addresses
        /\ Snapshot[j.about][j.about] <= Snapshot'[j.about][j.about]
    BY <1>1 DEF JobOK, Grows
  <2>2. Snapshot[j.about][j.about] \in Int /\ Snapshot'[j.about][j.about] \in Int
    BY <1>1, <2>1, GossipAssumption DEF GossipInv, GossipTypes, Unknown
  <2> QED
    BY <2>1, <2>2
<1> QED
  BY <1>1 DEF JobOK

\* The invariant is kept when the change of a member, if any, is one that
\* MemberSet allows, and the new jobs are right.
LEMMA SpawnKeeps ==
  ASSUME GossipInv, NEW old, NEW new, Spawn(old, new), alive' = alive,
         \/ UNCHANGED Snapshot
         \/ \E p \in Peers, q \in Addresses, meta \in {Unknown} \cup 0..MaxMeta :
              /\ SetMember(p, q, meta)
              /\ q = p => Snapshot[p][p] <= meta
              /\ q \in Ghosts => meta = Unknown
              /\ q \in Peers /\ q # p => meta <= Snapshot[q][q],
         conns' \in [Peers -> SUBSET Addresses], \A p \in Peers : p \notin conns'[p],
         Grows /\ Snapshot' \in [Peers -> [Addresses -> {Unknown} \cup 0..MaxMeta]] => \A j \in new : JobOK(j)'
  PROVE  GossipInv'
<1>1. Snapshot' \in [Peers -> [Addresses -> {Unknown} \cup 0..MaxMeta]] /\ MembersAreReal' /\ Grows
  <2>1. CASE UNCHANGED Snapshot
    <3>1. \A q \in Peers : Snapshot[q][q] \in Int
      BY GossipAssumption DEF GossipInv, GossipTypes, Addresses, Unknown
    <3> QED
      BY <2>1, <3>1 DEF GossipInv, GossipTypes, MembersAreReal, Grows
  <2>2. CASE \E p \in Peers, q \in Addresses, meta \in {Unknown} \cup 0..MaxMeta :
              /\ SetMember(p, q, meta)
              /\ q = p => Snapshot[p][p] <= meta
              /\ q \in Ghosts => meta = Unknown
              /\ q \in Peers /\ q # p => meta <= Snapshot[q][q]
    BY <2>2, MemberSet
  <2> QED
    BY <2>1, <2>2
<1>2. \A j \in jobs' : JobOK(j)'
  <2>1. \A j \in jobs : JobOK(j)'
    BY <1>1, JobKept DEF GossipInv
  <2> QED
    BY <1>1, <2>1 DEF Spawn
<1> QED
  BY <1>1, <1>2 DEF GossipInv, GossipTypes

\* A job that a step adds.
LEMMA NewJob ==
  ASSUME GossipInv, Grows, alive' = alive, Snapshot' \in [Peers -> [Addresses -> {Unknown} \cup 0..MaxMeta]],
         NEW p \in alive, NEW q \in Addresses, NEW about \in Addresses, NEW meta \in 0..MaxMeta,
         NEW does \in {"seed", "ping", "update", "tell", "join", "admit", "insert", "forward", "connect",
                      "close", "forget"},
         does # "forward" => q # p,
         does \notin {"update", "tell"} => about = q,
         does \in {"admit", "insert"} => q \in Peers,
         about \in Peers => meta = 0 \/ meta <= Snapshot[about][about] \/ meta <= Snapshot'[about][about]
  PROVE  JobOK(Job(p, does, q, about, meta))'
<1> DEFINE j == Job(p, does, q, about, meta)
<1>1. j.of = p /\ j.does = does /\ j.with = q /\ j.about = about /\ j.meta = meta
  BY DEF Job
<1>2. ASSUME about \in Peers PROVE meta <= Snapshot'[about][about]
  <2>1. /\ Snapshot[about][about] \in 0..MaxMeta /\ Snapshot'[about][about] \in {Unknown} \cup 0..MaxMeta
        /\ Snapshot[about][about] <= Snapshot'[about][about]
    BY <1>2 DEF GossipInv, GossipTypes, MembersAreReal, Grows
  <2> QED
    BY <1>2, <2>1, GossipAssumption DEF Unknown
<1>3. JobOK(j)'
  <2> HIDE DEF j
  <2> QED
    BY <1>1, <1>2 DEF JobOK
<1> QED
  BY <1>3

---------------------------------------------------------------------------
(* gossip: the steps.                                                      *)

\* At first a peer knows itself, and nothing runs.
LEMMA GossipInitInv == GossipInit => GossipInv
BY GossipAssumption DEF GossipInit, GossipInv, GossipTypes, MembersAreReal, Addresses, Unknown

\* What users and the ticker start.
LEMMA UserInv ==
  ASSUME GossipInv, NEW p \in alive,
         UpdateMeta(p) \/ PingAll(p) \/ \E seed \in Addresses : AddSeed(p, seed)
  PROVE  GossipInv'
<1> USE GossipAssumption
<1>1. GossipTypes /\ p \in Peers /\ p \in Addresses /\ 0 \in 0..MaxMeta
  <2>1. 0 \in 0..MaxMeta
    OBVIOUS
  <2> QED
    BY <2>1 DEF GossipInv, GossipTypes, Addresses
<1>2. CASE UpdateMeta(p)
  <2>1. PICK meta \in 0..MaxMeta :
        /\ meta = Snapshot[p][p] + 1 /\ Snapshot[p][p] <= meta
        /\ SetMember(p, p, meta) /\ Spawn({}, {Job(p, "forward", p, p, meta)})
        /\ conns' = conns /\ alive' = alive /\ p \notin Ghosts
    <3>1. Snapshot[p][p] \in 0..MaxMeta /\ Snapshot[p][p] < MaxMeta
      BY <1>1, <1>2 DEF UpdateMeta, GossipInv, GossipTypes, MembersAreReal
    <3>2. Snapshot[p][p] + 1 \in 0..MaxMeta /\ Snapshot[p][p] <= Snapshot[p][p] + 1
      BY <3>1
    <3> QED
      BY <1>1, <1>2, <3>2 DEF UpdateMeta
  <2>2. Snapshot'[p][p] = meta
    BY <1>1, <2>1 DEF SetMember, GossipTypes
  <2>3. ASSUME Grows /\ Snapshot' \in [Peers -> [Addresses -> {Unknown} \cup 0..MaxMeta]]
        PROVE  JobOK(Job(p, "forward", p, p, meta))'
    <3>1. meta <= Snapshot'[p][p]
      BY <2>1, <2>2
    <3>2. meta \in 0..MaxMeta /\ alive' = alive
      BY <2>1
    <3> QED
      BY <1>1, <2>3, <3>1, <3>2, NewJob
  <2>4. /\ conns' \in [Peers -> SUBSET Addresses] /\ \A q \in Peers : q \notin conns'[q]
    BY <1>1, <2>1 DEF GossipInv, GossipTypes
  <2>5. \E q \in Peers, r \in Addresses, m \in {Unknown} \cup 0..MaxMeta :
             /\ SetMember(q, r, m)
             /\ r = q => Snapshot[q][q] <= m
             /\ r \in Ghosts => m = Unknown
             /\ r \in Peers /\ r # q => m <= Snapshot[r][r]
    BY <1>1, <2>1
  <2>6. Spawn({}, {Job(p, "forward", p, p, meta)}) /\ alive' = alive
    BY <2>1
  <2> QED
    BY <2>3, <2>4, <2>5, <2>6, SpawnKeeps
<1>3. CASE PingAll(p)
  <2>1. ASSUME Grows /\ Snapshot' \in [Peers -> [Addresses -> {Unknown} \cup 0..MaxMeta]],
               NEW q \in conns[p]
        PROVE  JobOK(Job(p, "ping", q, q, 0))'
    <3>1. q \in Addresses /\ q # p /\ alive' = alive
      BY <1>1, <1>3 DEF GossipInv, GossipTypes, PingAll
    <3> QED
      BY <1>1, <2>1, <3>1, NewJob
  <2>2. UNCHANGED <<Snapshot, conns, alive>> /\ Spawn({}, {Job(p, "ping", q, q, 0) : q \in conns[p]})
    BY <1>3 DEF PingAll
  <2> QED
    BY <1>1, <2>1, <2>2, SpawnKeeps DEF GossipInv, GossipTypes
<1>4. ASSUME NEW seed \in Addresses, AddSeed(p, seed) PROVE GossipInv'
  <2>1. /\ seed # p /\ conns' = [conns EXCEPT ![p] = @ \cup {seed}]
        /\ UNCHANGED <<Snapshot, alive>> /\ Spawn({}, {Job(p, "seed", seed, seed, 0)})
    BY <1>4 DEF AddSeed
  <2>2. ASSUME Grows /\ Snapshot' \in [Peers -> [Addresses -> {Unknown} \cup 0..MaxMeta]]
        PROVE  JobOK(Job(p, "seed", seed, seed, 0))'
    BY <1>1, <2>1, <2>2, NewJob
  <2>3. /\ conns' \in [Peers -> SUBSET Addresses] /\ \A q \in Peers : q \notin conns'[q]
    BY <1>1, <2>1 DEF GossipInv, GossipTypes
  <2> QED
    BY <2>1, <2>2, <2>3, SpawnKeeps
<1> QED
  BY <1>2, <1>3, <1>4

\* A peer stops: its goroutines end.
LEMMA StopInv ==
  ASSUME GossipInv, NEW p \in alive, Stop(p)
  PROVE  GossipInv'
<1>1. \A j \in jobs' : j \in jobs /\ j.of # p /\ JobOK(j)
  BY DEF Stop, GossipInv
<1>2. \A j \in jobs' : JobOK(j)'
  BY <1>1 DEF Stop, JobOK
<1> QED
  BY <1>2 DEF Stop, GossipInv, GossipTypes, MembersAreReal

\* Calls that fail, and what follows.
LEMMA FailureInv ==
  ASSUME GossipInv, NEW j \in jobs, CallFails(j) \/ CloseConn(j) \/ Forget(j)
  PROVE  GossipInv'
<1> USE GossipAssumption
<1>1. /\ GossipTypes /\ JobOK(j) /\ j.of \in alive /\ j.of \in Peers /\ 0 \in 0..MaxMeta
      /\ j.with \in Addresses /\ \A p \in Peers : p \notin conns[p]
  BY DEF GossipInv, GossipTypes, JobOK
<1>2. CASE CallFails(j)
  <2>1. /\ j.with # j.of /\ UNCHANGED <<Snapshot, conns, alive>>
        /\ \/ Spawn({j}, {})
           \/ Spawn({j}, {Job(j.of, "close", j.with, j.with, 0)})
    BY <1>1, <1>2 DEF CallFails, JobOK
  <2>2. ASSUME Grows /\ Snapshot' \in [Peers -> [Addresses -> {Unknown} \cup 0..MaxMeta]]
        PROVE  JobOK(Job(j.of, "close", j.with, j.with, 0))'
    BY <1>1, <2>1, <2>2, NewJob
  <2> QED
    BY <1>1, <2>1, <2>2, SpawnKeeps DEF GossipTypes
<1>3. CASE CloseConn(j)
  <2>1. /\ j.with # j.of /\ UNCHANGED <<Snapshot, alive>>
        /\ Spawn({j}, {Job(j.of, "forget", j.with, j.with, 0)})
        /\ conns' = [conns EXCEPT ![j.of] = @ \ {j.with}]
    BY <1>1, <1>3 DEF CloseConn, JobOK
  <2>2. ASSUME Grows /\ Snapshot' \in [Peers -> [Addresses -> {Unknown} \cup 0..MaxMeta]]
        PROVE  JobOK(Job(j.of, "forget", j.with, j.with, 0))'
    BY <1>1, <2>1, <2>2, NewJob
  <2>3. /\ conns' \in [Peers -> SUBSET Addresses] /\ \A q \in Peers : q \notin conns'[q]
    BY <1>1, <2>1 DEF GossipTypes
  <2> QED
    BY <2>1, <2>2, <2>3, SpawnKeeps
<1>4. CASE Forget(j)
  <2>1. /\ j.with # j.of /\ SetMember(j.of, j.with, Unknown) /\ UNCHANGED <<conns, alive>>
        /\ Spawn({j}, {})
    BY <1>1, <1>4 DEF Forget, JobOK
  <2>2. \A q \in Peers : Unknown <= Snapshot[q][q]
    BY DEF GossipInv, GossipTypes, Addresses, Unknown
  <2>3. \E q \in Peers, r \in Addresses, m \in {Unknown} \cup 0..MaxMeta :
             /\ SetMember(q, r, m)
             /\ r = q => Snapshot[q][q] <= m
             /\ r \in Ghosts => m = Unknown
             /\ r \in Peers /\ r # q => m <= Snapshot[r][r]
    BY <1>1, <2>1, <2>2
  <2> QED
    BY <1>1, <2>1, <2>3, SpawnKeeps DEF GossipTypes
<1> QED
  BY <1>2, <1>3, <1>4

\* Answers of Ping, and what is sent on.
LEMMA AnswerInv ==
  ASSUME GossipInv, NEW j \in jobs, PingAnswered(j) \/ Forward(j) \/ GetOrCreateConn(j)
  PROVE  GossipInv'
<1> USE GossipAssumption
<1>1. /\ GossipTypes /\ JobOK(j) /\ j.of \in alive /\ j.of \in Peers
      /\ j.with \in Addresses /\ j.about \in Addresses /\ j.meta \in 0..MaxMeta
      /\ \A p \in Peers : p \notin conns[p]
  BY DEF GossipInv, GossipTypes, JobOK
<1>2. j.about \in Peers => j.meta <= Snapshot[j.about][j.about]
  BY <1>1 DEF JobOK
<1>3. CASE PingAnswered(j)
  <2>1. /\ UNCHANGED <<Snapshot, conns, alive>> /\ j.with # j.of /\ j.with \in Peers /\ j.about = j.with
    BY <1>1, <1>3 DEF PingAnswered, JobOK, GossipTypes
  <2>2. CASE Spawn({j}, {Job(j.of, "tell", j.with, q, Snapshot[j.of][q])
                           : q \in {q \in Addresses : Snapshot[j.of][q] # Unknown}})
    <3>1. ASSUME Grows /\ Snapshot' \in [Peers -> [Addresses -> {Unknown} \cup 0..MaxMeta]],
                 NEW q \in Addresses, NEW meta, meta = Snapshot[j.of][q], meta # Unknown
          PROVE  JobOK(Job(j.of, "tell", j.with, q, meta))'
      <4>1. meta \in 0..MaxMeta
        BY <1>1, <3>1 DEF GossipTypes
      <4>2. q \in Peers => meta <= Snapshot[q][q]
        BY <1>1, <3>1 DEF GossipInv, MembersAreReal
      <4> QED
        BY <1>1, <2>1, <3>1, <4>1, <4>2, NewJob
    <3> DEFINE told == {Job(j.of, "tell", j.with, q, Snapshot[j.of][q])
                          : q \in {q \in Addresses : Snapshot[j.of][q] # Unknown}}
    <3>2. PICK new : new = told
      OBVIOUS
    <3>3. ASSUME Grows /\ Snapshot' \in [Peers -> [Addresses -> {Unknown} \cup 0..MaxMeta]], NEW k \in new
          PROVE  JobOK(k)'
      <4>1. PICK q \in Addresses : Snapshot[j.of][q] # Unknown /\ k = Job(j.of, "tell", j.with, q, Snapshot[j.of][q])
        BY <3>2, <3>3
      <4>2. PICK meta : meta = Snapshot[j.of][q]
        OBVIOUS
      <4>3. k = Job(j.of, "tell", j.with, q, meta)
        BY <4>1, <4>2
      <4>4. JobOK(Job(j.of, "tell", j.with, q, meta))'
        BY <3>1, <3>3, <4>1, <4>2
      <4> QED
        BY <4>3, <4>4
    <3> HIDE DEF told
    <3>4. Spawn({j}, new)
      BY <2>2, <3>2 DEF told
    <3> QED
      BY <1>1, <2>1, <3>3, <3>4, SpawnKeeps DEF GossipTypes
  <2>3. ASSUME NEW does \in {"admit", "insert"}, Spawn({j}, {Job(j.of, does, j.with, j.with, j.meta)})
        PROVE  GossipInv'
    <3>1. ASSUME Grows /\ Snapshot' \in [Peers -> [Addresses -> {Unknown} \cup 0..MaxMeta]]
          PROVE  JobOK(Job(j.of, does, j.with, j.with, j.meta))'
      BY <1>1, <1>2, <2>1, <3>1, NewJob
    <3> QED
      BY <1>1, <2>1, <2>3, <3>1, SpawnKeeps DEF GossipTypes
  <2> QED
    BY <1>3, <2>2, <2>3 DEF PingAnswered
<1>4. CASE Forward(j)
  <2>1. /\ UNCHANGED <<Snapshot, conns, alive>>
        /\ Spawn({j}, {Job(j.of, "update", q, j.about, j.meta) : q \in conns[j.of] \ {j.about}})
    BY <1>4 DEF Forward
  <2>2. ASSUME Grows /\ Snapshot' \in [Peers -> [Addresses -> {Unknown} \cup 0..MaxMeta]],
               NEW q \in conns[j.of] \ {j.about}
        PROVE  JobOK(Job(j.of, "update", q, j.about, j.meta))'
    <3>1. q \in Addresses /\ q # j.of
      BY <1>1 DEF GossipTypes
    <3> QED
      BY <1>1, <1>2, <2>1, <2>2, <3>1, NewJob
  <2> QED
    BY <1>1, <2>1, <2>2, SpawnKeeps DEF GossipTypes
<1>5. CASE GetOrCreateConn(j)
  <2>1. /\ UNCHANGED <<Snapshot, alive>> /\ j.with # j.of /\ j.about = j.with
        /\ Spawn({j}, {Job(j.of, "join", j.with, j.about, j.meta)})
        /\ conns' = [conns EXCEPT ![j.of] = @ \cup {j.with}]
    BY <1>1, <1>5 DEF GetOrCreateConn, JobOK
  <2>2. ASSUME Grows /\ Snapshot' \in [Peers -> [Addresses -> {Unknown} \cup 0..MaxMeta]]
        PROVE  JobOK(Job(j.of, "join", j.with, j.about, j.meta))'
    BY <1>1, <1>2, <2>1, <2>2, NewJob
  <2>3. /\ conns' \in [Peers -> SUBSET Addresses] /\ \A q \in Peers : q \notin conns'[q]
    BY <1>1, <2>1 DEF GossipTypes
  <2> QED
    BY <2>1, <2>2, <2>3, SpawnKeeps
<1> QED
  BY <1>3, <1>4, <1>5

\* Members that are inserted have answered; nobody hears news of itself.
LEMMA MembershipInv ==
  ASSUME GossipInv, NEW j \in jobs, Insert(j) \/ UpdateKnown(j) \/ UpdateUnknown(j)
  PROVE  GossipInv'
<1> USE GossipAssumption
<1>1. /\ GossipTypes /\ MembersAreReal /\ JobOK(j) /\ j.of \in alive /\ j.of \in Peers
      /\ j.with \in Addresses /\ j.about \in Addresses /\ j.meta \in 0..MaxMeta
      /\ \A p \in Peers : p \notin conns[p]
  BY DEF GossipInv, GossipTypes, JobOK
<1>2. j.about \in Peers => j.meta <= Snapshot[j.about][j.about]
  BY <1>1 DEF JobOK
<1>3. conns' \in [Peers -> SUBSET Addresses] /\ (\A p \in Peers : p \notin conns'[p]) /\ alive' = alive
  BY <1>1 DEF Insert, UpdateKnown, UpdateUnknown, GossipTypes
<1>4. CASE Insert(j)
  <2>1. j.with = j.about /\ j.with \in Peers /\ j.with # j.of
    BY <1>1, <1>4 DEF Insert, JobOK
  <2>2. ASSUME Grows /\ Snapshot' \in [Peers -> [Addresses -> {Unknown} \cup 0..MaxMeta]]
        PROVE  JobOK(Job(j.of, "forward", j.with, j.with, j.meta))'
    BY <1>1, <1>2, <1>3, <2>1, <2>2, NewJob
  <2>3. \/ UNCHANGED Snapshot
        \/ \E p \in Peers, q \in Addresses, meta \in {Unknown} \cup 0..MaxMeta :
             /\ SetMember(p, q, meta)
             /\ q = p => Snapshot[p][p] <= meta
             /\ q \in Ghosts => meta = Unknown
             /\ q \in Peers /\ q # p => meta <= Snapshot[q][q]
    BY <1>1, <1>2, <1>4, <2>1 DEF Insert
  <2>4. CASE Spawn({j}, {Job(j.of, "forward", j.with, j.with, j.meta)})
    BY <1>3, <2>2, <2>3, <2>4, SpawnKeeps
  <2>5. CASE Spawn({j}, {})
    BY <1>3, <2>3, <2>5, SpawnKeeps
  <2> QED
    BY <1>4, <2>4, <2>5 DEF Insert
<1>5. CASE UpdateKnown(j) \/ UpdateUnknown(j)
  <2>1. j.with # j.of /\ j.with \in Peers /\ j.with \in alive
    BY <1>1, <1>5 DEF UpdateKnown, UpdateUnknown, JobOK, GossipTypes
  <2>2. PICK handler : CallAnswer(j, handler) /\ \/ handler = {}
                                                 \/ handler = {Job(j.with, "forward", j.about, j.about, j.meta)}
                                                 \/ /\ handler = {Job(j.with, "connect", j.about, j.about, j.meta)}
                                                    /\ j.about # j.with
    BY <1>1, <1>5, <2>1 DEF UpdateKnown, UpdateUnknown, MembersAreReal
  <2>3. ASSUME Grows /\ Snapshot' \in [Peers -> [Addresses -> {Unknown} \cup 0..MaxMeta]], NEW k \in handler
        PROVE  JobOK(k)'
    <3>1. JobOK(Job(j.with, "forward", j.about, j.about, j.meta))'
      BY <1>1, <1>2, <1>3, <2>1, <2>3, NewJob
    <3>2. ASSUME j.about # j.with PROVE JobOK(Job(j.with, "connect", j.about, j.about, j.meta))'
      BY <1>1, <1>2, <1>3, <2>1, <2>3, <3>2, NewJob
    <3> QED
      BY <2>2, <2>3, <3>1, <3>2
  <2>4. ASSUME Grows /\ Snapshot' \in [Peers -> [Addresses -> {Unknown} \cup 0..MaxMeta]]
        PROVE  JobOK(Job(j.of, "close", j.with, j.with, 0))'
    <3>1. 0 \in 0..MaxMeta
      OBVIOUS
    <3> QED
      BY <1>1, <1>3, <2>1, <2>4, <3>1, NewJob
  <2>5. \/ UNCHANGED Snapshot
        \/ \E p \in Peers, q \in Addresses, meta \in {Unknown} \cup 0..MaxMeta :
             /\ SetMember(p, q, meta)
             /\ q = p => Snapshot[p][p] <= meta
             /\ q \in Ghosts => meta = Unknown
             /\ q \in Peers /\ q # p => meta <= Snapshot[q][q]
    <3>1. CASE UNCHANGED Snapshot
      BY <3>1
    <3>2. CASE SetMember(j.with, j.about, j.meta) /\ j.about # j.with /\ Snapshot[j.with][j.about] # Unknown
      <4>1. j.about \notin Ghosts
        BY <1>1, <2>1, <3>2 DEF MembersAreReal
      <4> QED
        BY <1>1, <1>2, <2>1, <3>2, <4>1
    <3> QED
      BY <1>5, <3>1, <3>2 DEF UpdateKnown, UpdateUnknown
  <2>6. CASE Spawn({j}, handler)
    BY <1>3, <2>3, <2>5, <2>6, SpawnKeeps
  <2>7. CASE Spawn({j}, handler \cup {Job(j.of, "close", j.with, j.with, 0)})
    <3>1. PICK new : new = handler \cup {Job(j.of, "close", j.with, j.with, 0)}
      OBVIOUS
    <3>2. Spawn({j}, new)
      BY <2>7, <3>1
    <3>3. ASSUME Grows /\ Snapshot' \in [Peers -> [Addresses -> {Unknown} \cup 0..MaxMeta]], NEW k \in new
          PROVE  JobOK(k)'
      BY <2>3, <2>4, <3>1, <3>3
    <3> QED
      BY <1>3, <2>5, <3>2, <3>3, SpawnKeeps
  <2> QED
    BY <2>2, <2>6, <2>7 DEF CallAnswer
<1> QED
  BY <1>4, <1>5

\* Every step keeps the invariant.
LEMMA GossipStepInv ==
  ASSUME GossipInv, [GossipNext]_gossipVars
  PROVE  GossipInv'
<1>1. ASSUME NEW p \in alive, UpdateMeta(p) \/ PingAll(p) \/ \E seed \in Addresses : AddSeed(p, seed)
      PROVE  GossipInv'
  BY <1>1, UserInv
<1>2. ASSUME NEW p \in alive, Stop(p) PROVE GossipInv'
  BY <1>2, StopInv
<1>3. ASSUME NEW j \in jobs, CallFails(j) \/ CloseConn(j) \/ Forget(j) PROVE GossipInv'
  BY <1>3, FailureInv
<1>4. ASSUME NEW j \in jobs, PingAnswered(j) \/ Forward(j) \/ GetOrCreateConn(j) PROVE GossipInv'
  BY <1>4, AnswerInv
<1>5. ASSUME NEW j \in jobs, Insert(j) \/ UpdateKnown(j) \/ UpdateUnknown(j) PROVE GossipInv'
  BY <1>5, MembershipInv
<1>6. CASE UNCHANGED gossipVars
  BY <1>6 DEF gossipVars, GossipInv, GossipTypes, MembersAreReal, JobOK
<1> QED
  BY <1>1, <1>2, <1>3, <1>4, <1>5, <1>6 DEF GossipNext

---------------------------------------------------------------------------
(* gossip: the theorems.                                                   *)

\* The invariant holds for any peers and dead addresses, whatever is lost,
\* late or overtaken (gossip.go:33-268).
THEOREM GossipInvariant == GossipSpec => []GossipInv
<1>1. GossipInv /\ [GossipNext]_gossipVars => GossipInv'
  BY GossipStepInv
<1> QED
  BY GossipInitInv, <1>1, PTL DEF GossipSpec

\* The members that a peer knows have answered it, with metadata they have
\* had; an address that never answers is nobody's member, and what others say
\* of a peer never reaches what it says of itself (gossip.go:93-102, 213-268).
THEOREM GossipMembersAreReal == GossipSpec => [](GossipTypeOK /\ MembersAreReal)
<1>1. GossipInv => GossipTypeOK /\ MembersAreReal
  BY DEF GossipInv, GossipTypes, GossipTypeOK, JobOK
<1> QED
  BY GossipInvariant, <1>1, PTL

---------------------------------------------------------------------------
(* grade: the inductive invariant.                                         *)

Testing == {"build", "compile", "run", "compare", "lint"}
Preparing == {"student", "tests", "protected", "testdata", "go.mod"}
Verdicts == {"none", "passed", "failed", "testFailed"}

\* The private version of f, if there is one, is what the temporary directory has.
Laid(f) == f \in repos.private => tmpRepo[f] = "private"

\* Layer by layer.
LayersOK ==
  /\ repos.private \subseteq {"test", "protected", "testdata", "go.mod"}
  /\ grading \in Testing \cup {"protected", "testdata", "go.mod"} => Laid("test")
  /\ grading \in Testing \cup {"testdata", "go.mod"} => Laid("protected")
  /\ grading \in Testing \cup {"go.mod"} => Laid("testdata")
  /\ grading \in Testing => Laid("go.mod")

\* Every task is graded once, and a report is of a verdict that will not change.
TasksOK ==
  /\ tasks \in Seq(TaskNames)
  /\ \A i, j \in 1..Len(tasks) : tasks[i] = tasks[j] => i = j
  /\ grading \in Testing \cup Preparing \cup {"report"} => tasks # <<>>
  /\ \A i \in 1..Len(tasks) :
       /\ grading \in Testing \cup Preparing \cup {"next"} => verdict[tasks[i]] = "none"
       /\ grading = "report" => verdict[tasks[i]] \in IF i = 1 THEN {"passed", "testFailed"} ELSE {"none"}

ReportsOK ==
  /\ server \subseteq [task : TaskNames, failed : BOOLEAN]
  /\ \A r \in server : verdict[r.task] = IF r.failed THEN "testFailed" ELSE "passed"
  /\ \A t \in TaskNames : verdict[t] = "passed" => \/ [task |-> t, failed |-> FALSE] \in server
                                                  \/ grading = "exit 1"
                                                  \/ (grading = "report" /\ t = tasks[1])
  /\ grading = "exit 0" => \A t \in TaskNames : verdict[t] \notin {"failed", "testFailed"}

GraderInv ==
  /\ grading \in Testing \cup Preparing \cup {"next", "report", "exit 0", "exit 1"}
  /\ verdict \in [TaskNames -> Verdicts]
  /\ LayersOK /\ TasksOK /\ ReportsOK
  /\ "tmpRepo" \in leftDirs => grading \notin {"next", "report", "exit 0"}

---------------------------------------------------------------------------
(* grade: the steps.                                                       *)

\* At first nothing is graded, and the tasks are in order.
LEMMA GraderInitInv == GraderInit => GraderInv
<1> SUFFICES ASSUME GraderInit PROVE GraderInv
  OBVIOUS
<1>1. PICK dirs \in SUBSET (TaskNames \cup UNION {Watched[t] : t \in TaskNames}) :
        tasks \in {s \in [1..Cardinality(ChangedTasks(dirs)) -> ChangedTasks(dirs)] :
                     \A i, j \in DOMAIN s : i < j => s[i] < s[j]}
  BY DEF GraderInit
<1>2. ChangedTasks(dirs) \subseteq TaskNames
  BY DEF ChangedTasks
<1>3. Cardinality(ChangedTasks(dirs)) \in Nat
  BY <1>2, GraderAssumption, FS_Subset, FS_CardinalityType
<1>4. tasks \in Seq(TaskNames)
  BY <1>1, <1>2, <1>3
<1>5. /\ Len(tasks) = Cardinality(ChangedTasks(dirs))
      /\ \A i, j \in 1..Len(tasks) : i < j => tasks[i] < tasks[j]
  BY <1>1, <1>3
<1>6. \A i \in 1..Len(tasks) : tasks[i] \in TaskNames
  BY <1>4
<1>7. ASSUME NEW i \in 1..Len(tasks), NEW j \in 1..Len(tasks), tasks[i] = tasks[j] PROVE i = j
  <2>1. tasks[i] \in TaskNames
    BY <1>6
  <2>2. tasks[i] \in Nat
    BY <2>1, GraderAssumption
  <2>3. Len(tasks) \in Nat
    BY <1>3, <1>5
  <2> QED
    BY <1>5, <1>7, <2>2, <2>3
<1>8. TasksOK
  BY <1>4, <1>6, <1>7 DEF GraderInit, TasksOK, Testing, Preparing
<1> QED
  BY <1>8 DEF GraderInit, GraderInv, LayersOK, ReportsOK, Verdicts, Testing, Preparing

\* A task begins, and the files are laid over each other.
LEMMA StartTaskInv ==
  ASSUME GraderInv, StartTask
  PROVE  GraderInv'
<1>1. grading = "next" /\ grading' = "student" /\ tasks # <<>> /\ UNCHANGED <<tasks, verdict, server>>
  BY DEF StartTask, Grade
<1>2. repos'.private \subseteq {"test", "protected", "testdata", "go.mod"}
  BY DEF StartTask
<1> QED
  BY <1>1, <1>2 DEF GraderInv, LayersOK, TasksOK, ReportsOK, Testing, Preparing

\* A layer of files is copied over those before it.
LEMMA CopyLayerInv ==
  ASSUME GraderInv, CopyLayer
  PROVE  GraderInv'
<1> DEFINE private == {"test", "protected", "testdata", "go.mod"}
<1>0. /\ DOMAIN Layers = 1..5 /\ Len(Layers) = 5
      /\ Layers[1] = [at |-> "student", files |-> Files, of |-> "student"]
      /\ Layers[2] = [at |-> "tests", files |-> Tests, of |-> "private"]
      /\ Layers[3] = [at |-> "protected", files |-> {"protected"}, of |-> "private"]
      /\ Layers[4] = [at |-> "testdata", files |-> {"testdata"}, of |-> "private"]
      /\ Layers[5] = [at |-> "go.mod", files |-> {"go.mod"}, of |-> "private"]
  BY DEF Layers
<1>1. PICK n \in 1..5 :
        /\ grading = Layers[n].at
        /\ tmpRepo' = [f \in Files |-> IF f \in Layers[n].files \cap repos[Layers[n].of]
                                        THEN Layers[n].of ELSE tmpRepo[f]]
        /\ grading' = IF n < 5 THEN Layers[n + 1].at ELSE "build"
  BY <1>0 DEF CopyLayer, Grade
<1>2. UNCHANGED <<tasks, repos, verdict, server, leftDirs>>
  BY DEF CopyLayer
<1>3. private \subseteq Files
  BY DEF Files, Tests
<1>4. ASSUME n # 1
      PROVE  /\ Layers[n].of = "private"
             /\ \A f \in private :
                  Laid(f) \/ f \in Layers[n].files => Laid(f)'
  <2>1. Layers[n].of = "private"
    BY <1>0, <1>4
  <2> QED
    BY <1>1, <1>2, <1>3, <2>1 DEF Laid
<1>5. LayersOK' /\ grading' \in Preparing \cup {"build"} /\ grading \in Preparing
  <2>1. LayersOK
    BY DEF GraderInv
  <2>2. CASE n = 1
    <3>1. grading = "student" /\ grading' = "tests"
      BY <1>0, <1>1, <2>2
    <3> QED
      BY <1>2, <2>1, <3>1 DEF LayersOK, Testing, Preparing
  <2>3. CASE n = 2
    <3>1. grading = "tests" /\ grading' = "protected" /\ "test" \in Layers[n].files
      BY <1>0, <1>1, <2>3 DEF Tests
    <3> QED
      BY <1>2, <1>4, <2>1, <2>3, <3>1 DEF LayersOK, Testing, Preparing
  <2>4. CASE n = 3
    <3>1. grading = "protected" /\ grading' = "testdata" /\ "protected" \in Layers[n].files
      BY <1>0, <1>1, <2>4
    <3> QED
      BY <1>2, <1>4, <2>1, <2>4, <3>1 DEF LayersOK, Testing, Preparing
  <2>5. CASE n = 4
    <3>1. grading = "testdata" /\ grading' = "go.mod" /\ "testdata" \in Layers[n].files
      BY <1>0, <1>1, <2>5
    <3> QED
      BY <1>2, <1>4, <2>1, <2>5, <3>1 DEF LayersOK, Testing, Preparing
  <2>6. CASE n = 5
    <3>1. grading = "go.mod" /\ grading' = "build" /\ "go.mod" \in Layers[n].files
      BY <1>0, <1>1, <2>6
    <3> QED
      BY <1>2, <1>4, <2>1, <2>6, <3>1 DEF LayersOK, Testing, Preparing
  <2> QED
    BY <2>2, <2>3, <2>4, <2>5, <2>6
<1> QED
  BY <1>2, <1>5 DEF GraderInv, TasksOK, ReportsOK, Testing, Preparing

\* The rest of a list of tasks.
LEMMA NextTask ==
  ASSUME TasksOK, tasks # <<>>
  PROVE  /\ \A i \in 1..Len(tasks) : tasks[i] \in TaskNames
         /\ Head(tasks) = tasks[1] /\ Head(tasks) \in TaskNames /\ 1 \in 1..Len(tasks)
         /\ Tail(tasks) \in Seq(TaskNames) /\ Len(Tail(tasks)) = Len(tasks) - 1
         /\ \A i \in 1..Len(Tail(tasks)) : /\ Tail(tasks)[i] = tasks[i + 1] /\ i + 1 \in 1..Len(tasks)
                                           /\ i + 1 # 1 /\ Tail(tasks)[i] # Head(tasks)
         /\ \A i, j \in 1..Len(Tail(tasks)) : Tail(tasks)[i] = Tail(tasks)[j] => i = j
<1>1. tasks \in Seq(TaskNames) /\ Len(tasks) \in Nat /\ Len(tasks) # 0
  BY DEF TasksOK
<1>0. \A i \in 1..Len(tasks) : tasks[i] \in TaskNames
  BY <1>1
<1>2. /\ Head(tasks) = tasks[1] /\ 1 \in 1..Len(tasks) /\ Head(tasks) \in TaskNames
      /\ Tail(tasks) \in Seq(TaskNames) /\ Len(Tail(tasks)) = Len(tasks) - 1
  BY <1>1
<1>3. \A i \in 1..Len(Tail(tasks)) : Tail(tasks)[i] = tasks[i + 1] /\ i + 1 \in 1..Len(tasks) /\ i + 1 # 1
  BY <1>1, <1>2
<1>4. \A i \in 1..Len(Tail(tasks)) : Tail(tasks)[i] # Head(tasks)
  BY <1>2, <1>3 DEF TasksOK
<1>5. ASSUME NEW i \in 1..Len(Tail(tasks)), NEW j \in 1..Len(Tail(tasks)), Tail(tasks)[i] = Tail(tasks)[j]
      PROVE  i = j
  <2>1. i + 1 = j + 1
    BY <1>3, <1>5 DEF TasksOK
  <2> QED
    BY <2>1, <1>1, <1>2
<1> QED
  BY <1>0, <1>2, <1>3, <1>4, <1>5

\* A verdict, on a task that had none and of which no report has been sent.
LEMMA JudgeInv ==
  ASSUME GraderInv, grading \in Testing, NEW v \in {"passed", "failed", "testFailed"}, Judge(v),
         UNCHANGED <<repos, tmpRepo, server>>
  PROVE  GraderInv'
<1> DEFINE t == Head(tasks)
<1>1. /\ TasksOK /\ tasks # <<>> /\ verdict \in [TaskNames -> Verdicts] /\ ReportsOK /\ LayersOK
      /\ grading \notin {"exit 0", "exit 1", "report"}
  BY DEF GraderInv, TasksOK, Testing
<1>2. /\ t = tasks[1] /\ t \in TaskNames /\ 1 \in 1..Len(tasks) /\ verdict[t] = "none"
  BY <1>1, NextTask DEF TasksOK, Testing
<1> HIDE DEF t
<1>3. /\ verdict' \in [TaskNames -> Verdicts] /\ verdict'[t] = v
      /\ \A u \in TaskNames \ {t} : verdict'[u] = verdict[u]
      /\ "tmpRepo" \notin leftDirs'
  BY <1>1, <1>2 DEF Judge, Verdicts, t
<1>4. \A r \in server : r.task \in TaskNames /\ r.task # t
  BY <1>1, <1>2 DEF ReportsOK
<1>5. CASE v = "failed"
  <2>1. grading' = "next" /\ tasks' = Tail(tasks)
    BY <1>5 DEF Judge, Grade
  <2>2. TasksOK'
    <3>1. \A i \in 1..Len(tasks') : verdict'[tasks'[i]] = "none"
      <4>1. ASSUME NEW i \in 1..Len(tasks') PROVE verdict'[tasks'[i]] = "none"
        <5>1. tasks'[i] = tasks[i + 1] /\ i + 1 \in 1..Len(tasks) /\ tasks'[i] # t /\ tasks'[i] \in TaskNames
          BY <1>1, <2>1, <4>1, NextTask DEF t
        <5>2. verdict[tasks[i + 1]] = "none"
          BY <1>1, <5>1 DEF TasksOK, Testing
        <5> QED
          BY <1>3, <5>1, <5>2
      <4> QED
        BY <4>1
    <3>2. tasks' \in Seq(TaskNames) /\ \A i, j \in 1..Len(tasks') : tasks'[i] = tasks'[j] => i = j
      BY <1>1, <2>1, NextTask
    <3> QED
      BY <2>1, <3>1, <3>2 DEF TasksOK, Testing, Preparing
  <2>3. ReportsOK'
    BY <1>1, <1>3, <1>4, <1>5, <2>1 DEF ReportsOK
  <2>4. LayersOK'
    BY <1>1, <2>1 DEF LayersOK, Testing, Laid
  <2> QED
    BY <1>3, <2>1, <2>2, <2>3, <2>4 DEF GraderInv
<1>6. CASE v \in {"passed", "testFailed"}
  <2>1. grading' = "report" /\ tasks' = tasks
    BY <1>6 DEF Judge, Grade
  <2>2. TasksOK'
    <3>1. ASSUME NEW i \in 1..Len(tasks)
          PROVE  verdict'[tasks[i]] \in IF i = 1 THEN {"passed", "testFailed"} ELSE {"none"}
      <4>1. tasks[i] \in TaskNames /\ verdict[tasks[i]] = "none" /\ (i # 1 => tasks[i] # t)
        <5>1. tasks[i] \in TaskNames
          BY <1>1, NextTask
        <5> QED
          BY <1>1, <1>2, <5>1 DEF TasksOK, Testing
      <4> QED
        BY <1>2, <1>3, <1>6, <4>1
    <3> QED
      BY <1>1, <2>1, <3>1 DEF TasksOK, Testing, Preparing
  <2>3. ReportsOK'
    BY <1>1, <1>2, <1>3, <1>4, <1>6, <2>1 DEF ReportsOK
  <2>4. LayersOK'
    BY <1>1, <2>1 DEF LayersOK, Testing, Laid
  <2> QED
    BY <1>3, <2>1, <2>2, <2>3, <2>4 DEF GraderInv
<1> QED
  BY <1>5, <1>6

\* Steps of the tests that pass no verdict, and log.Fatal.
LEMMA TestingInv ==
  ASSUME GraderInv,
         \/ Fatal \/ MakeCaches
         \/ /\ Build \/ (\E p : RunPackage(p)) \/ CompareToBaseline \/ CheckCoverage
            /\ grading' \in Testing /\ UNCHANGED <<tasks, verdict, leftDirs>>
  PROVE  GraderInv'
<1>1. /\ UNCHANGED <<tasks, repos, tmpRepo, verdict, server>>
      /\ leftDirs' \subseteq leftDirs \cup {"bincache", "gocache"}
      /\ \/ grading' = "exit 1" /\ grading \notin {"next", "exit 0", "exit 1"}
         \/ grading' \in Testing /\ grading \in Testing
  BY DEF Fatal, MakeCaches, Build, RunPackage, CompareToBaseline, CheckCoverage, Grade, Testing
<1>2. LayersOK /\ TasksOK /\ ReportsOK
  BY DEF GraderInv
<1>3. CASE grading' = "exit 1" /\ grading \notin {"next", "exit 0", "exit 1"}
  <2>1. LayersOK'
    BY <1>1, <1>2, <1>3 DEF LayersOK, Testing
  <2>2. TasksOK'
    BY <1>1, <1>2, <1>3 DEF TasksOK, Testing, Preparing
  <2>3. ReportsOK'
    BY <1>1, <1>2, <1>3 DEF ReportsOK
  <2> QED
    BY <1>1, <1>3, <2>1, <2>2, <2>3 DEF GraderInv
<1>4. CASE grading' \in Testing /\ grading \in Testing
  <2>1. LayersOK'
    <3>1. \A f : Laid(f)' <=> Laid(f)
      BY <1>1 DEF Laid
    <3> QED
      BY <1>1, <1>2, <1>4, <3>1 DEF LayersOK
  <2>2. TasksOK'
    <3>1. grading' # "report" /\ tasks # <<>>
      BY <1>2, <1>4 DEF TasksOK, Testing
    <3>2. \A i \in 1..Len(tasks) : verdict[tasks[i]] = "none"
      BY <1>2, <1>4 DEF TasksOK
    <3> QED
      BY <1>1, <1>2, <3>1, <3>2 DEF TasksOK
  <2>3. ReportsOK'
    <3>1. grading' # "exit 0" /\ grading \notin {"report", "exit 1"}
      BY <1>4 DEF Testing
    <3> QED
      BY <1>1, <1>2, <3>1 DEF ReportsOK
  <2> QED
    BY <1>1, <1>4, <2>1, <2>2, <2>3 DEF GraderInv, Testing
<1> QED
  BY <1>1, <1>3, <1>4

\* The verdict of the first task is reported, perhaps again.
LEMMA ReportInv ==
  ASSUME GraderInv, Reported \/ ReportFails
  PROVE  GraderInv'
<1> DEFINE t == tasks[1]
           report == [task |-> t, failed |-> verdict[t] = "testFailed"]
<1>1. /\ LayersOK /\ TasksOK /\ ReportsOK /\ grading = "report" /\ tasks # <<>>
      /\ UNCHANGED <<repos, tmpRepo, verdict, leftDirs>>
  BY DEF GraderInv, TasksOK, Reported, ReportFails
<1>2. /\ t = Head(tasks) /\ t \in TaskNames /\ 1 \in 1..Len(tasks) /\ verdict[t] \in {"passed", "testFailed"}
  BY <1>1, NextTask DEF TasksOK
<1>3. server' = server \/ server' = server \cup {report}
  BY <1>2 DEF Reported, ReportFails, Arrives
<1>4. /\ report \in [task : TaskNames, failed : BOOLEAN]
      /\ verdict[report.task] = IF report.failed THEN "testFailed" ELSE "passed"
      /\ verdict[t] = "passed" => report = [task |-> t, failed |-> FALSE]
  BY <1>2
<1>5. /\ server' \subseteq [task : TaskNames, failed : BOOLEAN]
      /\ \A r \in server' : verdict'[r.task] = IF r.failed THEN "testFailed" ELSE "passed"
      /\ server \subseteq server'
  <2> HIDE DEF report
  <2> QED
    BY <1>1, <1>3, <1>4 DEF ReportsOK
<1>6. CASE Reported
  <2>1. grading' = "next" /\ tasks' = Tail(tasks) /\ report \in server'
    BY <1>2, <1>6 DEF Reported, Grade, Arrives
  <2>2. TasksOK'
    <3>1. ASSUME NEW i \in 1..Len(tasks') PROVE verdict'[tasks'[i]] = "none"
      <4>1. tasks'[i] = tasks[i + 1] /\ i + 1 \in 1..Len(tasks) /\ i + 1 # 1
        BY <1>1, <2>1, <3>1, NextTask
      <4> QED
        BY <1>1, <4>1 DEF TasksOK
    <3>2. tasks' \in Seq(TaskNames) /\ \A i, j \in 1..Len(tasks') : tasks'[i] = tasks'[j] => i = j
      BY <1>1, <2>1, NextTask
    <3> QED
      BY <2>1, <3>1, <3>2 DEF TasksOK, Testing, Preparing
  <2>3. ReportsOK'
    <3>1. \A u \in TaskNames : verdict[u] = "passed" => [task |-> u, failed |-> FALSE] \in server'
      <4>1. ASSUME NEW u \in TaskNames, verdict[u] = "passed" PROVE [task |-> u, failed |-> FALSE] \in server'
        <5>1. CASE u = t
          BY <1>4, <2>1, <4>1, <5>1
        <5>2. CASE u # t
          BY <1>1, <1>5, <4>1, <5>2 DEF ReportsOK
        <5> QED
          BY <5>1, <5>2
      <4> QED
        BY <4>1
    <3> QED
      BY <1>1, <1>5, <2>1, <3>1 DEF ReportsOK
  <2>4. LayersOK'
    BY <1>1, <2>1 DEF LayersOK, Testing
  <2> QED
    BY <1>1, <2>1, <2>2, <2>3, <2>4 DEF GraderInv
<1>7. CASE ReportFails
  <2>1. grading' \in {"report", "exit 1"} /\ tasks' = tasks
    BY <1>7 DEF ReportFails, Grade
  <2>2. TasksOK'
    BY <1>1, <2>1 DEF TasksOK, Testing, Preparing
  <2>3. ReportsOK'
    <3>1. ASSUME NEW u \in TaskNames, verdict[u] = "passed"
          PROVE  [task |-> u, failed |-> FALSE] \in server' \/ grading' = "exit 1" \/ (grading' = "report" /\ u = tasks'[1])
      BY <1>1, <1>5, <2>1, <3>1 DEF ReportsOK
    <3> QED
      BY <1>1, <1>5, <2>1, <3>1 DEF ReportsOK
  <2>4. LayersOK'
    BY <1>1, <2>1 DEF LayersOK, Testing
  <2> QED
    BY <1>1, <2>1, <2>2, <2>3, <2>4 DEF GraderInv
<1> QED
  BY <1>6, <1>7

\* Nothing is left to grade.
LEMMA GradeReturnsInv ==
  ASSUME GraderInv, GradeReturns
  PROVE  GraderInv'
<1>1. /\ grading = "next" /\ UNCHANGED <<tasks, repos, tmpRepo, verdict, server, leftDirs>>
      /\ LayersOK /\ TasksOK /\ ReportsOK
      /\ \/ grading' = "exit 1"
         \/ grading' = "exit 0" /\ \A t \in TaskNames : verdict[t] \notin {"failed", "testFailed"}
  BY DEF GraderInv, GradeReturns, Grade
<1>2. LayersOK' /\ TasksOK'
  BY <1>1, ZenonT(30) DEF LayersOK, TasksOK, Testing, Preparing
<1>3. ReportsOK'
  BY <1>1 DEF ReportsOK
<1> QED
  BY <1>1, <1>2, <1>3 DEF GraderInv

\* Every step keeps the invariant.
LEMMA GraderStepInv ==
  ASSUME GraderInv, [GraderNext]_graderVars
  PROVE  GraderInv'
<1>1. CASE StartTask
  BY <1>1, StartTaskInv
<1>2. CASE CopyLayer
  BY <1>2, CopyLayerInv
<1>3. CASE Fatal \/ MakeCaches
  BY <1>3, TestingInv
<1>4. CASE Build \/ (\E p : RunPackage(p) \/ PackageFails(p)) \/ CompareToBaseline \/ CheckCoverage \/ RunLinter
  <2>1. grading \in Testing /\ UNCHANGED <<repos, tmpRepo, server>>
    BY <1>4 DEF Build, RunPackage, PackageFails, CompareToBaseline, CheckCoverage, RunLinter, Testing
  <2>2. \/ \E v \in {"passed", "failed", "testFailed"} : Judge(v)
        \/ /\ grading' \in Testing /\ UNCHANGED <<tasks, verdict, leftDirs>>
           /\ Build \/ (\E p : RunPackage(p)) \/ CompareToBaseline \/ CheckCoverage
    BY <1>4 DEF Build, RunPackage, PackageFails, CompareToBaseline, CheckCoverage, RunLinter, Testing, Grade
  <2> QED
    BY <2>1, <2>2, JudgeInv, TestingInv
<1>5. CASE Reported \/ ReportFails
  BY <1>5, ReportInv
<1>6. CASE GradeReturns
  BY <1>6, GradeReturnsInv
<1>7. CASE UNCHANGED graderVars
  BY <1>7, ZenonT(30) DEF graderVars, GraderInv, LayersOK, TasksOK, ReportsOK, Laid
<1> QED
  BY <1>1, <1>2, <1>3, <1>4, <1>5, <1>6, <1>7 DEF GraderNext

---------------------------------------------------------------------------
(* grade: the theorems.                                                    *)

\* The invariant holds for any groups of tasks, whatever fails (grade.go:36-71,
\* test_submission.go:90-137).
THEOREM GraderInvariant == GraderSpec => []GraderInv
<1>1. GraderInv /\ [GraderNext]_graderVars => GraderInv'
  BY GraderStepInv
<1> QED
  BY GraderInitInv, <1>1, PTL DEF GraderSpec

\* Tests run over the private files, and the reports and the exit code tell
\* what the tests gave, for any tasks (grade.go:36-71).
THEOREM GraderIsHonest == GraderSpec => []GradeIsHonest
<1>1. GraderInv => GradeIsHonest
  <2> SUFFICES ASSUME GraderInv PROVE GradeIsHonest
    OBVIOUS
  <2>1. grading \in Testing => \A f \in repos.private : tmpRepo[f] = "private"
    BY DEF GraderInv, LayersOK, Laid
  <2>2. ASSUME grading = "exit 0", NEW t \in TaskNames
        PROVE  \/ verdict[t] = "none" /\ \A r \in server : r.task # t
               \/ [task |-> t, failed |-> FALSE] \in server
    <3>1. verdict[t] \in {"none", "passed"}
      BY <2>2 DEF GraderInv, ReportsOK, Verdicts
    <3>2. verdict[t] = "none" => \A r \in server : r.task # t
      BY DEF GraderInv, ReportsOK
    <3> QED
      BY <2>2, <3>1, <3>2 DEF GraderInv, ReportsOK
  <2> QED
    BY <2>1, <2>2 DEF GradeIsHonest, GraderInv, ReportsOK, Testing
<1> QED
  BY GraderInvariant, <1>1, PTL

---------------------------------------------------------------------------
(* urlshortener and coverme: the inductive invariant.                      *)

Ids == 0..MaxTodos
KeyAnswers == [url : Urls, key : 1..MaxDraws]
FinishAnswers == [id : Ids, finished : {TRUE}]
ListAnswers == [finished : SUBSET Ids, since : SUBSET Ids]
WebRequests == [at : {"idle", "draw", "put", "respond"}, url : Urls \cup {NoUrl}, key : 0..MaxDraws,
                ids : SUBSET Ids, since : SUBSET Ids, finished : SUBSET Ids]

WebTypes ==
  /\ service \in {"shorten", "todo"}
  /\ urlToKey \in [Urls -> 0..MaxDraws] /\ keyToUrl \in [1..MaxDraws -> Urls \cup {NoUrl}]
  /\ draws \in 0..MaxDraws
  /\ todos \in [Ids -> {"none", "open", "finished"}] /\ nextID \in Ids
  /\ caller \in [Callers -> WebRequests]
  /\ answers \subseteq (IF service = "shorten" THEN KeyAnswers ELSE FinishAnswers \cup ListAnswers)

\* What c is about is known from where it is.
CallerOK(c) ==
  /\ caller[c].at = "idle" => caller[c] = NoRequest
  /\ caller[c].at \in {"draw", "put"} => service = "shorten" /\ caller[c].url \in Urls
  /\ caller[c].at = "respond" => service = "todo"

\* A key that somebody is about to store is nobody else's and in no map.
FreshKey(c) ==
  caller[c].at = "put" =>
    /\ caller[c].key \in 1..draws
    /\ \A u \in Urls : urlToKey[u] # caller[c].key
    /\ \A d \in Callers : caller[d].at = "put" /\ caller[d].key = caller[c].key => d = c

\* A key in one map leads back in the other.
MapsAgree == \A u \in Urls : urlToKey[u] # 0 => urlToKey[u] <= draws /\ keyToUrl[urlToKey[u]] = u

KeysStay == service = "shorten" => \A a \in answers : urlToKey[a.url] = a.key

\* The ids that nobody has had yet, and those that were said to be finished.
TodosOK == /\ \A id \in Ids : id >= nextID => todos[id] = "none"
           /\ \A id \in Ids : [id |-> id, finished |-> TRUE] \in answers => todos[id] = "finished"

\* What was finished when c began is finished, and c has seen it or will.
SeenOrToSee(c) ==
  caller[c].at = "respond" => /\ \A id \in caller[c].since : todos[id] = "finished"
                              /\ caller[c].since \subseteq caller[c].ids \cup caller[c].finished

ListsAreTrue == \A a \in answers : "since" \in DOMAIN a => a.since \subseteq a.finished

WebIInv == /\ WebTypes /\ MapsAgree /\ KeysStay /\ TodosOK /\ ListsAreTrue
           /\ \A c \in Callers : CallerOK(c) /\ FreshKey(c) /\ SeenOrToSee(c)

---------------------------------------------------------------------------
\* The kinds of answers have different fields.
LEMMA AnswerKinds ==
  /\ \A a \in KeyAnswers : a.url \in Urls /\ a.key \in 1..MaxDraws /\ "since" \notin DOMAIN a
  /\ \A a \in FinishAnswers : "since" \notin DOMAIN a
  /\ \A a \in ListAnswers : "since" \in DOMAIN a
  /\ \A id : [id |-> id, finished |-> TRUE] \notin ListAnswers \cup KeyAnswers
<1>1. \A a \in KeyAnswers : a.url \in Urls /\ a.key \in 1..MaxDraws /\ "since" \notin DOMAIN a
  BY DEF KeyAnswers
<1>2. \A a \in FinishAnswers : "since" \notin DOMAIN a
  BY DEF FinishAnswers
<1>3. \A a \in ListAnswers : "since" \in DOMAIN a
  BY DEF ListAnswers
<1>4. \A a \in KeyAnswers : "finished" \notin DOMAIN a
  BY DEF KeyAnswers
<1>5. ASSUME NEW id PROVE /\ "since" \notin DOMAIN [id |-> id, finished |-> TRUE]
                          /\ "finished" \in DOMAIN [id |-> id, finished |-> TRUE]
  OBVIOUS
<1> QED
  BY <1>1, <1>2, <1>3, <1>4, <1>5, Zenon

\* The request of nobody is a request.
LEMMA NoRequestType == NoRequest \in WebRequests
BY WebAssumption DEF NoRequest, WebRequests

\* Nobody has asked for anything yet.
LEMMA WebInitIInv == WebInit => WebIInv
<1> SUFFICES ASSUME WebInit PROVE WebIInv
  OBVIOUS
<1>1. caller \in [Callers -> WebRequests]
  BY NoRequestType DEF WebInit
<1>2. WebTypes
  <2>1. urlToKey \in [Urls -> 0..MaxDraws] /\ keyToUrl \in [1..MaxDraws -> Urls \cup {NoUrl}]
    BY WebAssumption DEF WebInit
  <2>2. todos \in [Ids -> {"none", "open", "finished"}] /\ nextID \in Ids /\ draws \in 0..MaxDraws
    BY WebAssumption DEF WebInit, Ids
  <2> QED
    BY <1>1, <2>1, <2>2 DEF WebInit, WebTypes
<1>3. \A c \in Callers : CallerOK(c) /\ FreshKey(c) /\ SeenOrToSee(c)
  BY DEF WebInit, NoRequest, CallerOK, FreshKey, SeenOrToSee
<1>4. MapsAgree /\ KeysStay /\ TodosOK /\ ListsAreTrue
  BY DEF WebInit, MapsAgree, KeysStay, TodosOK, ListsAreTrue, Ids
<1> QED
  BY <1>2, <1>3, <1>4 DEF WebIInv

\* The address is in the map, or a key is needed.
LEMMA ShortenKeeps ==
  ASSUME WebIInv, NEW c \in Callers, NEW u \in Urls, Shorten(c, u)
  PROVE  WebIInv'
<1>1. /\ UNCHANGED <<service, urlToKey, keyToUrl, draws, todos, nextID>>
      /\ service = "shorten" /\ caller[c].at = "idle" /\ caller[c] = NoRequest
  BY DEF Shorten, shortVars, todoVars, WebIInv, CallerOK
<1>2. CASE urlToKey[u] # 0
  <2>1. /\ caller' = [caller EXCEPT ![c] = NoRequest]
        /\ answers' = answers \cup {[url |-> u, key |-> urlToKey[u]]}
    BY <1>1, <1>2 DEF Shorten, Tell
  <2>2. caller' = caller
    BY <1>1, <2>1 DEF WebIInv, WebTypes
  <2>3. [url |-> u, key |-> urlToKey[u]] \in KeyAnswers
    BY <1>2 DEF WebIInv, WebTypes, KeyAnswers
  <2>4. WebTypes'
    BY <1>1, <2>1, <2>2, <2>3 DEF WebIInv, WebTypes
  <2>5. KeysStay'
    BY <1>1, <2>1 DEF WebIInv, KeysStay
  <2>6. ListsAreTrue' /\ TodosOK'
    BY <1>1, <2>1, <2>3, <2>4, AnswerKinds DEF WebIInv, WebTypes, ListsAreTrue, TodosOK
  <2>7. MapsAgree' /\ \A d \in Callers : (CallerOK(d) /\ FreshKey(d) /\ SeenOrToSee(d))'
    BY <1>1, <2>2 DEF WebIInv, MapsAgree, CallerOK, FreshKey, SeenOrToSee
  <2> QED
    BY <2>4, <2>5, <2>6, <2>7 DEF WebIInv
<1>3. CASE urlToKey[u] = 0
  <2>1. /\ caller' = [caller EXCEPT ![c].at = "draw", ![c].url = u] /\ answers' = answers
    BY <1>1, <1>3 DEF Shorten
  <2>2. /\ caller' \in [Callers -> WebRequests]
        /\ caller'[c].at = "draw" /\ caller'[c].url = u
        /\ \A d \in Callers \ {c} : caller'[d] = caller[d]
    <3>1. caller \in [Callers -> WebRequests]
      BY DEF WebIInv, WebTypes
    <3>2. [caller[c] EXCEPT !.at = "draw", !.url = u] \in WebRequests
      BY <3>1 DEF WebRequests
    <3> QED
      BY <2>1, <3>1, <3>2 DEF WebRequests
  <2>3. WebTypes'
    BY <1>1, <2>1, <2>2 DEF WebIInv, WebTypes
  <2>4. \A d \in Callers : (CallerOK(d) /\ FreshKey(d) /\ SeenOrToSee(d))'
    BY <1>1, <2>1, <2>2 DEF WebIInv, CallerOK, FreshKey, SeenOrToSee
  <2>5. MapsAgree' /\ KeysStay' /\ TodosOK' /\ ListsAreTrue'
    BY <1>1, <2>1 DEF WebIInv, MapsAgree, KeysStay, TodosOK, ListsAreTrue
  <2> QED
    BY <2>3, <2>4, <2>5 DEF WebIInv
<1> QED
  BY <1>2, <1>3

\* A key is drawn that nobody has had.
LEMMA DrawKeeps ==
  ASSUME WebIInv, NEW c \in Callers, DrawKey(c)
  PROVE  WebIInv'
<1>1. /\ UNCHANGED <<service, urlToKey, keyToUrl, todos, nextID, answers>>
      /\ caller[c].at = "draw" /\ draws \in 0..(MaxDraws - 1) /\ draws' = draws + 1
      /\ caller' = [caller EXCEPT ![c].at = "put", ![c].key = draws + 1]
  BY WebAssumption DEF DrawKey, todoVars, WebIInv, WebTypes
<1>2. /\ caller' \in [Callers -> WebRequests]
      /\ caller'[c].at = "put" /\ caller'[c].key = draws + 1 /\ caller'[c].url = caller[c].url
      /\ \A d \in Callers \ {c} : caller'[d] = caller[d]
  <2>1. caller \in [Callers -> WebRequests] /\ draws + 1 \in 0..MaxDraws
    BY <1>1, WebAssumption DEF WebIInv, WebTypes
  <2>2. [caller[c] EXCEPT !.at = "put", !.key = draws + 1] \in WebRequests
    BY <2>1 DEF WebRequests
  <2> QED
    BY <1>1, <2>1, <2>2 DEF WebRequests
<1>3. WebTypes'
  BY <1>1, <1>2, WebAssumption DEF WebIInv, WebTypes
<1>4. MapsAgree' /\ KeysStay' /\ TodosOK' /\ ListsAreTrue'
  BY <1>1 DEF WebIInv, WebTypes, MapsAgree, KeysStay, TodosOK, ListsAreTrue
<1>5. \A d \in Callers : CallerOK(d)' /\ SeenOrToSee(d)'
  BY <1>1, <1>2 DEF WebIInv, CallerOK, SeenOrToSee
<1>6. \A u \in Urls : urlToKey[u] # draws + 1
  BY <1>1 DEF WebIInv, WebTypes, MapsAgree
<1>7. \A d \in Callers \ {c} : caller[d].at = "put" => caller[d].key \in 1..draws
  BY DEF WebIInv, FreshKey
<1>8. \A d \in Callers : FreshKey(d)'
  BY <1>1, <1>2, <1>6, <1>7 DEF WebIInv, FreshKey
<1> QED
  BY <1>3, <1>4, <1>5, <1>8 DEF WebIInv

\* The address gets the key, or the one that was stored while it was drawn.
LEMMA PutKeeps ==
  ASSUME WebIInv, NEW c \in Callers, PutIfAbsent(c)
  PROVE  WebIInv'
<1> DEFINE u == caller[c].url
           k == caller[c].key
<1>1. /\ UNCHANGED <<service, draws, todos, nextID>> /\ caller[c].at = "put"
      /\ service = "shorten" /\ u \in Urls /\ k \in 1..draws /\ k \in 1..MaxDraws
      /\ caller' = [caller EXCEPT ![c] = NoRequest]
  <2>1. /\ UNCHANGED <<service, draws, todos, nextID>> /\ caller[c].at = "put"
        /\ caller' = [caller EXCEPT ![c] = NoRequest]
    BY DEF PutIfAbsent, Tell, todoVars
  <2>2. service = "shorten" /\ u \in Urls /\ k \in 1..draws
    BY <2>1 DEF WebIInv, CallerOK, FreshKey
  <2>3. draws \in 0..MaxDraws
    BY DEF WebIInv, WebTypes
  <2> HIDE DEF u, k
  <2>4. k \in 1..MaxDraws
    BY <2>2, <2>3, WebAssumption
  <2> QED
    BY <2>1, <2>2, <2>4
<1>2. /\ caller' \in [Callers -> WebRequests] /\ caller'[c] = NoRequest
      /\ \A d \in Callers \ {c} : caller'[d] = caller[d]
  BY <1>1, NoRequestType DEF WebIInv, WebTypes
<1>3. PICK a \in KeyAnswers :
        /\ answers' = answers \cup {a} /\ a.url = u
        /\ \/ urlToKey[u] # 0 /\ UNCHANGED <<urlToKey, keyToUrl>> /\ a.key = urlToKey[u]
           \/ /\ urlToKey[u] = 0 /\ a.key = k
              /\ urlToKey' = [urlToKey EXCEPT ![u] = k] /\ keyToUrl' = [keyToUrl EXCEPT ![k] = u]
  <2>1. CASE urlToKey[u] # 0
    <3>1. [url |-> u, key |-> urlToKey[u]] \in KeyAnswers
      BY <1>1, <2>1 DEF WebIInv, WebTypes, KeyAnswers
    <3> QED
      BY <2>1, <3>1 DEF PutIfAbsent, Tell
  <2>2. CASE urlToKey[u] = 0
    <3>1. [url |-> u, key |-> k] \in KeyAnswers
      BY <1>1 DEF KeyAnswers
    <3> QED
      BY <2>2, <3>1 DEF PutIfAbsent, Tell
  <2> QED
    BY <2>1, <2>2
<1> HIDE DEF u, k
<1>4. WebTypes'
  <2>1. urlToKey' \in [Urls -> 0..MaxDraws] /\ keyToUrl' \in [1..MaxDraws -> Urls \cup {NoUrl}]
    BY <1>1, <1>3 DEF WebIInv, WebTypes
  <2> QED
    BY <1>1, <1>2, <1>3, <2>1 DEF WebIInv, WebTypes
<1>5. \A v \in Urls : urlToKey[v] # k
  BY <1>1 DEF WebIInv, FreshKey, k
<1>6. MapsAgree'
  <2> SUFFICES ASSUME NEW v \in Urls, urlToKey'[v] # 0
               PROVE  urlToKey'[v] <= draws /\ keyToUrl'[urlToKey'[v]] = v
    BY <1>1 DEF MapsAgree
  <2>1. /\ urlToKey \in [Urls -> 0..MaxDraws] /\ keyToUrl \in [1..MaxDraws -> Urls \cup {NoUrl}]
        /\ draws \in 0..MaxDraws /\ MapsAgree
    BY DEF WebIInv, WebTypes
  <2>2. CASE UNCHANGED <<urlToKey, keyToUrl>>
    BY <2>1, <2>2 DEF MapsAgree
  <2>3. CASE urlToKey' = [urlToKey EXCEPT ![u] = k] /\ keyToUrl' = [keyToUrl EXCEPT ![k] = u]
    <3>1. CASE v = u
      BY <1>1, <2>1, <2>3, <3>1
    <3>2. CASE v # u
      <4>1. urlToKey'[v] = urlToKey[v] /\ urlToKey[v] \in 1..MaxDraws
        BY <2>1, <2>3, <3>2
      <4>2. urlToKey[v] # k
        BY <1>5
      <4>3. keyToUrl'[urlToKey[v]] = keyToUrl[urlToKey[v]]
        BY <2>1, <2>3, <4>1, <4>2
      <4> QED
        BY <2>1, <4>1, <4>3 DEF MapsAgree
    <3> QED
      BY <3>1, <3>2
  <2> QED
    BY <1>3, <2>2, <2>3
<1>7. KeysStay'
  <2>1. \A b \in answers : b.url \in Urls /\ b.key # 0 /\ urlToKey[b.url] = b.key
    BY <1>1, AnswerKinds DEF WebIInv, WebTypes, KeysStay
  <2> QED
    BY <1>1, <1>3, <2>1 DEF WebIInv, WebTypes, KeysStay
<1>8. TodosOK' /\ ListsAreTrue'
  BY <1>1, <1>3, <1>4, AnswerKinds DEF WebIInv, WebTypes, TodosOK, ListsAreTrue
<1>9. \A d \in Callers : CallerOK(d)' /\ SeenOrToSee(d)'
  BY <1>1, <1>2 DEF WebIInv, CallerOK, SeenOrToSee, NoRequest
<1>10. \A d \in Callers : FreshKey(d)'
  BY <1>1, <1>2, <1>3 DEF WebIInv, WebTypes, FreshKey, NoRequest, k
<1> QED
  BY <1>4, <1>6, <1>7, <1>8, <1>9, <1>10 DEF WebIInv

\* A todo that nobody has seen is added.
LEMMA AddTodoKeeps ==
  ASSUME WebIInv, NEW c \in Callers, AddTodo(c)
  PROVE  WebIInv'
<1>1. /\ UNCHANGED <<service, urlToKey, keyToUrl, draws, answers>>
      /\ service = "todo" /\ caller[c] = NoRequest /\ nextID \in Ids /\ nextID + 1 \in Ids
      /\ todos' = [todos EXCEPT ![nextID] = "open"] /\ nextID' = nextID + 1
      /\ caller' = [caller EXCEPT ![c].at = "respond", ![c].ids = {nextID}]
  BY WebAssumption DEF AddTodo, shortVars, WebIInv, WebTypes, CallerOK, Ids
<1>2. /\ caller' \in [Callers -> WebRequests]
      /\ caller'[c].at = "respond" /\ caller'[c].since = {}
      /\ \A d \in Callers \ {c} : caller'[d] = caller[d]
  <2>1. [NoRequest EXCEPT !.at = "respond", !.ids = {nextID}] \in WebRequests
    BY <1>1, NoRequestType DEF WebRequests
  <2> QED
    BY <1>1, <2>1 DEF NoRequest, WebIInv, WebTypes
<1>3. WebTypes'
  BY <1>1, <1>2 DEF WebIInv, WebTypes
<1>4. todos[nextID] = "none"
  BY <1>1 DEF WebIInv, TodosOK, Ids
<1>5. MapsAgree' /\ KeysStay' /\ ListsAreTrue'
  BY <1>1 DEF WebIInv, MapsAgree, KeysStay, ListsAreTrue
<1>6. TodosOK'
  BY <1>1, <1>4 DEF WebIInv, WebTypes, TodosOK, Ids
<1>7. \A d \in Callers : CallerOK(d)' /\ FreshKey(d)'
  BY <1>1, <1>2 DEF WebIInv, CallerOK, FreshKey
<1>8. \A d \in Callers : SeenOrToSee(d)'
  BY <1>1, <1>2, <1>4 DEF WebIInv, WebTypes, SeenOrToSee
<1> QED
  BY <1>3, <1>5, <1>6, <1>7, <1>8 DEF WebIInv

\* c is handed todos.
LEMMA GetTodosKeeps ==
  ASSUME WebIInv, NEW c \in Callers, NEW ids \in SUBSET Ids, GetTodos(c, ids)
  PROVE  WebIInv'
<1> DEFINE since == {id \in ids : [id |-> id, finished |-> TRUE] \in answers}
<1>1. /\ UNCHANGED <<service, urlToKey, keyToUrl, draws, todos, nextID, answers>> /\ service = "todo"
      /\ caller' = [caller EXCEPT ![c] = [NoRequest EXCEPT !.at = "respond", !.ids = ids, !.since = since]]
  BY DEF GetTodos, shortVars, todoVars
<1>2. since \subseteq ids /\ \A id \in since : todos[id] = "finished"
  BY DEF WebIInv, TodosOK
<1> HIDE DEF since
<1>3. /\ caller' \in [Callers -> WebRequests]
      /\ caller'[c].at = "respond" /\ caller'[c].since = since /\ caller'[c].ids = ids
      /\ \A d \in Callers \ {c} : caller'[d] = caller[d]
  <2>1. [NoRequest EXCEPT !.at = "respond", !.ids = ids, !.since = since] \in WebRequests
    BY <1>2, NoRequestType DEF WebRequests
  <2> QED
    BY <1>1, <2>1 DEF NoRequest, WebIInv, WebTypes
<1>4. WebTypes'
  BY <1>1, <1>3 DEF WebIInv, WebTypes
<1>5. MapsAgree' /\ KeysStay' /\ ListsAreTrue' /\ TodosOK'
  BY <1>1 DEF WebIInv, MapsAgree, KeysStay, ListsAreTrue, TodosOK
<1>6. \A d \in Callers : (CallerOK(d) /\ FreshKey(d) /\ SeenOrToSee(d))'
  BY <1>1, <1>2, <1>3 DEF WebIInv, CallerOK, FreshKey, SeenOrToSee
<1> QED
  BY <1>4, <1>5, <1>6 DEF WebIInv

\* A todo is read into the answer.
LEMMA EncodeKeeps ==
  ASSUME WebIInv, NEW c \in Callers, NEW id \in Ids, EncodeTodo(c, id)
  PROVE  WebIInv'
<1> DEFINE new == caller[c].finished \cup {i \in {id} : todos[i] = "finished"}
<1>1. /\ UNCHANGED <<service, urlToKey, keyToUrl, draws, todos, nextID, answers>>
      /\ caller[c].at = "respond" /\ id \in caller[c].ids
      /\ caller' = [caller EXCEPT ![c].ids = @ \ {id}, ![c].finished = new]
  BY DEF EncodeTodo, shortVars, todoVars
<1>2. new \subseteq caller[c].finished \cup {id} /\ caller[c].finished \subseteq new
      /\ (todos[id] = "finished" => id \in new)
  OBVIOUS
<1> HIDE DEF new
<1>3. /\ caller' \in [Callers -> WebRequests]
      /\ caller'[c].at = "respond" /\ caller'[c].since = caller[c].since
      /\ caller'[c].ids = caller[c].ids \ {id} /\ caller'[c].finished = new
      /\ \A d \in Callers \ {c} : caller'[d] = caller[d]
  <2>1. caller \in [Callers -> WebRequests]
    BY DEF WebIInv, WebTypes
  <2>2. [caller[c] EXCEPT !.ids = @ \ {id}, !.finished = new] \in WebRequests
    BY <1>2, <2>1 DEF WebRequests
  <2> QED
    BY <1>1, <2>1, <2>2 DEF WebRequests
<1>4. WebTypes'
  BY <1>1, <1>3 DEF WebIInv, WebTypes
<1>5. MapsAgree' /\ KeysStay' /\ ListsAreTrue' /\ TodosOK'
  BY <1>1 DEF WebIInv, MapsAgree, KeysStay, ListsAreTrue, TodosOK
<1>6. \A d \in Callers : (CallerOK(d) /\ FreshKey(d) /\ SeenOrToSee(d))'
  BY <1>1, <1>2, <1>3 DEF WebIInv, CallerOK, FreshKey, SeenOrToSee
<1> QED
  BY <1>4, <1>5, <1>6 DEF WebIInv

\* The answer is complete.
LEMMA RespondKeeps ==
  ASSUME WebIInv, NEW c \in Callers, RespondTodos(c)
  PROVE  WebIInv'
<1> DEFINE a == [finished |-> caller[c].finished, since |-> caller[c].since]
<1>1. /\ UNCHANGED <<service, urlToKey, keyToUrl, draws, todos, nextID>>
      /\ caller[c].at = "respond" /\ caller[c].ids = {} /\ service = "todo"
      /\ caller' = [caller EXCEPT ![c] = NoRequest] /\ answers' = answers \cup {a}
  BY DEF RespondTodos, Tell, shortVars, todoVars, WebIInv, CallerOK
<1>2. a \in ListAnswers /\ a.since \subseteq a.finished
  <2>1. caller[c] \in WebRequests /\ caller[c].since \subseteq caller[c].finished
    BY <1>1 DEF WebIInv, WebTypes, SeenOrToSee
  <2> QED
    BY <2>1 DEF ListAnswers, WebRequests
<1> HIDE DEF a
<1>3. /\ caller' \in [Callers -> WebRequests] /\ caller'[c] = NoRequest
      /\ \A d \in Callers \ {c} : caller'[d] = caller[d]
  BY <1>1, NoRequestType DEF WebIInv, WebTypes
<1>4. WebTypes'
  BY <1>1, <1>2, <1>3 DEF WebIInv, WebTypes
<1>5. MapsAgree' /\ KeysStay' /\ ListsAreTrue'
  BY <1>1, <1>2 DEF WebIInv, MapsAgree, KeysStay, ListsAreTrue
<1>6. TodosOK'
  BY <1>1, <1>2, AnswerKinds DEF WebIInv, TodosOK
<1>7. \A d \in Callers : (CallerOK(d) /\ FreshKey(d) /\ SeenOrToSee(d))'
  BY <1>1, <1>3 DEF WebIInv, CallerOK, FreshKey, SeenOrToSee, NoRequest
<1> QED
  BY <1>4, <1>5, <1>6, <1>7 DEF WebIInv

\* A todo is finished and stays so.
LEMMA FinishKeeps ==
  ASSUME WebIInv, NEW c \in Callers, NEW id \in Todos, FinishTodo(c, id)
  PROVE  WebIInv'
<1> DEFINE a == [id |-> id, finished |-> TRUE]
<1>1. /\ UNCHANGED <<service, urlToKey, keyToUrl, draws, nextID>> /\ service = "todo"
      /\ caller' = [caller EXCEPT ![c] = NoRequest] /\ caller[c] = NoRequest
      /\ answers' = answers \cup {a} /\ todos' = [todos EXCEPT ![id] = "finished"]
  BY DEF FinishTodo, Tell, shortVars, WebIInv, CallerOK
<1>2. id \in Ids /\ todos[id] # "none" /\ a \in FinishAnswers
  BY DEF Todos, WebIInv, WebTypes, FinishAnswers
<1>3. caller' = caller
  BY <1>1 DEF WebIInv, WebTypes
<1>4. \A i \in Ids : [id |-> i, finished |-> TRUE] \in answers' =>
                      i = id \/ [id |-> i, finished |-> TRUE] \in answers
  BY <1>1
<1>5. "since" \notin DOMAIN a
  BY <1>2, AnswerKinds
<1> HIDE DEF a
<1>6. WebTypes'
  BY <1>1, <1>2, <1>3 DEF WebIInv, WebTypes
<1>7. MapsAgree' /\ KeysStay' /\ ListsAreTrue'
  BY <1>1, <1>5 DEF WebIInv, MapsAgree, KeysStay, ListsAreTrue
<1>8. TodosOK'
  BY <1>1, <1>2, <1>4 DEF WebIInv, WebTypes, TodosOK
<1>9. \A i \in Ids : todos[i] = "finished" => todos'[i] = "finished"
  BY <1>1 DEF WebIInv, WebTypes
<1>10. \A d \in Callers : caller[d].since \subseteq Ids
  BY DEF WebIInv, WebTypes, WebRequests
<1>11. \A d \in Callers : (CallerOK(d) /\ FreshKey(d) /\ SeenOrToSee(d))'
  BY <1>1, <1>3, <1>9, <1>10 DEF WebIInv, CallerOK, FreshKey, SeenOrToSee
<1> QED
  BY <1>6, <1>7, <1>8, <1>11 DEF WebIInv

\* Every step keeps the invariant.
LEMMA WebNextIInv == WebIInv /\ [WebNext]_webVars => WebIInv'
<1> SUFFICES ASSUME WebIInv, [WebNext]_webVars PROVE WebIInv'
  OBVIOUS
<1>1. Todos \subseteq Ids
  BY DEF Todos, WebIInv, WebTypes
<1>2. ASSUME NEW c \in Callers, NEW id \in Todos, GetTodos(c, {id}) \/ EncodeTodo(c, id) \/ FinishTodo(c, id)
      PROVE  WebIInv'
  BY <1>1, <1>2, GetTodosKeeps, EncodeKeeps, FinishKeeps
<1>3. ASSUME NEW c \in Callers, GetTodos(c, Todos) PROVE WebIInv'
  BY <1>1, <1>3, GetTodosKeeps
<1>4. CASE UNCHANGED webVars
  <2>1. UNCHANGED <<service, urlToKey, keyToUrl, draws, todos, nextID, caller, answers>>
    BY <1>4 DEF webVars
  <2> QED
    BY <2>1 DEF WebIInv, WebTypes, MapsAgree, KeysStay, TodosOK, ListsAreTrue, CallerOK, FreshKey, SeenOrToSee
<1> QED
  BY <1>2, <1>3, <1>4, ShortenKeeps, DrawKeeps, PutKeeps, AddTodoKeeps, RespondKeeps DEF WebNext

\* The invariant holds of every reachable state of the two services.
THEOREM WebInvariant == WebSpec => []WebIInv
  BY WebInitIInv, WebNextIInv, PTL DEF WebSpec

\* A short link that a caller was told leads to its address, and is the one
\* that every other caller is told; a todo that was said to be finished when a
\* request began is finished in its answer (main.go:51-60, storage.go:49-84).
THEOREM WebAnswersStayTrue == WebSpec => []AnswersStayTrue
<1>1. WebIInv => AnswersStayTrue
  <2> SUFFICES ASSUME WebIInv, NEW a \in answers
               PROVE  IF service = "shorten" THEN keyToUrl[a.key] = a.url /\ urlToKey[a.url] = a.key
                      ELSE "since" \in DOMAIN a => a.since \subseteq a.finished
    BY DEF AnswersStayTrue
  <2>1. CASE service = "shorten"
    <3>1. a.url \in Urls /\ a.key # 0
      BY <2>1, AnswerKinds DEF WebIInv, WebTypes
    <3> QED
      BY <2>1, <3>1 DEF WebIInv, KeysStay, MapsAgree
  <2>2. CASE service # "shorten"
    BY <2>2 DEF WebIInv, ListsAreTrue
  <2> QED
    BY <2>1, <2>2
<1> QED
  BY WebInvariant, <1>1, PTL

---------------------------------------------------------------------------
(* middleware: the inductive invariant.                                    *)

\* The requests that the gauge has counted on route t.
Gauged(t) == {r \in Requests : /\ request[r].route = t
                               /\ request[r].status = 200
                               /\ request[r].at \in {"log", "over"}}

MwRequests == [at : {"new", "auth", "handler", "gauge", "log", "over"}, route : Routes \cup {NoRoute},
               status : {200, 401, 500}, panic : BOOLEAN]

MwTypes ==
  /\ request \in [Requests -> MwRequests]
  /\ metrics \in [Routes -> Nat] /\ shown \in [Routes -> Nat]
  /\ logged \in [Requests -> SUBSET {"started", "finished", "panicked"}]

\* The log of a request by where it is.
LoggedOK(r) ==
  /\ request[r].at = "new" => logged[r] = {}
  /\ request[r].at \in {"auth", "handler", "gauge", "log"} => logged[r] = {"started"}
  /\ request[r].at = "over" => logged[r] \in {{}, {"started", "finished"}, {"started", "panicked"}}

\* The status is the one of a request that went through, until somebody answers.
StatusOK(r) == /\ request[r].at \notin {"log", "over"} => request[r].status = 200
               /\ request[r].at \in {"log", "over"} /\ request[r].route = NoRoute => request[r].status # 200

GaugeExact == \A t \in Routes : metrics[t] = Cardinality(Gauged(t)) /\ shown[t] <= metrics[t]

MwIInv == MwTypes /\ GaugeExact /\ \A r \in Requests : LoggedOK(r) /\ StatusOK(r)

---------------------------------------------------------------------------
\* A step of r that leaves metrics and what is shown alone, and does not bring
\* r among the counted, keeps the gauge exact.
LEMMA GaugeKept ==
  ASSUME MwIInv, UNCHANGED <<metrics, shown>>, \A t \in Routes : Gauged(t)' = Gauged(t)
  PROVE  GaugeExact'
BY DEF MwIInv, GaugeExact

\* A request enters, or is turned away before or after it was let in.
LEMMA BeforeHandler ==
  ASSUME MwIInv, NEW r \in Requests, NoRequestID(r) \/ LogStart(r) \/ AuthFails(r) \/ AuthPasses(r)
  PROVE  MwIInv'
<1>1. /\ UNCHANGED <<metrics, shown>> /\ request[r].at \in {"new", "auth"} /\ request[r].status = 200
      /\ logged' \in [Requests -> SUBSET {"started", "finished", "panicked"}]
      /\ \A q \in Requests \ {r} : logged'[q] = logged[q]
  BY DEF NoRequestID, LogStart, AuthFails, AuthPasses, Log, MwIInv, MwTypes, StatusOK
<1>2. /\ request' \in [Requests -> MwRequests] /\ request'[r].route = request[r].route
      /\ \A q \in Requests \ {r} : request'[q] = request[q]
  BY DEF NoRequestID, LogStart, AuthFails, AuthPasses, Answer, Proceed, MwIInv, MwTypes, MwRequests
<1>3. /\ request'[r].at \in {"over", "auth", "log", "handler"}
      /\ request'[r].at \in {"log", "over"} <=> request'[r].status # 200
      /\ logged'[r] = IF request'[r].at = "over" THEN {} ELSE {"started"}
  <2>1. CASE NoRequestID(r)
    BY <2>1 DEF NoRequestID, Answer, MwIInv, MwTypes, MwRequests, LoggedOK
  <2>2. CASE LogStart(r)
    BY <1>1, <2>2 DEF LogStart, Log, Proceed, MwIInv, MwTypes, MwRequests, LoggedOK
  <2>3. CASE AuthFails(r)
    BY <2>3 DEF AuthFails, Answer, MwIInv, MwTypes, MwRequests, LoggedOK
  <2>4. CASE AuthPasses(r)
    BY <1>1, <2>4 DEF AuthPasses, Proceed, MwIInv, MwTypes, MwRequests, LoggedOK
  <2> QED
    BY <2>1, <2>2, <2>3, <2>4
<1>4. MwTypes'
  BY <1>1, <1>2 DEF MwIInv, MwTypes
<1>5. \A q \in Requests : LoggedOK(q)' /\ StatusOK(q)'
  BY <1>1, <1>2, <1>3 DEF MwIInv, LoggedOK, StatusOK
<1>6. \A t \in Routes : Gauged(t)' = Gauged(t)
  BY <1>1, <1>2, <1>3 DEF Gauged
<1> QED
  BY <1>1, <1>4, <1>5, <1>6, GaugeKept DEF MwIInv

\* The handler returns or panics, or the log gets its second line: neither
\* changes what the gauge counts.
LEMMA AroundGauge ==
  ASSUME MwIInv, NEW r \in Requests, HandlerEnds(r) \/ LogEnd(r)
  PROVE  MwIInv'
<1>1. /\ UNCHANGED <<metrics, shown>>
      /\ request' \in [Requests -> MwRequests] /\ request'[r].route = request[r].route
      /\ request'[r].status = request[r].status
      /\ \A q \in Requests \ {r} : request'[q] = request[q]
  BY DEF HandlerEnds, LogEnd, Proceed, MwIInv, MwTypes, MwRequests
<1>2. /\ logged' \in [Requests -> SUBSET {"started", "finished", "panicked"}]
      /\ \A q \in Requests \ {r} : logged'[q] = logged[q]
  BY DEF HandlerEnds, LogEnd, Log, MwIInv, MwTypes
<1>3. \/ request[r].at = "handler" /\ request'[r].at = "gauge" /\ logged'[r] = {"started"}
      \/ /\ request[r].at = "log" /\ request'[r].at = "over"
         /\ logged'[r] \in {{"started", "finished"}, {"started", "panicked"}}
  <2>1. CASE HandlerEnds(r)
    <3>1. request[r].at = "handler" /\ logged' = logged /\ logged[r] = {"started"}
      BY <2>1 DEF HandlerEnds, MwIInv, LoggedOK
    <3>2. request'[r].at = "gauge"
      <4>1. PICK p \in BOOLEAN : request' = [request EXCEPT ![r].at = "gauge", ![r].panic = p]
        BY <2>1 DEF HandlerEnds
      <4>2. request \in [Requests -> MwRequests]
        BY DEF MwIInv, MwTypes
      <4> QED
        BY <4>1, <4>2 DEF MwRequests
    <3> QED
      BY <3>1, <3>2
  <2>2. CASE LogEnd(r)
    <3>1. logged[r] = {"started"} /\ request'[r].at = "over" /\ request[r].at = "log"
      BY <2>2 DEF LogEnd, Proceed, MwIInv, MwTypes, MwRequests, LoggedOK
    <3>2. logged'[r] = {"started"} \cup {"panicked"} \/ logged'[r] = {"started"} \cup {"finished"}
      BY <2>2, <3>1 DEF LogEnd, Log, MwIInv, MwTypes
    <3> QED
      BY <3>1, <3>2
  <2> QED
    BY <2>1, <2>2
<1>4. MwTypes'
  BY <1>1, <1>2 DEF MwIInv, MwTypes
<1>5. \A q \in Requests : LoggedOK(q)' /\ StatusOK(q)'
  BY <1>1, <1>2, <1>3 DEF MwIInv, LoggedOK, StatusOK
<1>6. \A t \in Routes : Gauged(t)' = Gauged(t)
  BY <1>1, <1>3 DEF Gauged
<1> QED
  BY <1>1, <1>4, <1>5, <1>6, GaugeKept DEF MwIInv

\* The gauge counts a request once, on its own route.
LEMMA CountKeeps ==
  ASSUME MwIInv, NEW r \in Requests, Count(r)
  PROVE  MwIInv'
<1>1. /\ UNCHANGED <<logged, shown>> /\ request[r].at = "gauge" /\ request[r].status = 200
      /\ request' \in [Requests -> MwRequests] /\ request'[r].route = request[r].route
      /\ request'[r].at = "log" /\ logged[r] = {"started"}
      /\ \A q \in Requests \ {r} : request'[q] = request[q]
  BY DEF Count, Answer, Proceed, MwIInv, MwTypes, MwRequests, StatusOK, LoggedOK
<1>2. request[r].route = NoRoute <=> request'[r].status # 200
  BY <1>1 DEF Count, Answer, Proceed, MwIInv, MwTypes, MwRequests
<1>3. \A q \in Requests : LoggedOK(q)' /\ StatusOK(q)'
  BY <1>1, <1>2 DEF MwIInv, LoggedOK, StatusOK
<1>4. CASE request[r].route = NoRoute
  <2>1. UNCHANGED metrics /\ \A t \in Routes : Gauged(t)' = Gauged(t)
    BY <1>1, <1>4, MwAssumption DEF Count, Gauged
  <2>2. MwTypes'
    BY <1>1, <2>1 DEF MwIInv, MwTypes
  <2> QED
    BY <1>1, <1>3, <2>1, <2>2, GaugeKept DEF MwIInv
<1>5. CASE request[r].route # NoRoute
  <2>0. PICK s \in Routes : s = request[r].route
    BY <1>5 DEF MwIInv, MwTypes, MwRequests
  <2>1. s \in Routes /\ metrics' = [metrics EXCEPT ![s] = @ + 1]
    BY <1>5, <2>0 DEF Count
  <2>2. Gauged(s)' = Gauged(s) \cup {r} /\ r \notin Gauged(s)
    BY <1>1, <1>2, <1>5, <2>0 DEF Gauged
  <2>3. \A t \in Routes \ {s} : Gauged(t)' = Gauged(t)
    BY <1>1, <2>0 DEF Gauged
  <2>4. IsFiniteSet(Gauged(s))
    BY MwAssumption, FS_Subset DEF Gauged
  <2>5. Cardinality(Gauged(s) \cup {r}) = Cardinality(Gauged(s)) + 1
    BY <2>2, <2>4, FS_AddElement
  <2>6. MwTypes'
    BY <1>1, <2>1 DEF MwIInv, MwTypes
  <2>7. GaugeExact'
    <3>1. /\ metrics'[s] = metrics[s] + 1 /\ metrics[s] \in Nat /\ shown[s] \in Nat
          /\ \A t \in Routes \ {s} : metrics'[t] = metrics[t]
      BY <2>1 DEF MwIInv, MwTypes
    <3>2. metrics'[s] = Cardinality(Gauged(s)') /\ shown[s] <= metrics'[s]
      BY <2>1, <2>2, <2>5, <3>1 DEF MwIInv, GaugeExact
    <3>3. \A t \in Routes \ {s} : metrics'[t] = Cardinality(Gauged(t)') /\ shown[t] <= metrics'[t]
      BY <2>3, <3>1 DEF MwIInv, GaugeExact
    <3>4. shown' = shown
      BY <1>1
    <3> QED
      BY <3>2, <3>3, <3>4 DEF GaugeExact
  <2> QED
    BY <1>3, <2>6, <2>7 DEF MwIInv
<1> QED
  BY <1>4, <1>5

\* Every step keeps the invariant.
LEMMA MwNextIInv == MwIInv /\ [MwNext]_mwVars => MwIInv'
<1> SUFFICES ASSUME MwIInv, [MwNext]_mwVars PROVE MwIInv'
  OBVIOUS
<1>1. CASE ShowMetrics \/ UNCHANGED mwVars
  <2>1. UNCHANGED <<request, metrics, logged>> /\ (shown' = shown \/ shown' = metrics)
    BY <1>1 DEF ShowMetrics, mwVars
  <2>2. MwTypes' /\ \A r \in Requests : LoggedOK(r)' /\ StatusOK(r)'
    BY <2>1 DEF MwIInv, MwTypes, LoggedOK, StatusOK
  <2>3. \A t \in Routes : Gauged(t)' = Gauged(t) /\ metrics[t] \in Nat
    BY <2>1 DEF Gauged, MwIInv, MwTypes
  <2>4. GaugeExact'
    BY <2>1, <2>3 DEF MwIInv, GaugeExact
  <2> QED
    BY <2>2, <2>4 DEF MwIInv
<1> QED
  BY <1>1, BeforeHandler, AroundGauge, CountKeeps DEF MwNext

\* The invariant holds of every reachable state.
THEOREM MiddlewareInvariant == MwSpec => []MwIInv
<1>1. MwInit => MwIInv
  <2> SUFFICES ASSUME MwInit PROVE MwIInv
    OBVIOUS
  <2>1. /\ request \in [Requests -> MwRequests]
        /\ \A r \in Requests : request[r].at = "new" /\ request[r].status = 200
    <3> DEFINE News == {[at |-> "new", route |-> t, status |-> 200, panic |-> FALSE]
                          : t \in Routes \cup {NoRoute}}
    <3>1. ASSUME NEW t \in Routes \cup {NoRoute}, NEW q, q = [at |-> "new", route |-> t, status |-> 200, panic |-> FALSE]
          PROVE  q \in MwRequests /\ q.at = "new" /\ q.status = 200
      BY <3>1 DEF MwRequests
    <3>2. request \in [Requests -> News]
      BY DEF MwInit
    <3>3. \A q \in News : q \in MwRequests /\ q.at = "new" /\ q.status = 200
      BY <3>1
    <3> HIDE DEF News
    <3> QED
      BY <3>2, <3>3
  <2>2. \A t \in Routes : Gauged(t) = {} /\ Cardinality({}) = 0
    BY <2>1, FS_EmptySet DEF Gauged
  <2>3. MwTypes /\ \A r \in Requests : LoggedOK(r) /\ StatusOK(r)
    BY <2>1 DEF MwInit, MwTypes, LoggedOK, StatusOK
  <2>4. GaugeExact
    BY <2>2 DEF MwInit, GaugeExact
  <2> QED
    BY <2>3, <2>4 DEF MwIInv
<1> QED
  BY <1>1, MwNextIInv, PTL DEF MwSpec

\* The gauge shows exactly the requests that have been through a handler, those
\* that panicked too, and never goes back; the log has an end for each start
\* (httpgauge.go:60-76, requestlog.go:29-43).
THEOREM GaugeAndLogAlwaysAgree == MwSpec => []GaugeAndLogAgree
<1>1. MwIInv => GaugeAndLogAgree
  BY DEF MwIInv, GaugeExact, LoggedOK, Gauged, GaugeAndLogAgree
<1> QED
  BY MiddlewareInvariant, <1>1, PTL
=============================================================================
