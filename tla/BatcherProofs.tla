--------------------------- MODULE BatcherProofs ---------------------------
(* Proofs about the batcher, for any goroutines and any number of Stores.   *)
EXTENDS Batcher, SetLemmas

---------------------------------------------------------------------------
(* The inductive invariant.  The batch that newcomers join goes through    *)
(* five phases; those it was before have a reading of their own.           *)

Members(i) == {g \in Loaders : loc[g] = i}
Solos == {g \in Loaders : loadPc[g] \in {"soloLoad", "soloRelock"}}
Runners == {g \in Loaders : loadPc[g] \in {"onceLoad", "onceRelock"}}
Now == batch[Current]

\* Nobody is at work.
Fresh == /\ Now = NewBatch
         /\ Members(Current) = {} /\ Solos = {} /\ Runners = {}
         /\ ~mucomp

\* s has found nobody at work and holds mucomp.
StartingOf(s) == /\ Members(Current) = {s} /\ loadPc[s] = "branch"
                 /\ Now = [NewBatch EXCEPT !.wg = 1, !.cnt = 1]
                 /\ Solos = {} /\ Runners = {}
                 /\ mucomp

\* s reads for itself; who joins waits, and is counted.
AloneOf(s) == /\ Solos = {s} /\ loc[s] = Current
              /\ \A h \in Members(Current) \ {s} : loadPc[h] = "wait"
              /\ Now.wg = 1 /\ Now.wgres = 0 /\ Now.once = "new" /\ Now.isComp /\ ~Now.isEnd
              /\ Now.cnt = Cardinality(Members(Current))
              /\ Runners = {}
              /\ ~mucomp

\* Those who waited have mucomp between them: one will run the Once.
Handed == /\ Members(Current) # {}
          /\ \A h \in Members(Current) : loadPc[h] \in {"wait", "branch", "once"}
          /\ Now.wg = 0 /\ Now.wgres = 1 /\ Now.once = "new" /\ Now.isComp /\ Now.isEnd
          /\ Solos = {} /\ Runners = {}
          /\ mucomp

\* r reads for an older batch; who joins this one waits, and is counted.
BusyOf(r) == /\ Runners = {r} /\ loc[r] # Current
             /\ \A h \in Members(Current) : loadPc[h] = "wait"
             /\ Now.wg = 1 /\ Now.wgres = 1 /\ Now.once = "new" /\ Now.isComp /\ Now.isEnd
             /\ Now.cnt = Cardinality(Members(Current))
             /\ Solos = {}
             /\ ~mucomp

Phase == \/ Fresh \/ Handed
         \/ \E s \in Loaders : StartingOf(s) \/ AloneOf(s) \/ BusyOf(s)

\* A batch that Once has begun: one of it reads, or its result is there, and
\* is no older than any call of it.
OldOK(i) ==
  /\ Members(i) # {} /\ batch[i].wg = 0 /\ batch[i].isEnd
  /\ \A h \in Members(i) : loadPc[h] \in {"wait", "branch", "once", "onceLoad", "onceRelock", "waitRes"}
  /\ \/ /\ batch[i].once = "running" /\ batch[i].wgres = 1
        /\ Members(i) \cap Runners # {} /\ \A h \in Members(i) : loadPc[h] # "waitRes"
     \/ batch[i].once = "done" /\ batch[i].wgres = 0 /\ Members(i) \cap Runners = {}
  /\ batch[i].once = "done" \/ (\E r \in Members(i) : loadPc[r] = "onceRelock")
       => \A h \in Members(i) : start[h] <= batch[i].res

\* A reading is no older than the calls it is for.
ReadingOK(g) ==
  /\ loc[g] = None <=> loadPc[g] \in {"idle", "enter"}
  /\ start[g] <= value
  /\ g \in reading => loadPc[g] \in {"soloLoad", "onceLoad"}
  /\ g \in reading /\ loadPc[g] = "soloLoad" => start[g] <= val[g]
  /\ g \in reading /\ loadPc[g] = "onceLoad" => \A h \in Members(loc[g]) : start[h] <= val[g]
  /\ loadPc[g] = "soloRelock" => start[g] <= val[g]

IInv == /\ BatcherTypeOK /\ Phase
        /\ \A g \in Loaders : ReadingOK(g)
        /\ \A i \in DOMAIN batch \ {Current} : OldOK(i)

---------------------------------------------------------------------------
(* Which phase a goroutine is in.                                          *)

\* Some facts that every step needs.
LEMMA Basics ==
  ASSUME IInv
  PROVE  /\ Current = 0 /\ None = -1 /\ None # Current
         /\ IsFiniteSet(Loaders) /\ MaxStores \in Nat /\ Cardinality(Loaders) \in Nat
         /\ Current \in DOMAIN batch /\ \A i \in DOMAIN batch : i \in Nat /\ i # None /\ batch[i] \in Batch
         /\ \A g \in Loaders : /\ loc[g] \in {None} \cup DOMAIN batch
                               /\ loadPc[g] \notin {"idle", "enter"} => loc[g] \in DOMAIN batch /\ loc[g] # None
                               /\ loadPc[g] \in {"idle", "enter"} => loc[g] = None
                               /\ val[g] \in 0..MaxStores /\ start[g] \in 0..MaxStores /\ start[g] <= value
                               /\ loadPc[g] \in LoadPCs
         /\ value \in 0..MaxStores
<1>1. IsFiniteSet(Loaders) /\ MaxStores \in Nat /\ Cardinality(Loaders) \in Nat
  BY BatcherAssumption, FS_CardinalityType
<1>2. Current = 0 /\ None = -1 /\ None # Current
  BY DEF Current, None
<1>3. Current \in DOMAIN batch /\ \A i \in DOMAIN batch : i \in Nat /\ i # None /\ batch[i] \in Batch
  BY <1>1, <1>2 DEF IInv, BatcherTypeOK, Ids
<1> QED
  BY <1>1, <1>2, <1>3 DEF IInv, BatcherTypeOK, ReadingOK

\* Who reads alone, who runs the Once of an older batch, and who may begin.
LEMMA PhaseOf ==
  ASSUME IInv, NEW g \in Loaders
  PROVE  /\ loadPc[g] \in {"soloLoad", "soloRelock"} => AloneOf(g)
         /\ loadPc[g] \in {"onceLoad", "onceRelock"} => BusyOf(g)
         /\ loadPc[g] = "branch" /\ ~Mine(g).isEnd => StartingOf(g)
         /\ loadPc[g] = "once" /\ loc[g] = Current => Handed
<1>1. CASE loadPc[g] \in {"soloLoad", "soloRelock"}
  <2>1. g \in Solos
    BY <1>1 DEF Solos
  <2>2. PICK s \in Loaders : AloneOf(s)
    BY <2>1 DEF IInv, Phase, Fresh, Handed, StartingOf, BusyOf
  <2>3. s = g
    BY <2>1, <2>2 DEF AloneOf
  <2> QED
    BY <1>1, <2>2, <2>3
<1>2. CASE loadPc[g] \in {"onceLoad", "onceRelock"}
  <2>1. g \in Runners
    BY <1>2 DEF Runners
  <2>2. PICK s \in Loaders : BusyOf(s)
    BY <2>1 DEF IInv, Phase, Fresh, Handed, StartingOf, AloneOf
  <2>3. s = g
    BY <2>1, <2>2 DEF BusyOf
  <2> QED
    BY <1>2, <2>2, <2>3
<1>3. CASE loadPc[g] \in {"branch", "once"}
  <2>1. loc[g] \in DOMAIN batch
    BY <1>3, Basics
  <2>2. CASE loc[g] = Current
    <3>1. g \in Members(Current) /\ Mine(g) = Now
      BY <2>2 DEF Members, Mine, Now
    <3>2. \/ Handed
          \/ \E s \in Loaders : StartingOf(s)
      BY <1>3, <3>1 DEF IInv, Phase, Fresh, AloneOf, BusyOf, Solos
    <3>3. ASSUME NEW s \in Loaders, StartingOf(s) PROVE g = s /\ loadPc[g] = "branch"
      BY <3>1, <3>3 DEF StartingOf
    <3> QED
      BY <1>3, <3>1, <3>2, <3>3 DEF Handed
  <2>3. CASE loc[g] # Current
    BY <1>3, <2>1, <2>3 DEF IInv, OldOK, Mine
  <2> QED
    BY <2>2, <2>3
<1> QED
  BY <1>1, <1>2, <1>3

\* Whoever finds mucomp free finds nobody at work or is counted with those who wait.
LEMMA FreeMutex ==
  ASSUME IInv, ~mucomp
  PROVE  Fresh \/ \E s \in Loaders : AloneOf(s) \/ BusyOf(s)
BY DEF IInv, Phase, Handed, StartingOf

\* The older batch of the goroutine that reads for it.
LEMMA OldOf ==
  ASSUME IInv, NEW g \in Loaders, loadPc[g] \notin {"idle", "enter"}, loc[g] # Current
  PROVE  loc[g] \in DOMAIN batch \ {Current} /\ OldOK(loc[g]) /\ g \in Members(loc[g])
BY Basics DEF IInv, Members

\* At first nobody is at work.
LEMMA InitIInv == BatcherInit => IInv
<1> SUFFICES ASSUME BatcherInit PROVE IInv
  OBVIOUS
<1>1. Cardinality(Loaders) \in Nat
  BY BatcherAssumption, FS_CardinalityType
<1>2. NewBatch \in Batch
  BY <1>1, BatcherAssumption DEF NewBatch, Batch
<1>3. BatcherTypeOK
  <2>1. Current \in DOMAIN batch /\ DOMAIN batch \subseteq Ids /\ \A i \in DOMAIN batch : batch[i] = NewBatch
    BY <1>1 DEF BatcherInit, Current, Ids
  <2>2. \A i \in DOMAIN batch : batch[i] \in Batch
    BY <1>2, <2>1
  <2>3. value \in 0..MaxStores /\ val \in [Loaders -> 0..MaxStores] /\ start \in [Loaders -> 0..MaxStores]
    BY BatcherAssumption DEF BatcherInit
  <2>4. loc \in [Loaders -> {None} \cup DOMAIN batch]
    BY DEF BatcherInit
  <2>5. loadPc \in [Loaders -> LoadPCs] /\ reading \subseteq Loaders /\ mucomp \in BOOLEAN
    BY DEF BatcherInit, LoadPCs
  <2> QED
    BY <2>1, <2>2, <2>3, <2>4, <2>5 DEF BatcherTypeOK
<1>4. Fresh
  BY DEF BatcherInit, Fresh, Now, Members, Solos, Runners, Current, None
<1> QED
  BY <1>3, <1>4, BatcherAssumption DEF BatcherInit, IInv, Phase, ReadingOK

---------------------------------------------------------------------------
(* Steps that leave the batches and mucomp as they are.                    *)

\* Where such a step may lead g.
Moves(g) ==
  \/ loadPc' = loadPc
  \/ loadPc[g] = "idle" /\ LoadGoto(g, "enter")
  \/ loadPc[g] = "soloLoad" /\ LoadGoto(g, "soloRelock")
  \/ loadPc[g] = "wait" /\ Mine(g).wg = 0 /\ LoadGoto(g, "branch")
  \/ loadPc[g] = "branch" /\ Mine(g).isEnd /\ LoadGoto(g, "once")
  \/ loadPc[g] = "once" /\ Mine(g).once = "done" /\ LoadGoto(g, "waitRes")

\* A step that touches no batch and no mutex.
LEMMA QuietInv ==
  ASSUME IInv, NEW g \in Loaders, Moves(g), UNCHANGED <<batch, loc, mucomp>>,
         value' \in 0..MaxStores, reading' \subseteq Loaders,
         val' \in [Loaders -> 0..MaxStores], start' \in [Loaders -> 0..MaxStores],
         \A h \in Loaders : loc[h] # None => start'[h] = start[h],
         \A h \in Loaders : ReadingOK(h)'
  PROVE  IInv'
<1>1. /\ loadPc' \in [Loaders -> LoadPCs] /\ \A h \in Loaders \ {g} : loadPc'[h] = loadPc[h]
      /\ \/ loadPc'[g] = loadPc[g]
         \/ loadPc[g] = "idle" /\ loadPc'[g] = "enter"
         \/ loadPc[g] = "soloLoad" /\ loadPc'[g] = "soloRelock"
         \/ loadPc[g] = "wait" /\ Mine(g).wg = 0 /\ loadPc'[g] = "branch"
         \/ loadPc[g] = "branch" /\ Mine(g).isEnd /\ loadPc'[g] = "once"
         \/ loadPc[g] = "once" /\ Mine(g).once = "done" /\ loadPc'[g] = "waitRes"
  BY DEF IInv, BatcherTypeOK, Moves, LoadGoto, LoadPCs
<1>2. BatcherTypeOK'
  BY <1>1 DEF IInv, BatcherTypeOK
<1>3. Solos' = Solos /\ Runners' = Runners /\ (\A i : Members(i)' = Members(i)) /\ Now' = Now
  BY <1>1 DEF Solos, Runners, Members, Now
<1>4. Phase'
  <2>1. CASE Fresh
    BY <1>3, <2>1 DEF Fresh, Phase
  <2>2. CASE Handed
    <3>1. \A h \in Members(Current) : loadPc'[h] \in {"wait", "branch", "once"}
      BY <1>1, <2>2 DEF Handed, Members, Mine, Now
    <3> QED
      BY <1>3, <2>2, <3>1 DEF Handed, Phase
  <2>3. ASSUME NEW s \in Loaders, StartingOf(s) PROVE Phase'
    <3>1. loadPc'[s] = "branch"
      BY <1>1, <2>3 DEF StartingOf, Members, Mine, Now, NewBatch
    <3> QED
      BY <1>3, <2>3, <3>1 DEF StartingOf, Phase
  <2>4. ASSUME NEW s \in Loaders, AloneOf(s) PROVE Phase'
    <3>1. \A h \in Members(Current) \ {s} : loadPc'[h] = "wait"
      BY <1>1, <2>4 DEF AloneOf, Members, Mine, Now
    <3> QED
      BY <1>3, <2>4, <3>1 DEF AloneOf, Phase
  <2>5. ASSUME NEW s \in Loaders, BusyOf(s) PROVE Phase'
    <3>1. \A h \in Members(Current) : loadPc'[h] = "wait"
      BY <1>1, <2>5 DEF BusyOf, Members, Mine, Now
    <3> QED
      BY <1>3, <2>5, <3>1 DEF BusyOf, Phase
  <2> QED
    BY <2>1, <2>2, <2>3, <2>4, <2>5 DEF IInv, Phase
<1>5. ASSUME NEW i \in DOMAIN batch \ {Current} PROVE OldOK(i)'
  <2>1. OldOK(i)
    BY DEF IInv
  <2>2. /\ \A h \in Members(i) : loadPc'[h] \in {"wait", "branch", "once", "onceLoad", "onceRelock", "waitRes"}
        /\ batch[i].once = "running" => \A h \in Members(i) : loadPc'[h] # "waitRes"
        /\ \A h \in Members(i) : loadPc'[h] = "onceRelock" => loadPc[h] = "onceRelock"
    BY <1>1, <2>1 DEF OldOK, Members, Mine
  <2>3. \A h \in Members(i) : start'[h] = start[h]
    BY Basics DEF Members
  <2> QED
    BY <1>3, <2>1, <2>2, <2>3 DEF OldOK
<1> QED
  BY <1>2, <1>4, <1>5 DEF IInv

\* Stores, calls, the wait group and the Once let go.
LEMMA QuietSteps ==
  ASSUME IInv,
         \/ Store
         \/ \E g \in Loaders : CallLoad(g) \/ WaitWg(g) \/ ToOnce(g) \/ OnceFollows(g)
  PROVE  IInv'
<1> USE BatcherAssumption
<1>1. CASE Store
  <2>1. value + 1 \in 0..MaxStores /\ value \in Int
    BY <1>1, Basics DEF Store
  <2>2. \A h \in Loaders : ReadingOK(h)'
    BY <1>1, <2>1, Basics DEF Store, IInv, ReadingOK, Members
  <2>3. CASE \E g \in Loaders : TRUE
    BY <1>1, <2>1, <2>2, <2>3, QuietInv DEF Store, Moves, IInv, BatcherTypeOK
  <2>4. CASE Loaders = {}
    <3>1. BatcherTypeOK'
      BY <1>1, <2>1 DEF IInv, BatcherTypeOK, Store
    <3>2. Phase'
      BY <1>1, <2>4 DEF IInv, Phase, Fresh, Handed, Members, Solos, Runners, Now, Store
    <3>3. DOMAIN batch \ {Current} = {}
      BY <2>4 DEF IInv, OldOK, Members
    <3> QED
      BY <1>1, <2>4, <3>1, <3>2, <3>3 DEF IInv, Store
  <2> QED
    BY <2>3, <2>4
<1>2. ASSUME NEW g \in Loaders, CallLoad(g) PROVE IInv'
  <2>1. /\ loadPc[g] = "idle" /\ loadPc'[g] = "enter" /\ \A h \in Loaders \ {g} : loadPc'[h] = loadPc[h]
        /\ start'[g] = value /\ start' \in [Loaders -> 0..MaxStores]
        /\ \A h \in Loaders \ {g} : start'[h] = start[h]
        /\ loc[g] = None /\ g \notin reading /\ value \in Int
    BY <1>2, Basics DEF CallLoad, LoadGoto, IInv, BatcherTypeOK, ReadingOK
  <2>2. ASSUME NEW h \in Loaders PROVE ReadingOK(h)'
    <3>1. ReadingOK(h)
      BY DEF IInv
    <3>2. h \in reading => \A k \in Members(loc[h]) : start'[k] = start[k]
      BY <2>1, <3>1, Basics DEF Members, ReadingOK
    <3> QED
      BY <1>2, <2>1, <3>1, <3>2 DEF CallLoad, ReadingOK, Members
  <2> QED
    BY <1>2, <2>1, <2>2, QuietInv DEF CallLoad, Moves, IInv, BatcherTypeOK
<1>3. ASSUME NEW g \in Loaders, WaitWg(g) \/ ToOnce(g) \/ OnceFollows(g) PROVE IInv'
  <2>1. /\ Moves(g) /\ UNCHANGED <<value, reading, mucomp, batch, loc, val, start>>
        /\ loadPc[g] \in {"wait", "branch", "once"} /\ loadPc'[g] \in {"branch", "once", "waitRes"}
        /\ \A h \in Loaders \ {g} : loadPc'[h] = loadPc[h]
    BY <1>3 DEF WaitWg, ToOnce, OnceFollows, Moves, LoadGoto, IInv, BatcherTypeOK
  <2>2. ASSUME NEW h \in Loaders PROVE ReadingOK(h)'
    BY <2>1 DEF IInv, ReadingOK, Members
  <2> QED
    BY <2>1, <2>2, QuietInv DEF IInv, BatcherTypeOK
<1> QED
  BY <1>1, <1>2, <1>3

\* A reading begins, or the one of a goroutine alone ends.
LEMMA LoadInv ==
  ASSUME IInv, NEW g \in Loaders, BeginLoad(g) \/ EndSoloLoad(g)
  PROVE  IInv'
<1>1. CASE BeginLoad(g)
  <2>1. /\ loadPc' = loadPc /\ reading' = reading \cup {g} /\ val'[g] = value
        /\ val' \in [Loaders -> 0..MaxStores]
        /\ \A h \in Loaders \ {g} : val'[h] = val[h]
        /\ loadPc[g] \in {"soloLoad", "onceLoad"} /\ UNCHANGED <<value, mucomp, batch, loc, start>>
    BY <1>1 DEF BeginLoad, IInv, BatcherTypeOK
  <2>2. ASSUME NEW h \in Loaders PROVE ReadingOK(h)'
    <3>1. ReadingOK(h) /\ \A k \in Loaders : start[k] <= value
      BY Basics DEF IInv
    <3>2. \A i : Members(i)' = Members(i) /\ Members(i) \subseteq Loaders
      BY <2>1 DEF Members
    <3> QED
      BY <2>1, <3>1, <3>2 DEF ReadingOK
  <2> QED
    BY <2>1, <2>2, QuietInv DEF Moves, IInv, BatcherTypeOK
<1>2. CASE EndSoloLoad(g)
  <2>1. /\ LoadGoto(g, "soloRelock") /\ reading' = reading \ {g} /\ g \in reading /\ loadPc[g] = "soloLoad"
        /\ UNCHANGED <<value, mucomp, batch, loc, val, start>>
        /\ loadPc'[g] = "soloRelock" /\ \A h \in Loaders \ {g} : loadPc'[h] = loadPc[h]
    BY <1>2 DEF EndSoloLoad, LoadGoto, IInv, BatcherTypeOK
  <2>2. ASSUME NEW h \in Loaders PROVE ReadingOK(h)'
    BY <2>1 DEF IInv, ReadingOK, Members
  <2> QED
    BY <2>1, <2>2, QuietInv DEF Moves, IInv, BatcherTypeOK
<1> QED
  BY <1>1, <1>2

---------------------------------------------------------------------------
(* Steps of those who begin.                                               *)

\* A record with other fields.
LEMMA BatchFields ==
  ASSUME NEW b \in Batch, NEW w \in 0..1, NEW v \in 0..1
  PROVE  /\ \A n \in 0..Cardinality(Loaders) : [b EXCEPT !.wg = w, !.cnt = n] \in Batch
         /\ [b EXCEPT !.isComp = TRUE] \in Batch
         /\ [b EXCEPT !.isEnd = TRUE, !.wgres = v, !.wg = w] \in Batch
         /\ [b EXCEPT !.once = "running"] \in Batch
         /\ [b EXCEPT !.wgres = v, !.once = "done"] \in Batch
         /\ [b EXCEPT !.wg = w] \in Batch
         /\ \A x \in 0..MaxStores : [b EXCEPT !.res = x] \in Batch
BY DEF Batch

\* Joining: the newcomer is counted, and holds mucomp if nobody is at work.
LEMMA JoinInv ==
  ASSUME IInv, NEW g \in Loaders, Join(g)
  PROVE  IInv'
<1> USE BatcherAssumption
<1>1. /\ loadPc[g] = "enter" /\ ~mucomp /\ loc[g] = None /\ g \notin Members(Current)
      /\ loc' = [loc EXCEPT ![g] = Current]
      /\ UNCHANGED <<value, reading, val, start>>
  BY Basics DEF Join, Members
<1>2. /\ loc'[g] = Current /\ \A h \in Loaders \ {g} : loc'[h] = loc[h]
      /\ Members(Current)' = Members(Current) \cup {g}
      /\ \A i : i # Current /\ i # None => Members(i)' = Members(i)
  BY <1>1 DEF IInv, BatcherTypeOK, Members
<1>3. /\ IsFiniteSet(Members(Current))
      /\ Cardinality(Members(Current) \cup {g}) = Cardinality(Members(Current)) + 1
      /\ Cardinality(Members(Current)) + 1 <= Cardinality(Loaders)
      /\ Cardinality(Members(Current)) \in Nat
  <2>1. Members(Current) \subseteq Loaders /\ Members(Current) \cup {g} \subseteq Loaders
    BY DEF Members
  <2>2. IsFiniteSet(Members(Current)) /\ Cardinality(Members(Current) \cup {g}) <= Cardinality(Loaders)
    BY <2>1, FS_Subset
  <2>3. Cardinality(Members(Current) \cup {g}) = Cardinality(Members(Current)) + 1
    BY <1>1, <2>2, FS_AddElement
  <2>4. Cardinality(Members(Current)) \in Nat
    BY <2>2, FS_CardinalityType
  <2> QED
    BY <2>2, <2>3, <2>4
<1>4. /\ Now.cnt = Cardinality(Members(Current))
      /\ (~Now.isComp <=> Fresh)
      /\ Now \in Batch
  <2>1. Fresh => Now.cnt = Cardinality(Members(Current)) /\ ~Now.isComp
    BY FS_EmptySet DEF Fresh, NewBatch
  <2> QED
    BY <1>1, <2>1, FreeMutex, Basics DEF AloneOf, BusyOf, Now
<1>5. ASSUME NEW b \in Batch, NEW to \in {"wait", "branch"}, batch' = [batch EXCEPT ![Current] = b], LoadGoto(g, to),
             mucomp' \in BOOLEAN, Phase'
      PROVE  IInv'
  <2>1. /\ DOMAIN batch' = DOMAIN batch /\ batch'[Current] = b
        /\ \A i \in DOMAIN batch \ {Current} : batch'[i] = batch[i]
    BY <1>5, Basics
  <2>2. /\ loadPc'[g] = to /\ \A h \in Loaders \ {g} : loadPc'[h] = loadPc[h]
        /\ loadPc' \in [Loaders -> LoadPCs]
    BY <1>5 DEF LoadGoto, IInv, BatcherTypeOK, LoadPCs
  <2>3. BatcherTypeOK'
    BY <1>1, <1>5, <2>1, <2>2 DEF IInv, BatcherTypeOK
  <2>4. ASSUME NEW h \in Loaders PROVE ReadingOK(h)'
    <3>1. ReadingOK(h)
      BY DEF IInv
    <3>2. CASE h = g
      BY <1>1, <1>2, <2>2, <3>1, <3>2, Basics DEF ReadingOK
    <3>3. CASE h # g
      <4>1. loc'[h] = loc[h] /\ loadPc'[h] = loadPc[h]
        BY <1>2, <2>2, <3>3
      <4>2. h \in reading /\ loadPc[h] = "onceLoad" => Members(loc[h])' = Members(loc[h])
        <5>1. ASSUME loadPc[h] = "onceLoad" PROVE loc[h] # Current /\ loc[h] # None
          BY <5>1, PhaseOf, Basics DEF BusyOf
        <5> QED
          BY <1>2, <4>1, <5>1 DEF Members
      <4> QED
        BY <1>1, <3>1, <4>1, <4>2 DEF ReadingOK, Members
    <3> QED
      BY <3>2, <3>3
  <2>5. ASSUME NEW i \in DOMAIN batch \ {Current} PROVE OldOK(i)'
    <3>1. OldOK(i) /\ Members(i)' = Members(i) /\ batch'[i] = batch[i] /\ g \notin Members(i)
      BY <1>1, <1>2, <2>1, Basics DEF IInv, Members
    <3>2. \A h \in Members(i) : loadPc'[h] = loadPc[h] /\ (h \in Runners' <=> h \in Runners)
      BY <2>2, <3>1 DEF Members, Runners
    <3> QED
      BY <1>1, <3>1, <3>2 DEF OldOK
  <2> QED
    BY <1>5, <2>1, <2>3, <2>4, <2>5 DEF IInv
<1>6. CASE Now.isComp
  <2>b. PICK b : b = [Now EXCEPT !.cnt = @ + 1]
    OBVIOUS
  <2>1. /\ batch' = [batch EXCEPT ![Current] = b] /\ LoadGoto(g, "wait") /\ UNCHANGED mucomp
    BY <1>6, <2>b DEF Join, Now
  <2>2. /\ b \in Batch /\ b.cnt = Cardinality(Members(Current) \cup {g}) /\ b.wg = Now.wg /\ b.wgres = Now.wgres
        /\ b.once = Now.once /\ b.isComp = Now.isComp /\ b.isEnd = Now.isEnd
    BY <1>3, <1>4, <2>b DEF Batch
  <2>3. Now' = b
    BY <2>1, Basics DEF Now
  <2>4. /\ loadPc'[g] = "wait" /\ \A h \in Loaders \ {g} : loadPc'[h] = loadPc[h]
        /\ Solos' = Solos /\ Runners' = Runners
    BY <1>1, <2>1 DEF LoadGoto, IInv, BatcherTypeOK, Solos, Runners
  <2>5. Phase'
    <3>1. ASSUME NEW s \in Loaders, AloneOf(s) PROVE AloneOf(s)'
      <4>1. s # g
        BY <1>1, <3>1 DEF AloneOf, Members
      <4>2. \A h \in Members(Current)' \ {s} : loadPc'[h] = "wait"
        BY <1>2, <2>4, <3>1 DEF AloneOf, Members
      <4> QED
        BY <1>2, <2>1, <2>2, <2>3, <2>4, <3>1, <4>1, <4>2 DEF AloneOf
    <3>2. ASSUME NEW s \in Loaders, BusyOf(s) PROVE BusyOf(s)'
      <4>1. s # g
        BY <1>1, <3>2 DEF BusyOf, Runners
      <4>2. \A h \in Members(Current)' : loadPc'[h] = "wait"
        BY <1>2, <2>4, <3>2 DEF BusyOf, Members
      <4> QED
        BY <1>2, <2>1, <2>2, <2>3, <2>4, <3>2, <4>1, <4>2 DEF BusyOf
    <3> QED
      BY <1>1, <1>4, <1>6, <3>1, <3>2, FreeMutex DEF Phase
  <2> QED
    BY <1>1, <1>5, <2>1, <2>2, <2>5 DEF IInv, BatcherTypeOK
<1>7. CASE ~Now.isComp
  <2> DEFINE b == [NewBatch EXCEPT !.wg = 1, !.cnt = 1]
  <2>1. Fresh
    BY <1>4, <1>7
  <2>2. /\ batch' = [batch EXCEPT ![Current] = b] /\ LoadGoto(g, "branch") /\ mucomp' = TRUE
    BY <1>7, <2>1 DEF Join, Fresh, Now, NewBatch
  <2>3. b \in Batch
    <3>1. 1 \in 0..Cardinality(Loaders) /\ 0 \in 0..Cardinality(Loaders) /\ 0 \in 0..MaxStores
      <4>1. Cardinality(Loaders) \in Nat
        BY FS_CardinalityType
      <4> QED
        BY <1>3, <4>1
    <3>2. NewBatch \in Batch
      BY <3>1 DEF NewBatch, Batch
    <3>3. 1 \in 0..1
      OBVIOUS
    <3> QED
      BY <3>1, <3>2, <3>3, BatchFields
  <2>4. Now' = b
    BY <2>2, Basics DEF Now
  <2>5. /\ loadPc'[g] = "branch" /\ \A h \in Loaders \ {g} : loadPc'[h] = loadPc[h]
        /\ Solos' = Solos /\ Runners' = Runners
    BY <1>1, <2>2 DEF LoadGoto, IInv, BatcherTypeOK, Solos, Runners
  <2>6. StartingOf(g)'
    BY <1>2, <2>1, <2>2, <2>4, <2>5 DEF StartingOf, Fresh
  <2> HIDE DEF b
  <2> QED
    BY <1>5, <2>2, <2>3, <2>6 DEF Phase
<1> QED
  BY <1>6, <1>7

---------------------------------------------------------------------------
(* Steps that change batches.                                              *)

\* An older batch that a step leaves alone is still in order.
LEMMA OldKept ==
  ASSUME NEW i, OldOK(i), Members(i)' = Members(i), batch'[i] = batch[i],
         \A h \in Members(i) : loadPc'[h] = loadPc[h] /\ start'[h] = start[h]
  PROVE  OldOK(i)'
<1>1. \A h \in Members(i) : h \in Runners' <=> h \in Runners
  BY DEF Members, Runners
<1> QED
  BY <1>1 DEF OldOK

\* A reading is as recent as it was if its batch has gained nobody.
LEMMA ReadingKept ==
  ASSUME NEW h \in Loaders, ReadingOK(h), value' = value, start'[h] = start[h],
         val'[h] = val[h], loc'[h] = None <=> loc[h] = None,
         loadPc'[h] = loadPc[h], h \in reading' <=> h \in reading,
         loadPc[h] = "onceLoad" =>
           \A k \in Members(loc[h])' : k \in Members(loc[h]) /\ start'[k] = start[k]
  PROVE  ReadingOK(h)'
BY DEF ReadingOK, Members

\* The first of all begins to read.
LEMMA StartSoloInv ==
  ASSUME IInv, NEW g \in Loaders, StartSolo(g)
  PROVE  IInv'
<1>1. StartingOf(g) /\ loc[g] = Current /\ Now \in Batch /\ loadPc[g] = "branch"
  <2>1. StartingOf(g)
    BY PhaseOf DEF StartSolo
  <2> QED
    BY <2>1, Basics DEF StartingOf, Members, Now
<1>2. PICK b : b = [Now EXCEPT !.isComp = TRUE]
  OBVIOUS
<1>3. /\ DOMAIN batch' = DOMAIN batch /\ batch'[Current] = b
      /\ \A i \in DOMAIN batch \ {Current} : batch'[i] = batch[i]
      /\ mucomp' = FALSE /\ UNCHANGED <<value, reading, loc, val, start>>
  BY <1>1, <1>2, Basics DEF StartSolo, Now
<1>4. /\ loadPc'[g] = "soloLoad" /\ \A h \in Loaders \ {g} : loadPc'[h] = loadPc[h]
      /\ loadPc' \in [Loaders -> LoadPCs]
  BY DEF StartSolo, LoadGoto, IInv, BatcherTypeOK, LoadPCs
<1>5. /\ b \in Batch /\ b.cnt = 1 /\ b.wg = 1 /\ b.wgres = 0 /\ b.once = "new" /\ b.isComp /\ ~b.isEnd
  BY <1>1, <1>2 DEF StartingOf, Batch, NewBatch
<1>6. BatcherTypeOK'
  BY <1>3, <1>4, <1>5 DEF IInv, BatcherTypeOK
<1>7. AloneOf(g)'
  <2>1. Members(Current)' = {g} /\ Cardinality({g}) = 1
    BY <1>1, <1>3, FS_Singleton DEF StartingOf, Members
  <2>2. Solos' = {g} /\ Runners' = {}
    BY <1>1, <1>4 DEF StartingOf, Solos, Runners
  <2> QED
    BY <1>1, <1>3, <1>4, <1>5, <2>1, <2>2 DEF AloneOf, Now
<1>8. ASSUME NEW h \in Loaders PROVE ReadingOK(h)'
  <2>1. ReadingOK(h) /\ g \notin reading
    BY <1>1 DEF IInv, ReadingOK
  <2>2. CASE h = g
    BY <1>1, <1>3, <1>4, <2>1, <2>2, Basics DEF ReadingOK
  <2>3. CASE h # g
    BY <1>3, <1>4, <2>1, <2>3 DEF ReadingOK, Members
  <2> QED
    BY <2>2, <2>3
<1>9. ASSUME NEW i \in DOMAIN batch \ {Current} PROVE OldOK(i)'
  <2>1. OldOK(i) /\ Members(i)' = Members(i) /\ \A h \in Members(i) : h \in Loaders \ {g}
    BY <1>1, <1>3 DEF IInv, Members
  <2> QED
    BY <1>3, <1>4, <2>1, OldKept
<1> QED
  BY <1>3, <1>6, <1>7, <1>8, <1>9 DEF IInv, Phase

\* The reading for a batch ends: it is no older than any call of the batch.
LEMMA EndOnceLoadInv ==
  ASSUME IInv, NEW g \in Loaders, EndOnceLoad(g)
  PROVE  IInv'
<1>1. /\ BusyOf(g) /\ loadPc[g] = "onceLoad" /\ g \in reading
      /\ loc[g] \in DOMAIN batch \ {Current} /\ OldOK(loc[g]) /\ g \in Members(loc[g])
      /\ val[g] \in 0..MaxStores
  BY PhaseOf, OldOf, Basics DEF EndOnceLoad, BusyOf
<1>2. PICK old : old = loc[g]
  OBVIOUS
<1>3. PICK b : b = [batch[old] EXCEPT !.res = val[g]]
  OBVIOUS
<1>4. /\ DOMAIN batch' = DOMAIN batch /\ batch'[old] = b
      /\ \A i \in DOMAIN batch \ {old} : batch'[i] = batch[i]
      /\ reading' = reading \ {g} /\ UNCHANGED <<value, mucomp, loc, start>>
  BY <1>1, <1>2, <1>3 DEF EndOnceLoad
<1>5. /\ loadPc'[g] = "onceRelock" /\ \A h \in Loaders \ {g} : loadPc'[h] = loadPc[h]
      /\ loadPc' \in [Loaders -> LoadPCs]
      /\ val'[g] = 0 /\ (\A h \in Loaders \ {g} : val'[h] = val[h])
      /\ val' \in [Loaders -> 0..MaxStores]
  BY BatcherAssumption DEF EndOnceLoad, LoadGoto, IInv, BatcherTypeOK, LoadPCs
<1>6. /\ b \in Batch /\ b.res = val[g] /\ b.wg = batch[old].wg /\ b.wgres = batch[old].wgres
      /\ b.once = batch[old].once /\ b.isEnd = batch[old].isEnd
  <2>1. batch[old] \in Batch
    BY <1>1, <1>2, Basics
  <2> QED
    BY <1>1, <1>3, <2>1 DEF Batch
<1>7. BatcherTypeOK'
  BY <1>4, <1>5, <1>6 DEF IInv, BatcherTypeOK
<1>8. BusyOf(g)'
  <2>1. Runners' = Runners /\ Solos' = Solos /\ Members(Current)' = Members(Current) /\ Now' = Now
    BY <1>1, <1>2, <1>4, <1>5, Basics DEF Runners, Solos, Members, Now
  <2>2. \A h \in Members(Current) : loadPc'[h] = "wait"
    BY <1>1, <1>5 DEF BusyOf, Members
  <2> QED
    BY <1>1, <1>4, <2>1, <2>2 DEF BusyOf
<1>9. ASSUME NEW h \in Loaders PROVE ReadingOK(h)'
  <2>1. ReadingOK(h)
    BY DEF IInv
  <2>2. CASE h = g
    BY <1>1, <1>4, <1>5, <2>1, <2>2, Basics DEF ReadingOK
  <2>3. CASE h # g
    BY <1>4, <1>5, <2>1, <2>3 DEF ReadingOK, Members
  <2> QED
    BY <2>2, <2>3
<1>10. OldOK(old)'
  <2>1. Members(old)' = Members(old) /\ Runners' = Runners /\ g \in Members(old) \cap Runners
    BY <1>1, <1>2, <1>4, <1>5 DEF Members, Runners
  <2>2. /\ OldOK(old) /\ batch[old].once = "running"
    BY <1>1, <1>2, <2>1 DEF OldOK
  <2>3. \A h \in Members(old) : start[h] <= b.res
    BY <1>1, <1>2, <1>6 DEF IInv, ReadingOK
  <2>4. \A h \in Members(old) : /\ loadPc'[h] \in {"wait", "branch", "once", "onceLoad", "onceRelock", "waitRes"}
                                /\ loadPc'[h] # "waitRes"
    BY <1>5, <2>2 DEF OldOK, Members
  <2> QED
    BY <1>4, <1>6, <2>1, <2>2, <2>3, <2>4 DEF OldOK
<1>11. ASSUME NEW i \in DOMAIN batch \ {Current, old} PROVE OldOK(i)'
  <2>1. OldOK(i) /\ Members(i)' = Members(i) /\ \A h \in Members(i) : h \in Loaders \ {g}
    BY <1>1, <1>2, <1>4 DEF IInv, Members
  <2> QED
    BY <1>4, <1>5, <2>1, OldKept
<1> QED
  BY <1>4, <1>7, <1>8, <1>9, <1>10, <1>11 DEF IInv, Phase

\* Load returns: what is left of the batches, once the phase is known.
LEMMA LeaveInv ==
  ASSUME IInv, NEW g \in Loaders, loadPc[g] \in {"soloRelock", "waitRes"},
         NEW b, DOMAIN b = DOMAIN batch, b[Current] \in Batch,
         \A i \in DOMAIN batch \ {Current} : b[i] = batch[i],
         Leave(g, b), UNCHANGED <<value, reading>>, mucomp' \in BOOLEAN,
         ASSUME Members(Current)' = Members(Current) \ {g}, Now' = b[Current],
                Solos' = Solos \ {g}, Runners' = Runners, loc'[g] = None,
                \A h \in Loaders \ {g} : loadPc'[h] = loadPc[h] /\ loc'[h] = loc[h]
         PROVE  Phase'
  PROVE  IInv'
<1> USE BatcherAssumption
<1>1. PICK left : left = {i \in DOMAIN b : i = Current \/ \E h \in Loaders \ {g} : loc[h] = i}
  OBVIOUS
<1>2. /\ DOMAIN batch' = left /\ left \subseteq DOMAIN batch /\ Current \in left
      /\ \A i \in left : batch'[i] = b[i]
  BY <1>1, Basics DEF Leave, Restrict
<1>3. /\ loc'[g] = None /\ loadPc'[g] = "idle" /\ val'[g] = 0 /\ start'[g] = 0
      /\ \A h \in Loaders \ {g} : loc'[h] = loc[h] /\ loadPc'[h] = loadPc[h] /\ val'[h] = val[h] /\ start'[h] = start[h]
      /\ loadPc' \in [Loaders -> LoadPCs]
      /\ val' \in [Loaders -> 0..MaxStores] /\ start' \in [Loaders -> 0..MaxStores]
  BY DEF Leave, LoadGoto, IInv, BatcherTypeOK, LoadPCs
<1>4. \A i : i # None => Members(i)' = Members(i) \ {g}
  BY <1>3 DEF Members
<1>5. BatcherTypeOK'
  <2>1. \A h \in Loaders : loc'[h] \in {None} \cup left
    BY <1>1, <1>3, Basics
  <2>2. loc' \in [Loaders -> {None} \cup DOMAIN batch']
    BY <1>2, <2>1 DEF Leave, IInv, BatcherTypeOK
  <2>3. \A i \in left : b[i] \in Batch
    BY <1>2, Basics
  <2> QED
    BY <1>2, <1>3, <2>2, <2>3 DEF IInv, BatcherTypeOK
<1>6. Solos' = Solos \ {g} /\ Runners' = Runners
  BY <1>3 DEF Solos, Runners
<1>7. Phase'
  BY <1>2, <1>3, <1>4, <1>6, Basics DEF Now
<1>8. ASSUME NEW h \in Loaders PROVE ReadingOK(h)'
  <2>1. ReadingOK(h) /\ g \notin reading
    BY DEF IInv, ReadingOK
  <2>2. CASE h = g
    BY <1>3, <2>1, <2>2, Basics DEF ReadingOK
  <2>3. CASE h # g
    <3>1. loadPc[h] = "onceLoad" => \A k \in Members(loc[h])' : k \in Members(loc[h]) /\ start'[k] = start[k]
      <4>1. loadPc[h] = "onceLoad" => Members(loc[h])' = Members(loc[h]) \ {g}
        BY <1>3, <2>3, Basics DEF Members
      <4> QED
        BY <1>3, <4>1 DEF Members
    <3> QED
      BY <1>3, <2>1, <2>3, <3>1, ReadingKept
  <2> QED
    BY <2>2, <2>3
<1>9. ASSUME NEW i \in left \ {Current} PROVE OldOK(i)'
  <2>1. OldOK(i) /\ batch'[i] = batch[i] /\ i # None
    BY <1>2, Basics DEF IInv
  <2>2. Members(i)' = Members(i) \ {g} /\ g \notin Runners
    BY <1>4, <2>1 DEF Runners
  <2>3. \A h \in Members(i)' : loadPc'[h] = loadPc[h] /\ start'[h] = start[h] /\ h \in Members(i)
    BY <1>3, <2>2 DEF Members
  <2>4. Members(i)' # {}
    BY <1>1, <1>3, <2>1 DEF Members
  <2>5. (Members(i) \cap Runners)' = Members(i) \cap Runners
    BY <1>6, <2>2
  <2> QED
    BY <2>1, <2>3, <2>4, <2>5 DEF OldOK
<1> QED
  BY <1>2, <1>5, <1>7, <1>8, <1>9 DEF IInv

\* Who has read for itself and for nobody else resets the Batcher.
LEMMA SoloAloneInv ==
  ASSUME IInv, NEW g \in Loaders, SoloAlone(g)
  PROVE  IInv'
<1>1. AloneOf(g) /\ loc[g] = Current /\ g \in Members(Current) /\ Mine(g) = Now
  <2>1. AloneOf(g)
    BY PhaseOf DEF SoloAlone
  <2> QED
    BY <2>1 DEF AloneOf, Members, Mine, Now
<1>2. Members(Current) = {g}
  <2>1. IsFiniteSet(Members(Current)) /\ Cardinality(Members(Current)) = 1
    <3>1. IsFiniteSet(Members(Current))
      BY BatcherAssumption, FS_Subset DEF Members
    <3> QED
      BY <1>1, <3>1 DEF SoloAlone, AloneOf
  <2>2. PICK x : Members(Current) = {x}
    BY <2>1, FS_Singleton
  <2> QED
    BY <1>1, <2>2
<1>3. PICK b : b = [batch EXCEPT ![Current] = NewBatch]
  OBVIOUS
<1>4. DOMAIN b = DOMAIN batch /\ b[Current] = NewBatch /\ \A i \in DOMAIN batch \ {Current} : b[i] = batch[i]
  BY <1>3, Basics
<1>5. NewBatch \in Batch
  BY BatcherAssumption, FS_CardinalityType DEF NewBatch, Batch
<1>6. ASSUME Members(Current)' = Members(Current) \ {g}, Now' = b[Current],
             Solos' = Solos \ {g}, Runners' = Runners
      PROVE  Fresh'
  BY <1>1, <1>2, <1>4, <1>6 DEF SoloAlone, Fresh, AloneOf
<1>7. loadPc[g] = "soloRelock" /\ Leave(g, b) /\ UNCHANGED <<value, reading, mucomp>> /\ mucomp \in BOOLEAN
  BY <1>3 DEF SoloAlone, IInv, BatcherTypeOK
<1> QED
  BY <1>4, <1>5, <1>6, <1>7, LeaveInv DEF Phase

\* Who has read for itself wakes those who joined, and leaves them mucomp.
LEMMA SoloHandsOverInv ==
  ASSUME IInv, NEW g \in Loaders, SoloHandsOver(g)
  PROVE  IInv'
<1>1. AloneOf(g) /\ loc[g] = Current /\ g \in Members(Current) /\ Mine(g) = Now /\ Now \in Batch
  <2>1. AloneOf(g)
    BY PhaseOf DEF SoloHandsOver
  <2> QED
    BY <2>1, Basics DEF AloneOf, Members, Mine, Now
<1>2. Members(Current) \ {g} # {}
  <2>1. Cardinality(Members(Current)) # 1
    BY <1>1 DEF SoloHandsOver, AloneOf
  <2>2. Members(Current) # {g}
    BY <2>1, FS_Singleton
  <2> QED
    BY <1>1, <2>2
<1>3. PICK n : n = [Now EXCEPT !.isEnd = TRUE, !.wgres = @ + 1, !.wg = @ - 1]
  OBVIOUS
<1>4. /\ n \in Batch /\ n.wg = 0 /\ n.wgres = 1 /\ n.once = "new" /\ n.isComp /\ n.isEnd
  <2>1. Now.wgres + 1 = 1 /\ Now.wg - 1 = 0 /\ Now.once = "new" /\ Now.isComp
    BY <1>1 DEF AloneOf
  <2>2. n = [Now EXCEPT !.isEnd = TRUE, !.wgres = 1, !.wg = 0]
    BY <1>3, <2>1
  <2>3. 0 \in 0..1 /\ 1 \in 0..1
    OBVIOUS
  <2>4. n \in Batch
    BY <1>1, <2>2, <2>3, BatchFields
  <2>5. n.wg = 0 /\ n.wgres = 1 /\ n.once = Now.once /\ n.isComp = Now.isComp /\ n.isEnd = TRUE
    BY <1>1, <2>2 DEF Batch
  <2> QED
    BY <2>1, <2>4, <2>5
<1>5. PICK b : b = [batch EXCEPT ![loc[g]].isEnd = TRUE, ![loc[g]].wgres = @ + 1, ![loc[g]].wg = @ - 1]
  OBVIOUS
<1>6. DOMAIN b = DOMAIN batch /\ b[Current] = n /\ \A i \in DOMAIN batch \ {Current} : b[i] = batch[i]
  BY <1>1, <1>3, <1>5, Basics DEF Now
<1>7. ASSUME Members(Current)' = Members(Current) \ {g}, Now' = b[Current],
             Solos' = Solos \ {g}, Runners' = Runners,
             \A h \in Loaders \ {g} : loadPc'[h] = loadPc[h] /\ loc'[h] = loc[h]
      PROVE  Handed'
  <2>1. \A h \in Members(Current) \ {g} : loadPc'[h] = "wait"
    BY <1>1, <1>7 DEF AloneOf, Members
  <2> QED
    BY <1>1, <1>2, <1>4, <1>6, <1>7, <2>1 DEF SoloHandsOver, Handed, AloneOf
<1>8. loadPc[g] = "soloRelock" /\ Leave(g, b) /\ UNCHANGED <<value, reading>> /\ mucomp' \in BOOLEAN
  BY <1>5 DEF SoloHandsOver
<1> QED
  BY <1>4, <1>6, <1>7, <1>8, LeaveInv DEF Phase

\* Only those of an older batch wait for a result.
LEMMA WaitersAreOld ==
  ASSUME IInv, NEW g \in Loaders, loadPc[g] = "waitRes"
  PROVE  loc[g] # Current
<1> SUFFICES ASSUME loc[g] = Current PROVE FALSE
  OBVIOUS
<1>1. g \in Members(Current) /\ g \notin Solos
  BY DEF Members, Solos
<1> QED
  BY <1>1 DEF IInv, Phase, Fresh, Handed, StartingOf, AloneOf, BusyOf

\* Who has the result returns it.
LEMMA ReturnResInv ==
  ASSUME IInv, NEW g \in Loaders, ReturnRes(g)
  PROVE  IInv'
<1>1. loadPc[g] = "waitRes" /\ Leave(g, batch) /\ UNCHANGED <<value, reading, mucomp>> /\ mucomp \in BOOLEAN
  BY DEF ReturnRes, IInv, BatcherTypeOK
<1>2. g \notin Members(Current) /\ g \notin Solos
  BY <1>1, WaitersAreOld DEF Members, Solos
<1>3. ASSUME Members(Current)' = Members(Current) \ {g}, Now' = batch[Current],
             Solos' = Solos \ {g}, Runners' = Runners, loc'[g] = None,
             \A h \in Loaders \ {g} : loadPc'[h] = loadPc[h] /\ loc'[h] = loc[h]
      PROVE  Phase'
  <2>1. Members(Current)' = Members(Current) /\ Now' = Now /\ Solos' = Solos
    BY <1>2, <1>3 DEF Now
  <2>2. \A h \in Members(Current) : loadPc'[h] = loadPc[h]
    BY <1>2, <1>3 DEF Members
  <2>3. Fresh => Fresh'
    BY <1>1, <1>3, <2>1 DEF Fresh
  <2>4. Handed => Handed'
    BY <1>1, <1>3, <2>1, <2>2 DEF Handed
  <2>5. ASSUME NEW s \in Loaders PROVE StartingOf(s) => StartingOf(s)'
    BY <1>1, <1>3, <2>1, <2>2 DEF StartingOf
  <2>6. ASSUME NEW s \in Loaders PROVE AloneOf(s) => AloneOf(s)'
    <3>1. AloneOf(s) => s \in Members(Current) /\ loc'[s] = Current
      BY <1>2, <1>3 DEF AloneOf, Members
    <3> QED
      BY <1>1, <1>3, <2>1, <2>2, <3>1 DEF AloneOf
  <2>7. ASSUME NEW s \in Loaders PROVE BusyOf(s) => BusyOf(s)'
    <3>1. BusyOf(s) => loc'[s] # Current
      BY <1>3, Basics DEF BusyOf
    <3> QED
      BY <1>1, <1>3, <2>1, <2>2, <3>1 DEF BusyOf
  <2> QED
    BY <2>3, <2>4, <2>5, <2>6, <2>7 DEF IInv, Phase
<1>4. batch[Current] \in Batch
  BY Basics
<1> QED
  BY <1>1, <1>3, <1>4, LeaveInv

\* The result of an older batch is there: those of it may return.
LEMMA OnceEnds ==
  ASSUME IInv, NEW g \in Loaders, loadPc[g] = "onceRelock", NEW old, old = loc[g],
         NEW b, b = [batch[old] EXCEPT !.wgres = @ - 1, !.once = "done"],
         NEW n \in Batch, DOMAIN batch' = DOMAIN batch, batch'[old] = b, batch'[Current] = n,
         \A i \in DOMAIN batch \ {Current, old} : batch'[i] = batch[i],
         LoadGoto(g, "waitRes"), UNCHANGED <<value, reading, loc, val, start>>, mucomp' \in BOOLEAN,
         Fresh' \/ Handed'
  PROVE  IInv'
<1>1. /\ BusyOf(g) /\ old \in DOMAIN batch \ {Current} /\ OldOK(old) /\ g \in Members(old)
      /\ batch[old] \in Batch /\ g \notin reading
  BY PhaseOf, OldOf, Basics DEF BusyOf, IInv, ReadingOK
<1>2. g \in Members(old) \cap Runners
  BY <1>1 DEF Runners
<1>3. /\ b \in Batch /\ b.wg = 0 /\ b.wgres = 0 /\ b.once = "done" /\ b.isEnd
      /\ b.res = batch[old].res
  <2>1. batch[old].wgres - 1 = 0 /\ batch[old].wg = 0 /\ batch[old].isEnd
    BY <1>1, <1>2 DEF OldOK
  <2>2. b = [batch[old] EXCEPT !.wgres = 0, !.once = "done"]
    BY <2>1
  <2>3. 0 \in 0..1 /\ 1 \in 0..1
    OBVIOUS
  <2>4. b \in Batch
    <3>1. [batch[old] EXCEPT !.wgres = 0, !.once = "done"] \in Batch
      <4>1. PICK x : x = batch[old]
        OBVIOUS
      <4>2. x \in Batch
        BY <1>1, <4>1
      <4>3. [x EXCEPT !.wgres = 0, !.once = "done"] \in Batch
        BY <2>3, <4>2, BatchFields
      <4> QED
        BY <4>1, <4>3
    <3> QED
      BY <2>2, <3>1
  <2>5. b.wg = batch[old].wg /\ b.wgres = 0 /\ b.once = "done" /\ b.isEnd = batch[old].isEnd
        /\ b.res = batch[old].res
    BY <1>1, <2>2 DEF Batch
  <2> QED
    BY <2>1, <2>4, <2>5
<1>4. /\ loadPc'[g] = "waitRes" /\ \A h \in Loaders \ {g} : loadPc'[h] = loadPc[h]
      /\ loadPc' \in [Loaders -> LoadPCs]
  BY DEF LoadGoto, IInv, BatcherTypeOK, LoadPCs
<1>5. BatcherTypeOK'
  BY <1>3, <1>4 DEF IInv, BatcherTypeOK
<1>6. ASSUME NEW h \in Loaders PROVE ReadingOK(h)'
  <2>1. ReadingOK(h)
    BY DEF IInv
  <2>2. CASE h = g
    BY <1>1, <1>4, <2>1, <2>2 DEF ReadingOK
  <2>3. CASE h # g
    BY <1>4, <2>1, <2>3 DEF ReadingOK, Members
  <2> QED
    BY <2>2, <2>3
<1>7. OldOK(old)'
  <2>1. Members(old)' = Members(old) /\ Members(old) # {}
    BY <1>1 DEF Members
  <2>2. Members(old) \cap Runners' = {}
    BY <1>1, <1>4 DEF BusyOf, Runners
  <2>3. \A h \in Members(old) : start[h] <= batch[old].res
    BY <1>1 DEF OldOK
  <2>4. \A h \in Members(old) : loadPc'[h] \in {"wait", "branch", "once", "onceLoad", "onceRelock", "waitRes"}
    BY <1>1, <1>4 DEF OldOK, Members
  <2> QED
    BY <1>3, <2>1, <2>2, <2>3, <2>4 DEF OldOK
<1>8. ASSUME NEW i \in DOMAIN batch \ {Current, old} PROVE OldOK(i)'
  <2>1. OldOK(i) /\ Members(i)' = Members(i) /\ \A h \in Members(i) : h \in Loaders \ {g}
    BY DEF IInv, Members
  <2> QED
    BY <1>4, <2>1, OldKept
<1> QED
  BY <1>5, <1>6, <1>7, <1>8 DEF IInv, Phase

\* The reading for a batch has ended and nobody waits: the Batcher is reset.
LEMMA OnceEndsAloneInv ==
  ASSUME IInv, NEW g \in Loaders, OnceEndsAlone(g)
  PROVE  IInv'
<1>1. /\ BusyOf(g) /\ loadPc[g] = "onceRelock" /\ Now.cnt = 0
      /\ loc[g] \in DOMAIN batch \ {Current} /\ OldOK(loc[g]) /\ g \in Members(loc[g])
  BY PhaseOf, OldOf DEF OnceEndsAlone, BusyOf, Now
<1>2. PICK old : old = loc[g]
  OBVIOUS
<1>3. PICK b : b = [batch[old] EXCEPT !.wgres = @ - 1, !.once = "done"]
  OBVIOUS
<1>4. NewBatch \in Batch
  BY BatcherAssumption, FS_CardinalityType DEF NewBatch, Batch
<1>5. /\ DOMAIN batch' = DOMAIN batch /\ batch'[old] = b /\ batch'[Current] = NewBatch
      /\ \A i \in DOMAIN batch \ {Current, old} : batch'[i] = batch[i]
  BY <1>1, <1>2, <1>3, Basics DEF OnceEndsAlone
<1>6. Fresh' \/ Handed'
  <2>1. Members(Current) = {}
    BY <1>1, BatcherAssumption, FS_Subset, FS_EmptySet DEF BusyOf, Members
  <2>2. Solos' = {} /\ Runners' = {}
    BY <1>1 DEF OnceEndsAlone, LoadGoto, IInv, BatcherTypeOK, BusyOf, Solos, Runners
  <2> QED
    BY <1>1, <1>5, <2>1, <2>2 DEF OnceEndsAlone, Fresh, BusyOf, Members, Now
<1> QED
  BY <1>1, <1>2, <1>3, <1>4, <1>5, <1>6, OnceEnds DEF OnceEndsAlone, IInv, BatcherTypeOK

\* The reading for a batch has ended: those who joined meanwhile get mucomp.
LEMMA OnceHandsOverInv ==
  ASSUME IInv, NEW g \in Loaders, OnceHandsOver(g)
  PROVE  IInv'
<1>1. /\ BusyOf(g) /\ loadPc[g] = "onceRelock" /\ Now.cnt # 0 /\ Now \in Batch
      /\ loc[g] \in DOMAIN batch \ {Current} /\ OldOK(loc[g]) /\ g \in Members(loc[g])
  BY PhaseOf, OldOf, Basics DEF OnceHandsOver, BusyOf, Now
<1>2. PICK old : old = loc[g]
  OBVIOUS
<1>3. PICK b : b = [batch[old] EXCEPT !.wgres = @ - 1, !.once = "done"]
  OBVIOUS
<1>4. PICK n : n = [Now EXCEPT !.wg = @ - 1]
  OBVIOUS
<1>5. /\ n \in Batch /\ n.wg = 0 /\ n.wgres = 1 /\ n.once = "new" /\ n.isComp /\ n.isEnd
  <2>1. Now.wg - 1 = 0 /\ Now.wgres = 1 /\ Now.once = "new" /\ Now.isComp /\ Now.isEnd
    BY <1>1 DEF BusyOf
  <2>2. n = [Now EXCEPT !.wg = 0]
    BY <1>4, <2>1
  <2>3. 0 \in 0..1 /\ 1 \in 0..1
    OBVIOUS
  <2>4. n \in Batch
    BY <1>1, <2>2, <2>3, BatchFields
  <2>5. n.wg = 0 /\ n.wgres = Now.wgres /\ n.once = Now.once /\ n.isComp = Now.isComp /\ n.isEnd = Now.isEnd
    BY <1>1, <2>2 DEF Batch
  <2> QED
    BY <2>1, <2>4, <2>5
<1>6. /\ DOMAIN batch' = DOMAIN batch /\ batch'[old] = b /\ batch'[Current] = n
      /\ \A i \in DOMAIN batch \ {Current, old} : batch'[i] = batch[i]
  BY <1>1, <1>2, <1>3, <1>4, Basics DEF OnceHandsOver, Now
<1>7. Fresh' \/ Handed'
  <2>1. Members(Current) # {} /\ Members(Current)' = Members(Current)
    BY <1>1, FS_EmptySet DEF BusyOf, OnceHandsOver, Members
  <2>2. Solos' = {} /\ Runners' = {} /\ \A h \in Members(Current) : loadPc'[h] = "wait"
    BY <1>1 DEF OnceHandsOver, LoadGoto, IInv, BatcherTypeOK, BusyOf, Solos, Runners, Members
  <2> QED
    BY <1>1, <1>5, <1>6, <2>1, <2>2 DEF OnceHandsOver, Handed, Now
<1> QED
  BY <1>1, <1>2, <1>3, <1>5, <1>6, <1>7, OnceEnds DEF OnceHandsOver

---------------------------------------------------------------------------
(* The Once gives the Batcher new objects.                                 *)

\* There are enough identifiers: every older batch has a goroutine of its own,
\* and one more is in the current batch.
LEMMA RoomForOld ==
  ASSUME IInv, NEW g \in Loaders, loc[g] = Current
  PROVE  Ids \ DOMAIN batch # {}
<1> SUFFICES ASSUME Ids \subseteq DOMAIN batch PROVE FALSE
  OBVIOUS
<1> USE BatcherAssumption
<1> DEFINE N == Cardinality(Loaders)
           f == [i \in 1..N |-> CHOOSE h \in Loaders : loc[h] = i]
<1>1. N \in Nat
  BY FS_CardinalityType
<1>2. \A i \in 1..N : i \in DOMAIN batch \ {Current}
  BY <1>1 DEF Ids, Current
<1>3. \A i \in 1..N : f[i] \in Loaders /\ loc[f[i]] = i
  BY <1>2 DEF IInv, OldOK, Members
<1>4. f \in [1..N -> Loaders \ {g}]
  BY <1>2, <1>3
<1>5. IsFiniteSet(Loaders \ {g}) /\ Cardinality(Loaders \ {g}) = N - 1
  BY FS_RemoveElement
<1>6. IsFiniteSet(1..N) /\ Cardinality(1..N) = N
  BY <1>1, FS_Interval
<1> HIDE DEF f, N
<1>7. PICK i, j \in 1..N : i # j /\ f[i] = f[j]
  BY <1>1, <1>4, <1>5, <1>6, FS_PigeonHole
<1> QED
  BY <1>3, <1>7

\* The first of a batch takes it away, and the Batcher has a new one.
LEMMA OnceStartsInv ==
  ASSUME IInv, NEW g \in Loaders, OnceStarts(g)
  PROVE  IInv'
<1>1. /\ Handed /\ loc[g] = Current /\ g \in Members(Current) /\ Now \in Batch
      /\ loadPc[g] = "once" /\ g \notin reading
  BY PhaseOf, Basics DEF OnceStarts, Members, Now, IInv, ReadingOK
<1>2. PICK old : old = CHOOSE i \in Ids \ DOMAIN batch : \A j \in Ids \ DOMAIN batch : i <= j
  OBVIOUS
<1>3. old \in Ids \ DOMAIN batch /\ old # Current /\ old # None
  <2>1. Cardinality(Loaders) \in Nat
    BY Basics
  <2>2. Ids \ DOMAIN batch \in SUBSET (0..Cardinality(Loaders)) /\ Ids \ DOMAIN batch # {}
    BY <1>1, RoomForOld DEF Ids, Current
  <2>3. \E i \in Ids \ DOMAIN batch : \A j \in Ids \ DOMAIN batch : i <= j
    BY <2>1, <2>2, LeastElement
  <2>4. old \in Ids \ DOMAIN batch
    BY <1>2, <2>3
  <2> QED
    BY <2>1, <2>4, Basics DEF Ids, Current, None
<1>4. PICK b : b = [Now EXCEPT !.once = "running"]
  OBVIOUS
<1>5. PICK n : n = [NewBatch EXCEPT !.wg = 1, !.wgres = 1, !.isComp = TRUE, !.isEnd = TRUE]
  OBVIOUS
<1>6. /\ b \in Batch /\ b.wg = 0 /\ b.wgres = 1 /\ b.once = "running" /\ b.isEnd
  <2>1. b \in Batch
    <3>1. 0 \in 0..1
      OBVIOUS
    <3> QED
      BY <1>1, <1>4, <3>1, BatchFields
  <2> QED
    BY <1>1, <1>4, <2>1 DEF Handed, Batch
<1>7. /\ n \in Batch /\ n.wg = 1 /\ n.wgres = 1 /\ n.once = "new" /\ n.isComp /\ n.isEnd /\ n.cnt = 0
  <2>1. 0 \in 0..MaxStores /\ 0 \in 0..Cardinality(Loaders)
    BY Basics
  <2>2. /\ n.wg = 1 /\ n.wgres = 1 /\ n.once = "new" /\ n.isComp /\ n.isEnd /\ n.cnt = 0 /\ n.res = 0
        /\ n = [wg |-> n.wg, wgres |-> n.wgres, once |-> n.once, res |-> n.res,
                cnt |-> n.cnt, isComp |-> n.isComp, isEnd |-> n.isEnd]
    BY <1>5 DEF NewBatch
  <2>3. n.wg \in 0..1 /\ n.wgres \in 0..1
    BY <2>2
  <2> QED
    BY <2>1, <2>2, <2>3 DEF Batch
<1>8. /\ DOMAIN batch' = DOMAIN batch \cup {old}
      /\ batch'[old] = b /\ batch'[Current] = n
      /\ \A i \in DOMAIN batch \ {Current} : batch'[i] = batch[i]
      /\ mucomp' = FALSE /\ UNCHANGED <<value, reading, val, start>>
  <2>1. /\ batch' = [i \in DOMAIN batch \cup {old} |->
                       CASE i = old -> b [] i = Current -> n [] OTHER -> batch[i]]
        /\ mucomp' = FALSE /\ UNCHANGED <<value, reading, val, start>>
    BY <1>2, <1>4, <1>5 DEF OnceStarts, Now
  <2> QED
    BY <1>3, <2>1, Basics
<1>9. /\ loc' = [h \in Loaders |-> IF loc[h] = Current THEN old ELSE loc[h]]
      /\ loadPc'[g] = "onceLoad" /\ \A h \in Loaders \ {g} : loadPc'[h] = loadPc[h]
      /\ loadPc' \in [Loaders -> LoadPCs]
  BY <1>2 DEF OnceStarts, LoadGoto, IInv, BatcherTypeOK, LoadPCs
<1>10. /\ \A h \in Loaders : loc'[h] = None <=> loc[h] = None
       /\ Members(old)' = Members(Current) /\ Members(Current)' = {}
       /\ \A i \in DOMAIN batch \ {Current} : Members(i)' = Members(i)
  <2>1. \A h \in Loaders : loc'[h] = IF loc[h] = Current THEN old ELSE loc[h]
    BY <1>9
  <2>2. \A h \in Loaders : loc[h] # old
    BY <1>3, Basics
  <2> QED
    BY <1>3, <2>1, <2>2, Basics DEF Members
<1>11. BatcherTypeOK'
  <2>1. \A h \in Loaders : loc'[h] \in {None} \cup DOMAIN batch'
    BY <1>8, <1>9, Basics
  <2>2. loc' \in [Loaders -> {None} \cup DOMAIN batch']
    BY <1>9, <2>1
  <2>3. \A i \in DOMAIN batch' : batch'[i] \in Batch
    BY <1>6, <1>7, <1>8, Basics
  <2> QED
    BY <1>3, <1>8, <1>9, <2>2, <2>3 DEF IInv, BatcherTypeOK
<1>12. Solos' = {} /\ Runners' = {g}
  BY <1>1, <1>9 DEF Handed, Solos, Runners
<1>13. BusyOf(g)'
  <2>1. loc'[g] = old /\ Cardinality({}) = 0
    BY <1>1, <1>9, FS_EmptySet
  <2> QED
    BY <1>3, <1>7, <1>8, <1>10, <1>12, <2>1 DEF BusyOf, Now
<1>14. ASSUME NEW h \in Loaders PROVE ReadingOK(h)'
  <2>1. ReadingOK(h) /\ loadPc[h] # "onceLoad"
    BY <1>1 DEF IInv, Handed, Runners
  <2>2. CASE h = g
    BY <1>1, <1>8, <1>9, <1>10, <2>1, <2>2, Basics DEF ReadingOK
  <2>3. CASE h # g
    BY <1>8, <1>9, <1>10, <2>1, <2>3, ReadingKept
  <2> QED
    BY <2>2, <2>3
<1>15. OldOK(old)'
  <2>1. \A h \in Members(Current) : loadPc'[h] \in {"wait", "branch", "once", "onceLoad"}
    BY <1>1, <1>9 DEF Handed, Members
  <2> QED
    BY <1>1, <1>6, <1>8, <1>10, <1>12, <2>1 DEF OldOK
<1>16. ASSUME NEW i \in DOMAIN batch \ {Current} PROVE OldOK(i)'
  <2>1. OldOK(i) /\ Members(i)' = Members(i) /\ \A h \in Members(i) : h \in Loaders \ {g}
    BY <1>1, <1>10 DEF IInv, Members
  <2> QED
    BY <1>8, <1>9, <2>1, OldKept
<1> QED
  BY <1>8, <1>11, <1>13, <1>14, <1>15, <1>16 DEF IInv, Phase

---------------------------------------------------------------------------
(* The invariant and what follows from it.                                 *)

\* Every step keeps the invariant.
LEMMA NextIInv == IInv /\ [BatcherNext]_batcherVars => IInv'
<1> SUFFICES ASSUME IInv, [BatcherNext]_batcherVars PROVE IInv'
  OBVIOUS
<1>1. CASE Store
  BY <1>1, QuietSteps
<1>2. ASSUME NEW g \in Loaders, CallLoad(g) PROVE IInv'
  BY <1>2, QuietSteps
<1>3. ASSUME NEW g \in Loaders, TakesMucomp(g) PROVE IInv'
  BY <1>3, JoinInv, SoloAloneInv, SoloHandsOverInv, OnceEndsAloneInv, OnceHandsOverInv DEF TakesMucomp
<1>4. ASSUME NEW g \in Loaders, Running(g) PROVE IInv'
  BY <1>4, LoadInv, EndOnceLoadInv, QuietSteps, StartSoloInv, OnceStartsInv, ReturnResInv DEF Running
<1>5. CASE UNCHANGED batcherVars
  <2>1. \A h \in Loaders : ReadingOK(h)'
    BY <1>5 DEF IInv, ReadingOK, Members, batcherVars
  <2>2. \A i \in DOMAIN batch \ {Current} : OldOK(i)'
    BY <1>5 DEF IInv, OldOK, Members, Runners, batcherVars
  <2>3. Phase'
    BY <1>5 DEF IInv, Phase, Fresh, Handed, StartingOf, AloneOf, BusyOf, Members, Solos, Runners, Now, batcherVars
  <2> QED
    BY <1>5, <2>1, <2>2, <2>3 DEF IInv, BatcherTypeOK, batcherVars
<1> QED
  BY <1>1, <1>2, <1>3, <1>4, <1>5 DEF BatcherNext

\* The batches keep their phases and their readings (batcher.go:31-110).
THEOREM BatcherInvariant == BatcherSpec => []IInv
BY InitIInv, NextIInv, PTL DEF BatcherSpec

\* No Load returns a value older than its call, for any goroutines and Stores
\* (batcher/README.md, no stale read).
THEOREM BatcherReadsFresh == BatcherSpec => []NoStaleRead
<1>1. ASSUME IInv PROVE NoStaleRead
  <2> SUFFICES ASSUME NEW g \in Loaders
               PROVE  /\ loadPc[g] = "soloRelock" => val[g] >= start[g]
                      /\ loadPc[g] = "waitRes" => Mine(g).res >= start[g]
    BY DEF NoStaleRead
  <2>1. loadPc[g] = "soloRelock" => val[g] >= start[g]
    BY <1>1, Basics DEF IInv, ReadingOK
  <2>2. ASSUME loadPc[g] = "waitRes" PROVE Mine(g).res >= start[g]
    <3>1. /\ OldOK(loc[g]) /\ g \in Members(loc[g]) /\ batch[loc[g]] \in Batch
      BY <1>1, <2>2, WaitersAreOld, OldOf, Basics
    <3>2. start[g] <= batch[loc[g]].res
      BY <2>2, <3>1 DEF OldOK
    <3>3. start[g] \in Int /\ batch[loc[g]].res \in Int
      BY <1>1, <3>1, Basics DEF Batch
    <3> QED
      BY <3>2, <3>3 DEF Mine
  <2> QED
    BY <2>1, <2>2
<1> QED
  BY <1>1, BatcherInvariant, PTL

\* The batches do not disturb each other, for any goroutines: the readings are
\* one at a time, mucomp has one owner, and a reset is private (batcher.go:40-110).
THEOREM BatcherKeepsApart == BatcherSpec => []BatchesApart
<1>1. ASSUME IInv PROVE OneLoadAtATime
  <2>1. reading \subseteq Solos \cup Runners
    BY <1>1 DEF IInv, BatcherTypeOK, ReadingOK, Solos, Runners
  <2>2. \/ Solos \cup Runners = {}
        \/ \E s \in Loaders : Solos \cup Runners = {s}
    BY <1>1 DEF IInv, Phase, Fresh, Handed, StartingOf, AloneOf, BusyOf
  <2>3. reading = {} \/ \E s \in Loaders : reading = {s}
    BY <2>1, <2>2
  <2>4. Cardinality(reading) = 0 \/ Cardinality(reading) = 1
    BY <2>3, FS_EmptySet, FS_Singleton
  <2> QED
    BY <2>4 DEF OneLoadAtATime
<1>2. ASSUME IInv PROVE MutexIsPassedOn
  <2>1. \A h \in Loaders : loc[h] # Current =>
          /\ loadPc[h] \in {"wait", "branch", "once"} => Mine(h).once # "new" /\ Mine(h).isEnd
    BY <1>2, OldOf DEF OldOK, Mine
  <2>2. Heirs \subseteq Members(Current) /\ Holders \subseteq Members(Current)
    BY <2>1 DEF Heirs, Holders, Members
  <2>3. \A h \in Members(Current) : Mine(h) = Now
    BY DEF Members, Mine, Now
  <2>4. CASE Fresh
    BY <2>2, <2>4, FS_EmptySet DEF Fresh, MutexIsPassedOn
  <2>5. CASE Handed
    <3>1. Heirs = Members(Current) /\ Holders = {}
      BY <2>2, <2>3, <2>5 DEF Handed, Heirs, Holders, Members
    <3> QED
      BY <2>5, <3>1, FS_EmptySet DEF Handed, MutexIsPassedOn, Members
  <2>6. ASSUME NEW s \in Loaders, StartingOf(s) PROVE MutexIsPassedOn
    <3>1. Now.wg = 1 /\ ~Now.isEnd
      BY <2>6 DEF StartingOf, NewBatch
    <3>2. Heirs = {} /\ Holders = {s}
      <4>1. Members(Current) = {s} /\ loadPc[s] = "branch" /\ Mine(s) = Now
        BY <2>3, <2>6 DEF StartingOf
      <4>2. s \in Holders /\ s \notin Heirs
        BY <3>1, <4>1 DEF Heirs, Holders
      <4> QED
        BY <2>2, <4>1, <4>2
    <3>3. Cardinality(Holders) <= 1
      <4>1. Cardinality({s}) = 1
        BY FS_Singleton
      <4>2. Cardinality(Holders) = 1
        BY <3>2, <4>1, Zenon
      <4> QED
        BY <4>2
    <3>4. mucomp
      BY <2>6 DEF StartingOf
    <3> QED
      BY <3>2, <3>3, <3>4 DEF MutexIsPassedOn
  <2>7. ASSUME NEW s \in Loaders, AloneOf(s) \/ BusyOf(s) PROVE MutexIsPassedOn
    <3>1. Heirs = {} /\ Holders = {}
      BY <2>2, <2>3, <2>7 DEF AloneOf, BusyOf, Heirs, Holders, Members, Solos
    <3> QED
      BY <2>7, <3>1, FS_EmptySet DEF AloneOf, BusyOf, MutexIsPassedOn
  <2> QED
    BY <1>2, <2>4, <2>5, <2>6, <2>7 DEF IInv, Phase
<1>3. ASSUME IInv PROVE ResetIsPrivate
  <2>1. ASSUME NEW g \in Loaders, NEW h \in Loaders, loadPc[g] = "soloRelock", Mine(g).cnt = 1
        PROVE  loc[g] = Current /\ (loc[h] = Current => h = g)
    <3>1. AloneOf(g)
      BY <1>3, <2>1, PhaseOf
    <3>2. Cardinality(Members(Current)) = 1 /\ g \in Members(Current) /\ loc[g] = Current
      BY <2>1, <3>1 DEF AloneOf, Mine, Now, Members
    <3>3. IsFiniteSet(Members(Current))
      BY BatcherAssumption, FS_Subset DEF Members
    <3>4. PICK x : Members(Current) = {x}
      BY <3>2, <3>3, FS_Singleton
    <3> QED
      BY <3>2, <3>4 DEF Members
  <2>2. ASSUME NEW g \in Loaders, NEW h \in Loaders, loadPc[g] = "onceRelock", batch[Current].cnt = 0
        PROVE  loc[h] # Current
    <3>1. Cardinality(Members(Current)) = 0
      BY <1>3, <2>2, PhaseOf DEF BusyOf, Now
    <3>2. IsFiniteSet(Members(Current))
      BY BatcherAssumption, FS_Subset DEF Members
    <3>3. Members(Current) = {}
      BY <3>1, <3>2, FS_EmptySet
    <3> QED
      BY <3>3 DEF Members
  <2> QED
    BY <2>1, <2>2 DEF ResetIsPrivate
<1>4. IInv => BatchesApart
  BY <1>1, <1>2, <1>3 DEF IInv, BatchesApart
<1> QED
  BY <1>4, BatcherInvariant, PTL
============================================================================
