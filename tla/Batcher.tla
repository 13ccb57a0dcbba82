------------------------------ MODULE Batcher ------------------------------
(***************************************************************************)
(* batcher/batcher.go over batcher/slow/value.go.  A Load that finds       *)
(* nobody at work reads the slow value for itself; those that arrive       *)
(* meanwhile must not use that reading, which may be older than they are:  *)
(* they wait for it to end, and then one of them reads for all.            *)
(*                                                                         *)
(* The objects of a batch (wait groups, Once, result, cnt, isComp, isEnd)  *)
(* are one record.  The Batcher points to batch[Current].  A Once that     *)
(* starts gives it new objects: the old ones move, with everybody who      *)
(* captured them, to an identifier of their own, and are dropped when      *)
(* nobody uses them any more.  The two places that replace only some of    *)
(* the objects do so when nobody else has them (ResetIsPrivate below), so  *)
(* there the record starts afresh in place.                                *)
(*                                                                         *)
(* mucomp has no owner: the goroutine that ends a reading leaves it locked *)
(* for the batch it wakes, and the one that runs the Once unlocks it.      *)
(***************************************************************************)
EXTENDS Integers, FiniteSets, Functions

CONSTANTS Loaders,
          MaxStores   \* bound on the Stores to the slow value

ASSUME BatcherAssumption == IsFiniteSet(Loaders) /\ MaxStores \in Nat

Current == 0
None == -1
Ids == Current .. Cardinality(Loaders)

VARIABLES
  value,      \* the slow value; it counts the Stores
  reading,    \* the goroutines inside slow.Value.Load
  mucomp,     \* TRUE while the mutex is locked
  batch,
  loc,        \* loc[g]: the batch that the Load of g captured
  val,        \* what a goroutine's own reading returned
  start,      \* history: value when the Load was called
  loadPc

batcherVars == <<value, reading, mucomp, batch, loc, val, start, loadPc>>

LoadPCs == {"idle", "enter", "wait", "branch", "soloLoad", "soloRelock", "once",
            "onceLoad", "onceRelock", "waitRes"}

Batch == [wg : 0..1, wgres : 0..1, once : {"new", "running", "done"}, res : 0..MaxStores,
          cnt : 0..Cardinality(Loaders), isComp : BOOLEAN, isEnd : BOOLEAN]

\* No wait group goes negative, which would panic.
BatcherTypeOK ==
  /\ value \in 0..MaxStores
  /\ reading \subseteq Loaders
  /\ mucomp \in BOOLEAN
  /\ Current \in DOMAIN batch /\ DOMAIN batch \subseteq Ids
  /\ \A i \in DOMAIN batch : batch[i] \in Batch
  /\ loc \in [Loaders -> {None} \cup DOMAIN batch]
  /\ val \in [Loaders -> 0..MaxStores]
  /\ start \in [Loaders -> 0..MaxStores]
  /\ loadPc \in [Loaders -> LoadPCs]

NewBatch == [wg |-> 0, wgres |-> 0, once |-> "new", res |-> 0,
             cnt |-> 0, isComp |-> FALSE, isEnd |-> FALSE]

BatcherInit ==
  /\ value = 0
  /\ reading = {}
  /\ mucomp = FALSE
  /\ batch = [i \in {Current} |-> NewBatch]
  /\ loc = [g \in Loaders |-> None]
  /\ val = [g \in Loaders |-> 0]
  /\ start = [g \in Loaders |-> 0]
  /\ loadPc = [g \in Loaders |-> "idle"]

LoadGoto(g, label) == loadPc' = [loadPc EXCEPT ![g] = label]

---------------------------------------------------------------------------
(* Who points to what.                                                     *)

\* The batch that g captured.
Mine(g) == batch[loc[g]]

\* Load returns: g forgets what it captured, and of the batches b those remain
\* that somebody points to.
Leave(g, b) ==
  /\ loc' = [loc EXCEPT ![g] = None]
  /\ batch' = Restrict(b, {i \in DOMAIN b : i = Current \/ \E h \in Loaders \ {g} : loc[h] = i})
  /\ val' = [val EXCEPT ![g] = 0]
  /\ start' = [start EXCEPT ![g] = 0]
  /\ LoadGoto(g, "idle")

---------------------------------------------------------------------------
(* The slow value.                                                         *)

Store == /\ value < MaxStores
         /\ value' = value + 1
         /\ UNCHANGED <<reading, mucomp, batch, loc, val, start, loadPc>>

\* readRunning is set and the value taken; Load then sleeps.
BeginLoad(g) == /\ loadPc[g] \in {"soloLoad", "onceLoad"}
                /\ g \notin reading
                /\ reading' = reading \cup {g}
                /\ val' = [val EXCEPT ![g] = value]
                /\ UNCHANGED <<value, mucomp, batch, loc, start, loadPc>>

EndSoloLoad(g) == /\ loadPc[g] = "soloLoad"
                  /\ g \in reading
                  /\ reading' = reading \ {g}
                  /\ LoadGoto(g, "soloRelock")
                  /\ UNCHANGED <<value, mucomp, batch, loc, val, start>>

\* *locres gets the value before mucomp is locked.
EndOnceLoad(g) == /\ loadPc[g] = "onceLoad"
                  /\ g \in reading
                  /\ reading' = reading \ {g}
                  /\ batch' = [batch EXCEPT ![loc[g]].res = val[g]]
                  /\ val' = [val EXCEPT ![g] = 0]
                  /\ LoadGoto(g, "onceRelock")
                  /\ UNCHANGED <<value, mucomp, loc, start>>

---------------------------------------------------------------------------
(* Load up to the reading.                                                 *)

CallLoad(g) == /\ loadPc[g] = "idle"
               /\ start' = [start EXCEPT ![g] = value]
               /\ LoadGoto(g, "enter")
               /\ UNCHANGED <<value, reading, mucomp, batch, loc, val>>

\* mutant: as Join, but only who starts a computation is counted.
JoinUncounted(g) ==
  /\ loadPc[g] = "enter"
  /\ ~mucomp
  /\ loc' = [loc EXCEPT ![g] = Current]
  /\ \/ /\ batch[Current].isComp
        /\ LoadGoto(g, "wait")
        /\ UNCHANGED <<mucomp, batch>>
     \/ /\ ~batch[Current].isComp
        /\ batch' = [batch EXCEPT ![Current].cnt = @ + 1, ![Current].wg = @ + 1]
        /\ mucomp' = TRUE
        /\ LoadGoto(g, "branch")
  /\ UNCHANGED <<value, reading, val, start>>

\* The section that captures the objects.  Who finds a computation under way
\* undoes its wg.Add and unlocks; who does not keeps mucomp.
Join(g) ==
  /\ loadPc[g] = "enter"
  /\ ~mucomp
  /\ loc' = [loc EXCEPT ![g] = Current]
  /\ \/ /\ batch[Current].isComp
        /\ batch' = [batch EXCEPT ![Current].cnt = @ + 1]
        /\ LoadGoto(g, "wait")
        /\ UNCHANGED mucomp
     \/ /\ ~batch[Current].isComp
        /\ batch' = [batch EXCEPT ![Current].cnt = @ + 1, ![Current].wg = @ + 1]
        /\ mucomp' = TRUE
        /\ LoadGoto(g, "branch")
  /\ UNCHANGED <<value, reading, val, start>>

\* locwg.Wait: mucomp is locked for the batch when it returns.
WaitWg(g) == /\ loadPc[g] = "wait"
             /\ Mine(g).wg = 0
             /\ LoadGoto(g, "branch")
             /\ UNCHANGED <<value, reading, mucomp, batch, loc, val, start>>

\* mutant: as StartSolo, without the mark that a computation is under way.
StartsUnmarked(g) == /\ loadPc[g] = "branch"
                     /\ ~Mine(g).isEnd
                     /\ mucomp' = FALSE
                     /\ LoadGoto(g, "soloLoad")
                     /\ UNCHANGED <<value, reading, batch, loc, val, start>>

StartSolo(g) == /\ loadPc[g] = "branch"
                /\ ~Mine(g).isEnd
                /\ batch' = [batch EXCEPT ![loc[g]].isComp = TRUE]
                /\ mucomp' = FALSE
                /\ LoadGoto(g, "soloLoad")
                /\ UNCHANGED <<value, reading, loc, val, start>>

ToOnce(g) == /\ loadPc[g] = "branch"
             /\ Mine(g).isEnd
             /\ LoadGoto(g, "once")
             /\ UNCHANGED <<value, reading, mucomp, batch, loc, val, start>>

---------------------------------------------------------------------------
(* The end of a reading for oneself.                                       *)

\* Nobody joined: the Batcher starts afresh and mucomp is unlocked again.
SoloAlone(g) ==
  /\ loadPc[g] = "soloRelock"
  /\ ~mucomp
  /\ Mine(g).cnt = 1
  /\ Leave(g, [batch EXCEPT ![Current] = NewBatch])
  /\ UNCHANGED <<value, reading, mucomp>>

\* mutant: as SoloHandsOver, but it unlocks mucomp.
HandsOverUnlocked(g) ==
  /\ loadPc[g] = "soloRelock"
  /\ ~mucomp
  /\ Mine(g).cnt # 1
  /\ Leave(g, [batch EXCEPT ![loc[g]].isEnd = TRUE,
                            ![loc[g]].wgres = @ + 1, ![loc[g]].wg = @ - 1])
  /\ UNCHANGED <<value, reading, mucomp>>

\* Somebody waits: locwg.Done wakes them, and mucomp stays locked for them.
SoloHandsOver(g) ==
  /\ loadPc[g] = "soloRelock"
  /\ ~mucomp
  /\ Mine(g).cnt # 1
  /\ mucomp' = TRUE
  /\ Leave(g, [batch EXCEPT ![loc[g]].isEnd = TRUE,
                            ![loc[g]].wgres = @ + 1, ![loc[g]].wg = @ - 1])
  /\ UNCHANGED <<value, reading>>

---------------------------------------------------------------------------
(* The Once of a batch and what follows it.                                *)

\* mutant: as OnceStarts, but the Batcher keeps the objects: who comes late shares them.
OnceKeepsObjects(g) ==
  /\ loadPc[g] = "once"
  /\ loc[g] = Current
  /\ Mine(g).once = "new"
  /\ batch' = [batch EXCEPT ![Current].once = "running"]
  /\ mucomp' = FALSE
  /\ LoadGoto(g, "onceLoad")
  /\ UNCHANGED <<value, reading, loc, val, start>>

\* The first of the batch gives the Batcher new objects, marked as busy, and
\* unlocks mucomp.
OnceStarts(g) ==
  LET old == CHOOSE i \in Ids \ DOMAIN batch : \A j \in Ids \ DOMAIN batch : i <= j IN
  /\ loadPc[g] = "once"
  /\ loc[g] = Current
  /\ Mine(g).once = "new"
  /\ batch' = [i \in DOMAIN batch \cup {old} |->
                 CASE i = old -> [batch[Current] EXCEPT !.once = "running"]
                   [] i = Current -> [NewBatch EXCEPT !.wg = 1, !.wgres = 1,
                                                      !.isComp = TRUE, !.isEnd = TRUE]
                   [] OTHER -> batch[i]]
  /\ loc' = [h \in Loaders |-> IF loc[h] = Current THEN old ELSE loc[h]]
  /\ mucomp' = FALSE
  /\ LoadGoto(g, "onceLoad")
  /\ UNCHANGED <<value, reading, val, start>>

\* Nobody joined the next batch: start afresh.
OnceEndsAlone(g) ==
  /\ loadPc[g] = "onceRelock"
  /\ ~mucomp
  /\ batch[Current].cnt = 0
  /\ batch' = [batch EXCEPT ![loc[g]].wgres = @ - 1, ![loc[g]].once = "done",
                            ![Current] = NewBatch]
  /\ LoadGoto(g, "waitRes")
  /\ UNCHANGED <<value, reading, mucomp, loc, val, start>>

\* Somebody did: b.wg.Done wakes them with mucomp locked.
OnceHandsOver(g) ==
  /\ loadPc[g] = "onceRelock"
  /\ ~mucomp
  /\ batch[Current].cnt # 0
  /\ mucomp' = TRUE
  /\ batch' = [batch EXCEPT ![loc[g]].wgres = @ - 1, ![loc[g]].once = "done",
                            ![Current].wg = @ - 1]
  /\ LoadGoto(g, "waitRes")
  /\ UNCHANGED <<value, reading, loc, val, start>>

\* mutant: as OnceFollows, but who comes late to the Once asks again.
FollowerAsksAgain(g) == /\ loadPc[g] = "once"
                        /\ Mine(g).once = "done"
                        /\ loc' = [loc EXCEPT ![g] = None]
                        /\ batch' = Restrict(batch, {i \in DOMAIN batch : i = Current
                                                        \/ \E h \in Loaders \ {g} : loc[h] = i})
                        /\ LoadGoto(g, "enter")
                        /\ UNCHANGED <<value, reading, mucomp, val, start>>

\* The others wait in Once.Do until the first is through.
OnceFollows(g) == /\ loadPc[g] = "once"
                  /\ Mine(g).once = "done"
                  /\ LoadGoto(g, "waitRes")
                  /\ UNCHANGED <<value, reading, mucomp, batch, loc, val, start>>

ReturnRes(g) == /\ loadPc[g] = "waitRes"
                /\ Mine(g).wgres = 0
                /\ Leave(g, batch)
                /\ UNCHANGED <<value, reading, mucomp>>

---------------------------------------------------------------------------
\* The steps of g that wait for mucomp.
TakesMucomp(g) == \/ Join(g)
                  \/ SoloAlone(g) \/ SoloHandsOver(g)
                  \/ OnceEndsAlone(g) \/ OnceHandsOver(g)

Running(g) == \/ BeginLoad(g) \/ EndSoloLoad(g) \/ EndOnceLoad(g)
              \/ WaitWg(g) \/ StartSolo(g) \/ ToOnce(g)
              \/ OnceStarts(g) \/ OnceFollows(g) \/ ReturnRes(g)

BatcherNext == Store \/ \E g \in Loaders : CallLoad(g) \/ TakesMucomp(g) \/ Running(g)

BatcherSpec == BatcherInit /\ [][BatcherNext]_batcherVars

\* A goroutine that can go on does, and sync.RWMutex starves no Lock.
BatcherFairness == \A g \in Loaders : SF_batcherVars(TakesMucomp(g)) /\ WF_batcherVars(Running(g))

BatcherLiveSpec == BatcherSpec /\ BatcherFairness

---------------------------------------------------------------------------
(* Properties                                                              *)

\* Two readings of the slow value never overlap: they would panic (value.go:18).
OneLoadAtATime == Cardinality(reading) <= 1

\* What a Load is about to return is no older than the Load (batcher/README.md,
\* no stale read): a reading that began before it is never shared with it.
NoStaleRead ==
  \A g \in Loaders :
    /\ loadPc[g] = "soloRelock" => val[g] >= start[g]
    /\ loadPc[g] = "waitRes" => Mine(g).res >= start[g]

\* Those of a batch that was handed mucomp who may still run its Once.
Heirs == {g \in Loaders : /\ loadPc[g] \in {"wait", "branch", "once"}
                          /\ Mine(g).wg = 0
                          /\ Mine(g).once = "new"}

\* Those who took mucomp themselves and are about to unlock it.
Holders == {g \in Loaders : loadPc[g] = "branch" /\ ~Mine(g).isEnd}

\* mucomp is locked exactly while somebody is going to unlock it, and only one
\* is: the mutex passes from the goroutine that ends a reading to the batch it
\* wakes, never to nobody, and is not unlocked twice (batcher.go:71, 88, 104).
MutexIsPassedOn ==
  /\ mucomp <=> Heirs \cup Holders # {}
  /\ Heirs = {} \/ Holders = {}
  /\ Cardinality(Holders) <= 1
  /\ \A g \in Heirs : loc[g] = Current

\* Where the Batcher is reset (batcher.go:61-70, 93-102) nobody else has the
\* objects that are reset: no late goroutine finds isEnd cleared under it.
ResetIsPrivate ==
  \A g, h \in Loaders :
    /\ loadPc[g] = "soloRelock" /\ Mine(g).cnt = 1 => loc[g] = Current /\ (loc[h] = Current => h = g)
    /\ loadPc[g] = "onceRelock" /\ batch[Current].cnt = 0 => loc[h] # Current

\* The batches do not disturb each other: one reading at a time, one owner of
\* mucomp, and no reset under somebody's hands (batcher.go:40-110).
BatchesApart == BatcherTypeOK /\ OneLoadAtATime /\ MutexIsPassedOn /\ ResetIsPrivate

\* Every Load returns.
LoadReturns == \A g \in Loaders : loadPc[g] = "enter" ~> loadPc[g] = "idle"
=============================================================================
