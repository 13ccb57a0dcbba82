--------------------------- MODULE ArtifactCache ---------------------------
(***************************************************************************)
(* distbuild/pkg/artifact/cache.go and, on top of it,                      *)
(* distbuild/pkg/filecache/filecache.go: an artifact is filled in a        *)
(* directory below tmp and renamed into the cache; locks in memory keep    *)
(* the readers, writers and removers of one artifact apart.  The process   *)
(* may crash between any two steps: locks are lost, the disk stays, and    *)
(* NewCache starts by clearing tmp.                                        *)
(*                                                                         *)
(* A directory is the set of writes that left files in it and whether all  *)
(* files of the last one are there; the empty set is no directory.  Users  *)
(* keep the contract of README.md: one commit or one abort per Create.     *)
(***************************************************************************)
EXTENDS Integers, FiniteSets

CONSTANTS CacheUsers, Artifacts,
          MaxWrites,       \* bound on the directories filled
          MaxFaults        \* bound on crashes and failed disk operations

ASSUME CacheAssumption == IsFiniteSet(CacheUsers) /\ MaxWrites \in Nat /\ MaxFaults \in Nat

VARIABLES tmpDir, cacheDir,         \* what is on disk, by artifact
          writeLocked, readLocked,  \* the maps of Cache
          user,                     \* user[u]: the call u is in
          cacheWrites, faults,
          damaged    \* artifacts that a failed or crashed call left halfway

cacheVars == <<tmpDir, cacheDir, writeLocked, readLocked, user, cacheWrites, faults, damaged>>

NoDir == [writes |-> {}, whole |-> FALSE]
Dirs == [writes : SUBSET (1..MaxWrites), whole : BOOLEAN]
AtRest == [in |-> "rest", on |-> NoDir, id |-> {}]
EndCall(u) == user' = [user EXCEPT ![u] = AtRest]
CacheStep(u, from, to, a) == /\ user[u].in = from /\ user[u].id = {a}
                        /\ user' = [user EXCEPT ![u].in = to]
StartCall(u, to, a) == /\ user[u] = AtRest
                       /\ user' = [user EXCEPT ![u].in = to, ![u].id = {a}]
DiskFault == faults < MaxFaults /\ faults' = faults + 1

CacheTypeOK ==
  /\ tmpDir \in [Artifacts -> Dirs] /\ cacheDir \in [Artifacts -> Dirs]
  /\ writeLocked \subseteq Artifacts
  /\ readLocked \in [Artifacts -> 0..Cardinality(CacheUsers)]
  /\ \A u \in CacheUsers : user[u].in \in {"rest", "create", "fill", "stat", "read", "remove"}

CacheInit == /\ tmpDir = [a \in Artifacts |-> NoDir] /\ cacheDir = tmpDir
             /\ writeLocked = {} /\ readLocked = [a \in Artifacts |-> 0]
             /\ user = [u \in CacheUsers |-> AtRest]
             /\ cacheWrites = 0 /\ faults = 0 /\ damaged = {}

---------------------------------------------------------------------------
(* The four sections under mu.                                             *)

\* mutant: readers are not asked
WriteLockOverReaders(a, remove) ==
  /\ cacheDir[a] = NoDir \/ remove
  /\ a \notin writeLocked
  /\ writeLocked' = writeLocked \union {a}
  /\ UNCHANGED readLocked

\* ErrExists, ErrWriteLocked and ErrReadLocked change nothing.
WriteLock(a, remove) == /\ cacheDir[a] = NoDir \/ remove
                        /\ a \notin writeLocked
                        /\ readLocked[a] = 0
                        /\ writeLocked' = writeLocked \union {a}
                        /\ UNCHANGED readLocked

WriteUnlock(a) == writeLocked' = writeLocked \ {a} /\ UNCHANGED readLocked

ReadLock(a) == /\ a \notin writeLocked
               /\ readLocked' = [readLocked EXCEPT ![a] = @ + 1]
               /\ UNCHANGED writeLocked

ReadUnlock(a) == readLocked' = [readLocked EXCEPT ![a] = @ - 1] /\ UNCHANGED writeLocked

---------------------------------------------------------------------------
(* Create, commit and abort.                                               *)

Create(u, a) == /\ WriteLock(a, FALSE)
                /\ StartCall(u, "create", a)
                /\ UNCHANGED <<tmpDir, cacheDir, cacheWrites, faults, damaged>>

\* MkdirAll keeps what an abort that failed left in the directory.
MakeTmpDir(u, a) == /\ CacheStep(u, "create", "fill", a)
                    /\ cacheWrites < MaxWrites
                    /\ cacheWrites' = cacheWrites + 1
                    /\ tmpDir' = [tmpDir EXCEPT ![a] =
                         [writes |-> @.writes \union {cacheWrites + 1}, whole |-> FALSE]]
                    /\ UNCHANGED <<cacheDir, writeLocked, readLocked, faults, damaged>>

MakeTmpDirFails(u, a) == /\ user[u].in = "create" /\ user[u].id = {a}
                         /\ DiskFault
                         /\ WriteUnlock(a) /\ EndCall(u)
                         /\ UNCHANGED <<tmpDir, cacheDir, cacheWrites, damaged>>

\* The user writes the files of the artifact.
FillTmpDir(u, a) == /\ CacheStep(u, "fill", "fill", a)
                    /\ ~tmpDir[a].whole
                    /\ tmpDir' = [tmpDir EXCEPT ![a].whole = TRUE]
                    /\ UNCHANGED <<cacheDir, writeLocked, readLocked, cacheWrites, faults, damaged>>

Commit(u, a) == /\ user[u].in = "fill" /\ user[u].id = {a}
                /\ tmpDir[a].whole
                /\ cacheDir' = [cacheDir EXCEPT ![a] = tmpDir[a]]
                /\ tmpDir' = [tmpDir EXCEPT ![a] = NoDir]
                /\ WriteUnlock(a) /\ EndCall(u)
                /\ UNCHANGED <<cacheWrites, faults, damaged>>

\* The lock goes, the directory stays below tmp.
CommitOrAbortFails(u, a) == /\ user[u].in = "fill" /\ user[u].id = {a}
                            /\ DiskFault
                            /\ damaged' = damaged \union {a}
                            /\ WriteUnlock(a) /\ EndCall(u)
                            /\ UNCHANGED <<tmpDir, cacheDir, cacheWrites>>

Abort(u, a) == /\ user[u].in = "fill" /\ user[u].id = {a}
               /\ tmpDir' = [tmpDir EXCEPT ![a] = NoDir]
               /\ WriteUnlock(a) /\ EndCall(u)
               /\ UNCHANGED <<cacheDir, cacheWrites, faults, damaged>>

\* filecache Write: os.Create fails and the nil function abort is called.
\* The panic leaves the lock and the directory to nobody.
FileCreatePanics(u, a) == /\ user[u].in = "fill" /\ user[u].id = {a}
                          /\ ~tmpDir[a].whole
                          /\ DiskFault
                          /\ damaged' = damaged \union {a}
                          /\ EndCall(u)
                          /\ UNCHANGED <<tmpDir, cacheDir, writeLocked, readLocked, cacheWrites>>

\* filecache Close: the file was not closed well and is committed all the same.
CommitDespiteClose(u, a) == /\ user[u].in = "fill" /\ user[u].id = {a}
                            /\ DiskFault
                            /\ cacheDir' = [cacheDir EXCEPT ![a] = [tmpDir[a] EXCEPT !.whole = FALSE]]
                            /\ tmpDir' = [tmpDir EXCEPT ![a] = NoDir]
                            /\ damaged' = damaged \union {a}
                            /\ WriteUnlock(a) /\ EndCall(u)
                            /\ UNCHANGED cacheWrites

---------------------------------------------------------------------------
(* Get with unlock, Remove, and a crash.                                   *)

Get(u, a) == /\ ReadLock(a)
             /\ StartCall(u, "stat", a)
             /\ UNCHANGED <<tmpDir, cacheDir, cacheWrites, faults, damaged>>

Stat(u, a) == /\ user[u].in = "stat" /\ user[u].id = {a}
              /\ \/ /\ \/ cacheDir[a] = NoDir /\ UNCHANGED faults     \* ErrNotFound
                       \/ DiskFault
                    /\ ReadUnlock(a) /\ EndCall(u)
                 \/ /\ cacheDir[a] # NoDir
                    /\ user' = [user EXCEPT ![u].in = "read", ![u].on = cacheDir[a]]
                    /\ UNCHANGED <<writeLocked, readLocked, faults>>
              /\ UNCHANGED <<tmpDir, cacheDir, cacheWrites, damaged>>

Unlock(u, a) == /\ user[u].in = "read" /\ user[u].id = {a}
                /\ ReadUnlock(a) /\ EndCall(u)
                /\ UNCHANGED <<tmpDir, cacheDir, cacheWrites, faults, damaged>>

RemoveArtifact(u, a) == /\ WriteLock(a, TRUE)
                /\ StartCall(u, "remove", a)
                /\ UNCHANGED <<tmpDir, cacheDir, cacheWrites, faults, damaged>>

\* RemoveAll takes one file after the other; until it is over the artifact
\* counts as damaged, and stays so after a failure or a crash.
RemoveFiles(u, a) == /\ CacheStep(u, "remove", "remove", a)
                     /\ cacheDir[a].whole
                     /\ cacheDir' = [cacheDir EXCEPT ![a].whole = FALSE]
                     /\ damaged' = damaged \union {a}
                     /\ UNCHANGED <<tmpDir, writeLocked, readLocked, cacheWrites, faults>>

RemoveEnds(u, a) == /\ user[u].in = "remove" /\ user[u].id = {a}
                    /\ \/ /\ cacheDir' = [cacheDir EXCEPT ![a] = NoDir]
                          /\ damaged' = IF tmpDir[a] = NoDir THEN damaged \ {a} ELSE damaged
                          /\ UNCHANGED faults
                       \/ DiskFault /\ UNCHANGED <<cacheDir, damaged>>
                    /\ WriteUnlock(a) /\ EndCall(u)
                    /\ UNCHANGED <<tmpDir, cacheWrites>>

\* mutant: NewCache keeps what it finds below tmp
NewCacheKeepsTmp == /\ DiskFault
                    /\ writeLocked' = {} /\ readLocked' = [a \in Artifacts |-> 0]
                    /\ user' = [u \in CacheUsers |-> AtRest]
                    /\ damaged' = {a \in damaged : cacheDir[a] # NoDir}
                    /\ UNCHANGED <<tmpDir, cacheDir, cacheWrites>>

\* The process dies and NewCache opens the same root.
CrashAndNewCache == /\ DiskFault
                    /\ tmpDir' = [a \in Artifacts |-> NoDir]
                    /\ writeLocked' = {} /\ readLocked' = [a \in Artifacts |-> 0]
                    /\ user' = [u \in CacheUsers |-> AtRest]
                    /\ damaged' = {a \in damaged : cacheDir[a] # NoDir}
                    /\ UNCHANGED <<cacheDir, cacheWrites>>

CacheNext ==
  \/ CrashAndNewCache
  \/ \E u \in CacheUsers, a \in Artifacts :
       \/ Create(u, a) \/ MakeTmpDir(u, a) \/ MakeTmpDirFails(u, a) \/ FillTmpDir(u, a)
       \/ Commit(u, a) \/ CommitOrAbortFails(u, a) \/ Abort(u, a)
       \/ FileCreatePanics(u, a) \/ CommitDespiteClose(u, a)
       \/ Get(u, a) \/ Stat(u, a) \/ Unlock(u, a)
       \/ RemoveArtifact(u, a) \/ RemoveFiles(u, a) \/ RemoveEnds(u, a)

CacheSpec == CacheInit /\ [][CacheNext]_cacheVars

---------------------------------------------------------------------------
(* Properties                                                              *)

UsersIn(a, calls) == {u \in CacheUsers : user[u].id = {a} /\ user[u].in \in calls}

\* The maps say who is inside: one user at most in Create or Remove of an
\* artifact, nobody reading it meanwhile, every reader counted, and a lock
\* without a user only where filecache's Write panicked (filecache.go:88).
\* Hence between Get and unlock the artifact stays what it was (cache.go:82-102).
LocksAreExact ==
  \A a \in Artifacts :
    /\ UsersIn(a, {"create", "fill", "remove"}) # {} => a \in writeLocked
    /\ Cardinality(UsersIn(a, {"create", "fill", "remove"})) <= 1
    /\ readLocked[a] = Cardinality(UsersIn(a, {"stat", "read"}))
    /\ a \in writeLocked => readLocked[a] = 0
    /\ a \in writeLocked /\ a \notin damaged => UsersIn(a, {"create", "fill", "remove"}) # {}
    /\ \A u \in UsersIn(a, {"read"}) : cacheDir[a] = user[u].on

\* Whatever crashes, an artifact in the cache is whole and of one write.  The
\* exceptions are calls that ended halfway: a Remove that failed or crashed
\* leaves part of it in the cache (cache.go:144), the directory that a failed
\* commit or abort leaves below tmp is filled again (cache.go:153), and a file
\* whose Close fails is committed all the same (filecache.go:69-70).
ArtifactsAreWhole ==
  \A a \in Artifacts \ damaged :
    \/ cacheDir[a] = NoDir
    \/ cacheDir[a].whole /\ Cardinality(cacheDir[a].writes) = 1
============================================================================
