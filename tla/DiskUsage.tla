----------------------------- MODULE DiskUsage -----------------------------
(***************************************************************************)
(* lectures/03-goroutines/du1..du4/main.go: four programs that add up the  *)
(* files of a tree.  du1 and du2 walk it in one goroutine; du3 and du4     *)
(* start a goroutine for each directory, of which sema lets a few read at  *)
(* a time; du4 stops early when the user presses a key.  The walkers hand  *)
(* every file to main over the unbuffered fileSizes, which is closed when  *)
(* all of them are over.                                                   *)
(***************************************************************************)
EXTENDS Integers, FiniteSets

CONSTANTS Dirs, Root,
          Subdirs,      \* Subdirs[d]: the directories in d
          NumFilesIn,   \* NumFilesIn[d]: how many files are in d
          SemaCap       \* the 20 of sema

\* The directories are a tree: the root is in none of them, others in one at most.
ASSUME DuAssumption ==
  /\ IsFiniteSet(Dirs) /\ Root \in Dirs /\ SemaCap \in Nat \ {0}
  /\ Subdirs \in [Dirs -> SUBSET (Dirs \ {Root})] /\ NumFilesIn \in [Dirs -> Nat]
  /\ \A d, e \in Dirs : Subdirs[d] \cap Subdirs[e] # {} => d = e

VARIABLES du,        \* the program: 1, 2, 3 or 4
          walk,      \* walk[d]: none, started, waiting, reading, sending or over
          todo,      \* todo[d]: the entries of d that are still to be visited
          sizesOpen, \* fileSizes is not closed
          done,      \* the channel done is closed
          duMain,    \* loop, drain or over
          nfiles,
          listed     \* the files that directories were found to have

duVars == <<du, walk, todo, sizesOpen, done, duMain, nfiles, listed>>

AllEntries(d) == [dirs |-> Subdirs[d], files |-> NumFilesIn[d]]
NoEntries == [dirs |-> {}, files |-> 0]
Below(d) == {e \in Subdirs[d] : e \notin todo[d].dirs}

DuTypeOK == /\ walk \in [Dirs -> {"none", "started", "waiting", "reading", "sending", "over"}]
            /\ \A d \in Dirs : todo[d].dirs \subseteq Dirs /\ todo[d].files \in Nat
            /\ duMain \in {"loop", "drain", "over"} /\ nfiles \in Nat

DuInit == /\ du \in 1..4
          /\ walk = [d \in Dirs |-> IF d = Root THEN "started" ELSE "none"]
          /\ todo = [d \in Dirs |-> NoEntries]
          /\ sizesOpen = TRUE /\ done = FALSE /\ duMain = "loop"
          /\ nfiles = 0 /\ listed = 0

WalkAt(d, label) == walk' = [walk EXCEPT ![d] = label]

\* The sequential walkers wait for the call on a subdirectory to return.
InCall(d) == du \in {1, 2} /\ \E e \in Below(d) : walk[e] \notin {"none", "over"}

---------------------------------------------------------------------------
(* dirents                                                                 *)

\* An error leaves no entries, or in du4 some of them.
Listings(d) == IF du = 4 THEN [dirs : SUBSET Subdirs[d], files : 0..NumFilesIn[d]]
                         ELSE {AllEntries(d), NoEntries}
Found(d) == \E found \in Listings(d) :
              /\ todo' = [todo EXCEPT ![d] = found]
              /\ listed' = listed + found.files

ReadDir(d) == /\ du \in {1, 2} /\ walk[d] = "started"
              /\ Found(d)
              /\ WalkAt(d, "sending")
              /\ UNCHANGED <<du, sizesOpen, done, duMain, nfiles>>

\* du4: walkDir looks at done before it goes to dirents.
NotCancelled(d) == /\ du = 4 /\ ~done /\ walk[d] = "started"
                   /\ WalkAt(d, "waiting")
                   /\ UNCHANGED <<du, todo, sizesOpen, done, duMain, nfiles, listed>>

\* The select of dirents may take the token though done is closed.
AcquireToken(d) == /\ walk[d] = (IF du = 4 THEN "waiting" ELSE "started") /\ du \in {3, 4}
                   /\ Cardinality({e \in Dirs : walk[e] = "reading"}) < SemaCap
                   /\ WalkAt(d, "reading")
                   /\ UNCHANGED <<du, todo, sizesOpen, done, duMain, nfiles, listed>>

ReadAndRelease(d) ==
  /\ walk[d] = "reading"
  /\ Found(d)
  /\ WalkAt(d, "sending")
  /\ UNCHANGED <<du, sizesOpen, done, duMain, nfiles>>

\* du4, in walkDir or while dirents waits for a token.
WalkCancelled(d) == /\ du = 4 /\ done /\ walk[d] \in {"started", "waiting"}
                    /\ WalkAt(d, "over")
                    /\ UNCHANGED <<du, todo, sizesOpen, done, duMain, nfiles, listed>>

---------------------------------------------------------------------------
(* walkDir                                                                 *)

VisitDirIn(d, e) == /\ walk[d] = "sending" /\ ~InCall(d)
                    /\ e \in todo[d].dirs
                    /\ todo' = [todo EXCEPT ![d].dirs = @ \ {e}]
                    /\ WalkAt(e, "started")
                    /\ UNCHANGED <<du, sizesOpen, done, duMain, nfiles, listed>>

\* A file goes to main, which counts it or, after a key, throws it away.
SendSize(d) == /\ walk[d] = "sending" /\ ~InCall(d)
               /\ todo[d].files > 0
               /\ duMain \in {"loop", "drain"}
               /\ todo' = [todo EXCEPT ![d].files = @ - 1]
               /\ nfiles' = IF duMain = "loop" THEN nfiles + 1 ELSE nfiles
               /\ UNCHANGED <<du, walk, sizesOpen, done, duMain, listed>>

WalkEnds(d) == /\ walk[d] = "sending" /\ ~InCall(d)
               /\ todo[d] = NoEntries
               /\ WalkAt(d, "over")
               /\ UNCHANGED <<du, todo, sizesOpen, done, duMain, nfiles, listed>>

---------------------------------------------------------------------------
(* main                                                                    *)

\* mutant: the group counts the root only
CloseAfterRoot == /\ sizesOpen
                  /\ walk[Root] = "over"
                  /\ sizesOpen' = FALSE
                  /\ UNCHANGED <<du, walk, todo, done, duMain, nfiles, listed>>

\* n.Wait: the group counts every walker that was started.
CloseSizes == /\ sizesOpen
              /\ \A d \in Dirs : walk[d] \in {"none", "over"}
              /\ sizesOpen' = FALSE
              /\ UNCHANGED <<du, walk, todo, done, duMain, nfiles, listed>>

\* mutant: main returns as soon as a key is pressed
ReturnAtOnce == /\ duMain = "loop" /\ done
                /\ duMain' = "over"
                /\ UNCHANGED <<du, walk, todo, sizesOpen, done, nfiles, listed>>

\* A byte comes on stdin, or its end.
PressKey == /\ du = 4 /\ ~done /\ duMain # "over"
            /\ done' = TRUE
            /\ UNCHANGED <<du, walk, todo, sizesOpen, duMain, nfiles, listed>>

Drain == /\ duMain = "loop" /\ done
         /\ duMain' = "drain"
         /\ UNCHANGED <<du, walk, todo, sizesOpen, done, nfiles, listed>>

MainReturns == /\ duMain # "over" /\ ~sizesOpen
               /\ duMain' = "over"
               /\ UNCHANGED <<du, walk, todo, sizesOpen, done, nfiles, listed>>

WalkStep(d) == \/ ReadDir(d) \/ NotCancelled(d) \/ AcquireToken(d) \/ ReadAndRelease(d) \/ WalkCancelled(d)
               \/ SendSize(d) \/ WalkEnds(d) \/ \E e \in Dirs : VisitDirIn(d, e)

DuNext == PressKey \/ Drain \/ CloseSizes \/ MainReturns \/ \E d \in Dirs : WalkStep(d)

DuSpec == DuInit /\ [][DuNext]_duVars

\* Goroutines that can go on do; nobody has to press a key.
DuFairness == /\ WF_duVars(\E d \in Dirs : WalkStep(d))
              /\ WF_duVars(CloseSizes) /\ WF_duVars(Drain) /\ WF_duVars(MainReturns)

---------------------------------------------------------------------------
(* Properties                                                              *)

\* fileSizes is closed when no walker is left that could send, which would
\* panic, and main goes through its loop to the end with all files counted
\* that were found, unless a key was pressed (du3:39-49, du4:65-88).
SizesClosedLast ==
  /\ ~sizesOpen => \A d \in Dirs : walk[d] \in {"none", "over"}
  /\ duMain = "over" /\ ~done => nfiles = listed

\* main returns, and no walker is left behind with a file nobody takes.
DuEnds == <>(duMain = "over" /\ \A d \in Dirs : walk[d] \in {"none", "over"})
============================================================================
