---------------------------- MODULE MCConcurrent ----------------------------
(* TLC instance of the small concurrent programs: one of them runs in each  *)
(* behaviour, the others have ended.                                        *)
EXTENDS WaitGroup, Once, DiskUsage, Memo, Merge, Chat

VARIABLE program   \* the program that runs

concVars == <<program, wgVars, onceVars, duVars, memoVars, mergeVars, chatVars>>

---------------------------------------------------------------------------
(* A tree of four directories: two in the root, one more in one of them.   *)

Tree == [d \in 1..4 |-> CASE d = 1 -> {2, 3} [] d = 2 -> {4} [] OTHER -> {}]
TreeFiles == [d \in 1..4 |-> IF d = 1 THEN 0 ELSE 1]

---------------------------------------------------------------------------
(* The programs when they have ended.                                      *)

OnceEnded == first = TRUE /\ locked = 1 /\ oncePc = [g \in OnceUsers |-> "returned"]

DuEnded == /\ du = 1 /\ walk = [d \in Dirs |-> "over"] /\ todo = [d \in Dirs |-> NoEntries]
           /\ sizesOpen = FALSE /\ done = FALSE /\ duMain = "over" /\ nfiles = 0 /\ listed = 0

MemoEnded ==
  /\ memo = "memo1" /\ memoMu = {}
  /\ entry = [k \in MemoKeys |-> 1] /\ fCalls = [k \in MemoKeys |-> 1]
  /\ getter = [g \in Getters |-> [at |-> "returned", key |-> CHOOSE k \in MemoKeys : TRUE, value |-> 1]]

MergeEnded ==
  /\ inputCap = [c \in Inputs |-> 0] /\ input = [c \in Inputs |-> <<>>] /\ inputClosed = Inputs
  /\ sentOn = [c \in Inputs |-> 0] /\ forwarder = [c \in Inputs |-> -1]
  /\ mainCh = <<>> /\ mainClosed = TRUE /\ received = <<>>

ChatEnded == /\ conn = [c \in Conns |-> "closed"] /\ writer = [c \in Conns |-> "over"]
             /\ chClients = {} /\ toDeliver = {} /\ chClosed = Conns /\ linesLeft = 0

---------------------------------------------------------------------------
ConcInit ==
  /\ program \in {"waitgroup", "once", "du", "memo", "merge", "chat"}
  /\ WgInit
  /\ IF program = "once" THEN OnceInit ELSE OnceEnded
  /\ IF program = "du" THEN DuInit ELSE DuEnded
  /\ IF program = "memo" THEN MemoInit ELSE MemoEnded
  /\ IF program = "merge" THEN MergeInit ELSE MergeEnded
  /\ IF program = "chat" THEN ChatInit ELSE ChatEnded

ConcNext ==
  /\ UNCHANGED program
  /\ \/ /\ program = "waitgroup" /\ WgNext
        /\ UNCHANGED <<onceVars, duVars, memoVars, mergeVars, chatVars>>
     \/ /\ program = "once" /\ OnceNext
        /\ UNCHANGED <<wgVars, duVars, memoVars, mergeVars, chatVars>>
     \/ /\ program = "du" /\ DuNext
        /\ UNCHANGED <<wgVars, onceVars, memoVars, mergeVars, chatVars>>
     \/ /\ program = "memo" /\ MemoNext
        /\ UNCHANGED <<wgVars, onceVars, duVars, mergeVars, chatVars>>
     \/ /\ program = "merge" /\ MergeNext
        /\ UNCHANGED <<wgVars, onceVars, duVars, memoVars, chatVars>>
     \/ /\ program = "chat" /\ ChatNext
        /\ UNCHANGED <<wgVars, onceVars, duVars, memoVars, mergeVars>>

ConcSpec == /\ ConcInit /\ [][ConcNext]_concVars
            /\ OnceFairness /\ DuFairness /\ MemoFairness /\ MergeFairness /\ ChatFairness

---------------------------------------------------------------------------
(* Properties                                                              *)

\* The variables of the programs hold what they may hold: no channel is closed
\* twice, no mutex has two owners.
ConcTypeOK == WgTypeOK /\ OnceTypeOK /\ DuTypeOK /\ MemoTypeOK

\* Those who wait are let go in time: nobody is blocked in Wait when the counter
\* is at zero, and nobody leaves Do while f runs (waitgroup.go:23, once.go:28-32).
LetGoInTime == NobodyStrandedAtZero /\ NoReturnDuringF

\* Each channel is closed by who knows the last send to be over, and all that
\* was sent comes out: the sizes of du, the merged values of MergeChans, the
\* lines of chat (du4:65-88, genericsum.go:57-74, chat.go:31-61).
ChannelsKeepAll == SizesClosedLast /\ MergeKeepsAll /\ NoSendToTheGone

\* Nobody is left behind: each caller of Once.Do and of a memo returns, du
\* and MergeChans come to their end, a chat lets its leavers go.
NobodyIsLeftBehind == EveryDoEnds /\ DuEnds /\ EveryGetReturns /\ MergeEnds /\ LeaversAreLetGo
=============================================================================
