----------------------------- MODULE RateLimit -----------------------------
(***************************************************************************)
(* ratelimit/ratelimit.go: a channel of maxCount tokens.  Acquire takes    *)
(* one and starts a timer whose callback puts one back after the interval. *)
(* Stop turns new calls away and waits for those under way; whoever then   *)
(* finds that all are done stops the timers that still run.                *)
(*                                                                         *)
(* Time passes in ticks, and only the time left counts: a callback may     *)
(* start, and run, any time after its timer is due.  Every section under   *)
(* l.mutex is one step.  taskCnt and doneTaskCnt are only ever incremented *)
(* and compared with each other: the model keeps their difference.         *)
(***************************************************************************)
EXTENDS Integers, Sequences, FiniteSets, Functions

CONSTANTS Acquirers, Stoppers,   \* the goroutines that call Acquire, and Stop
          maxCount, interval

LimiterUsers == Acquirers \cup Stoppers

ASSUME RateLimitAssumption ==
  /\ IsFiniteSet(LimiterUsers)
  /\ maxCount \in Nat
  /\ interval \in Nat \ {0}

\* A timer in queue may be gone already and one that is gone from queue may
\* still run its callback, at most maxCount of each.
Timers == 1 .. 2 * maxCount

Due == 0
Fired == -1      \* the callback has started and waits for the mutex

VARIABLES
  tokens,
  timers,       \* the timers that will still put a token back: ticks left, Due or Fired
  queue,        \* of timers
  tasks,        \* taskCnt - doneTaskCnt
  stopped,
  stopBlocker,  \* TRUE when stopBlocker1 is closed
  ctxDone,    \* ctxDone[g]: the context of g's call is done
  recent,       \* history: recent[a] tokens were taken a ticks ago
  rlPc

rlVars == <<tokens, timers, queue, tasks, stopped, stopBlocker, ctxDone, recent, rlPc>>

RlPCs == {"idle", "select", "arm", "count", "countErr", "check", "checkStop", "waitStop"}

RlTypeOK ==
  /\ tokens \in 0..maxCount
  /\ DOMAIN timers \subseteq Timers
  /\ \A t \in DOMAIN timers : timers[t] \in Fired..interval
  /\ queue \in Seq(Timers)
  /\ tasks \in 0..Cardinality(LimiterUsers)
  /\ stopped \in BOOLEAN
  /\ stopBlocker \in BOOLEAN
  /\ ctxDone \in [LimiterUsers -> BOOLEAN]
  /\ recent \in [0..(interval - 1) -> Nat]
  /\ rlPc \in [LimiterUsers -> RlPCs]

RlInit ==
  /\ tokens = maxCount
  /\ timers = << >>
  /\ queue = << >>
  /\ tasks = 0
  /\ stopped = FALSE
  /\ stopBlocker = FALSE
  /\ ctxDone = [g \in LimiterUsers |-> FALSE]
  /\ recent = [a \in 0..(interval - 1) |-> 0]
  /\ rlPc = [g \in LimiterUsers |-> "idle"]

RlGoto(g, label) == rlPc' = [rlPc EXCEPT ![g] = label]

limiter == <<tokens, timers, queue, tasks, stopped, stopBlocker>>

Entries == {queue[i] : i \in 1..Len(queue)}

---------------------------------------------------------------------------
(* Time and timers.                                                        *)

Tick ==
  /\ \/ \E t \in DOMAIN timers : timers[t] > Due
     \/ \E a \in DOMAIN recent : recent[a] > 0
  /\ timers' = [t \in DOMAIN timers |-> IF timers[t] > Due THEN timers[t] - 1 ELSE timers[t]]
  /\ recent' = [a \in DOMAIN recent |-> IF a = 0 THEN 0 ELSE recent[a - 1]]
  /\ UNCHANGED <<tokens, queue, tasks, stopped, stopBlocker, ctxDone, rlPc>>

\* The runtime starts the callbacks of timers that are due in any order.
StartCallback(t) ==
  /\ t \in DOMAIN timers
  /\ timers[t] = Due
  /\ timers' = [timers EXCEPT ![t] = Fired]
  /\ UNCHANGED <<tokens, queue, tasks, stopped, stopBlocker, ctxDone, recent, rlPc>>

\* mutant: as Callback, but the channel gets no token back.
CallbackDropsToken(t) ==
  /\ t \in DOMAIN timers
  /\ timers[t] = Fired
  /\ queue # << >>
  /\ queue' = Tail(queue)
  /\ timers' = Restrict(timers, DOMAIN timers \ {t})
  /\ UNCHANGED <<tokens, tasks, stopped, stopBlocker, ctxDone, recent, rlPc>>

\* The first timer leaves the queue, which need not be the one that fired.
Callback(t) ==
  /\ t \in DOMAIN timers
  /\ timers[t] = Fired
  /\ queue # << >>
  /\ tokens < maxCount
  /\ queue' = Tail(queue)
  /\ tokens' = tokens + 1
  /\ timers' = Restrict(timers, DOMAIN timers \ {t})
  /\ UNCHANGED <<tasks, stopped, stopBlocker, ctxDone, recent, rlPc>>

---------------------------------------------------------------------------
(* Acquire                                                                 *)

\* Done before the select is as good as done at the select.
CancelContext(g) == /\ rlPc[g] = "select"
                    /\ ~ctxDone[g]
                    /\ ctxDone' = [ctxDone EXCEPT ![g] = TRUE]
                    /\ UNCHANGED <<limiter, recent, rlPc>>

Return(g) == /\ RlGoto(g, "idle")
             /\ ctxDone' = [ctxDone EXCEPT ![g] = FALSE]

\* A call that finds the limiter stopped changes nothing (ErrStopped).
Enter(g) == /\ g \in Acquirers
            /\ rlPc[g] = "idle"
            /\ ~stopped
            /\ tasks' = tasks + 1
            /\ RlGoto(g, "select")
            /\ UNCHANGED <<tokens, timers, queue, stopped, stopBlocker, ctxDone, recent>>

ChooseDone(g) == /\ rlPc[g] = "select"
                 /\ ctxDone[g]
                 /\ RlGoto(g, "countErr")
                 /\ UNCHANGED <<limiter, ctxDone, recent>>

TakeToken(g) == /\ rlPc[g] = "select"
                /\ tokens > 0
                /\ tokens' = tokens - 1
                /\ recent' = [recent EXCEPT ![0] = @ + 1]
                /\ RlGoto(g, "arm")
                /\ UNCHANGED <<timers, queue, tasks, stopped, stopBlocker, ctxDone>>

\* mutant: as Arm, but the timer is one tick short.
ArmShort(g) ==
  LET unused == Timers \ (DOMAIN timers \cup Entries)
      t == CHOOSE u \in unused : \A v \in unused : u <= v
  IN
  /\ rlPc[g] = "arm"
  /\ timers' = [u \in DOMAIN timers \cup {t} |-> IF u = t THEN interval - 1 ELSE timers[u]]
  /\ queue' = Append(queue, t)
  /\ RlGoto(g, "count")
  /\ UNCHANGED <<tokens, tasks, stopped, stopBlocker, ctxDone, recent>>

\* mutant: as Arm, but a token taken for a context that is done meanwhile is dropped.
ArmUnlessCancelled(g) ==
  LET unused == Timers \ (DOMAIN timers \cup Entries)
      t == CHOOSE u \in unused : \A v \in unused : u <= v
  IN
  /\ rlPc[g] = "arm"
  /\ IF ctxDone[g]
     THEN UNCHANGED <<timers, queue>>
     ELSE /\ timers' = [u \in DOMAIN timers \cup {t} |-> IF u = t THEN interval ELSE timers[u]]
          /\ queue' = Append(queue, t)
  /\ RlGoto(g, "count")
  /\ UNCHANGED <<tokens, tasks, stopped, stopBlocker, ctxDone, recent>>

\* time.AfterFunc starts the timer under the mutex that orders the queue.
Arm(g) ==
  LET unused == Timers \ (DOMAIN timers \cup Entries)
      t == CHOOSE u \in unused : \A v \in unused : u <= v
  IN
  /\ rlPc[g] = "arm"
  /\ timers' = [u \in DOMAIN timers \cup {t} |-> IF u = t THEN interval ELSE timers[u]]
  /\ queue' = Append(queue, t)
  /\ RlGoto(g, "count")
  /\ UNCHANGED <<tokens, tasks, stopped, stopBlocker, ctxDone, recent>>

Count(g) == /\ rlPc[g] \in {"count", "countErr"}
            /\ tasks' = tasks - 1
            /\ RlGoto(g, "check")
            /\ UNCHANGED <<tokens, timers, queue, stopped, stopBlocker, ctxDone, recent>>

---------------------------------------------------------------------------
(* checkTasksCompl and Stop                                                *)

\* mutant: as checkTasksCompl, without a look at the tasks.
CompleteWhenStopped ==
  IF stopped
  THEN /\ timers' = Restrict(timers, {t \in DOMAIN timers : t \in Entries => timers[t] = Fired})
       /\ stopBlocker' = TRUE
  ELSE UNCHANGED <<timers, stopBlocker>>

\* mutant: as checkTasksCompl, but it stops only the first timer.
CompleteStopsFirst ==
  IF stopped /\ tasks = 0
  THEN /\ timers' = Restrict(timers, {t \in DOMAIN timers :
                                       queue # << >> /\ t = queue[1] => timers[t] = Fired})
       /\ stopBlocker' = TRUE
  ELSE UNCHANGED <<timers, stopBlocker>>

\* A timer whose callback has started cannot be stopped any more.
checkTasksCompl ==
  IF stopped /\ tasks = 0
  THEN /\ timers' = Restrict(timers, {t \in DOMAIN timers : t \in Entries => timers[t] = Fired})
       /\ stopBlocker' = TRUE
  ELSE UNCHANGED <<timers, stopBlocker>>

Check(g) == /\ rlPc[g] = "check"
            /\ checkTasksCompl
            /\ Return(g)
            /\ UNCHANGED <<tokens, queue, tasks, stopped, recent>>

SetStopped(g) == /\ g \in Stoppers
                 /\ rlPc[g] = "idle"
                 /\ stopped' = TRUE
                 /\ RlGoto(g, "checkStop")
                 /\ UNCHANGED <<tokens, timers, queue, tasks, stopBlocker, ctxDone, recent>>

CheckStop(g) == /\ rlPc[g] = "checkStop"
                /\ checkTasksCompl
                /\ RlGoto(g, "waitStop")
                /\ UNCHANGED <<tokens, queue, tasks, stopped, ctxDone, recent>>

StopReturns(g) == /\ rlPc[g] = "waitStop"
                  /\ stopBlocker
                  /\ RlGoto(g, "idle")
                  /\ UNCHANGED <<limiter, ctxDone, recent>>

---------------------------------------------------------------------------
\* What a goroutine inside a call does as soon as it can, the token apart.
Running(g) == \/ ChooseDone(g) \/ Arm(g) \/ Count(g) \/ Check(g)
              \/ CheckStop(g) \/ StopReturns(g)

RlNext == \/ Tick
          \/ \E t \in Timers : StartCallback(t) \/ Callback(t)
          \/ \E g \in LimiterUsers : \/ Enter(g) \/ SetStopped(g)
                                     \/ CancelContext(g) \/ TakeToken(g) \/ Running(g)

RlSpec == RlInit /\ [][RlNext]_rlVars

\* Time passes, due timers fire, goroutines run, and the receivers of a channel
\* are served first come first served, so that each gets a token in turn.
RlFairness ==
  /\ WF_rlVars(Tick)
  /\ WF_rlVars(\E t \in Timers : StartCallback(t))
  /\ WF_rlVars(\E t \in Timers : Callback(t))
  /\ \A g \in LimiterUsers : WF_rlVars(Running(g)) /\ SF_rlVars(TakeToken(g))

RlLiveSpec == RlSpec /\ RlFairness

---------------------------------------------------------------------------
(* Properties                                                              *)

Started == {t \in DOMAIN timers : timers[t] = Fired}

\* In no window of the length of the interval more than maxCount calls get a
\* token (NewLimiter, ratelimit.go:31-32, and ratelimit/README.md).
RateBound == SumFunction(recent) <= maxCount

\* Until everything is stopped no token gets lost or is made up: each is in the
\* channel, with a call that has not started its timer, or with a timer.  And
\* always a callback that runs finds a queue entry and room for its token,
\* although others may have popped its own entry (ratelimit.go:83-85).
TokensConserved ==
  /\ ~stopBlocker =>
       tokens + Cardinality({g \in LimiterUsers : rlPc[g] = "arm"}) + Cardinality(DOMAIN timers) = maxCount
  /\ Cardinality(Started) <= Len(queue)
  /\ tokens + Cardinality(Started) <= maxCount

\* When Stop is about to return, no call that it did not refuse is under way,
\* and none follows (ratelimit.go:49).
StopWaitsForAll ==
  stopBlocker => \A g \in LimiterUsers : rlPc[g] \notin {"select", "arm", "count", "countErr"}

\* Whoever finds all done stops every timer that still has time to run, also
\* those whose place in the queue another callback took.
NoTimerLeftTicking == stopBlocker => \A t \in DOMAIN timers : timers[t] <= Due

\* After Stop nothing of the limiter runs on: no call and no timer
\* (ratelimit.go:46-58, 98-104).
StopLeavesNothing == RlTypeOK /\ StopWaitsForAll /\ NoTimerLeftTicking

\* A call returns: a token comes back for it if its context is not done.
AcquireReturns == \A g \in LimiterUsers : rlPc[g] = "select" ~> rlPc[g] = "idle"

\* Stop returns: the last call under way, or Stop itself, finds all done.
StopCompletes == \A g \in LimiterUsers : rlPc[g] = "waitStop" ~> rlPc[g] = "idle"

\* Both: nobody is left waiting in the limiter (ratelimit.go:77, 103).
NobodyStaysInside == AcquireReturns /\ StopCompletes
=============================================================================
