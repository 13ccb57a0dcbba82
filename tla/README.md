# Verification of the shad-go tasks

The repository holds the solutions of a Go course: one directory per task. Some
are concurrent objects whose whole point is an argument about interleavings,
some are small services and storages with failures and restarts, some are
algorithms. This project models them in TLA+, checks the models with TLC and
proves the central results with TLAPS.

1. [Inventory](#inventory)
2. [Modules and how they correspond to the code](#modules)
3. [Runs: what is checked, and the bounds](#runs)
4. [Fairness](#fairness)
5. [What is proved](#what-is-proved)
6. [Where the code and its documentation disagree](#findings)
7. [What is not modelled](#not-modelled)
8. [Plan](#plan)

## Inventory

The tasks share no state and do not call each other, with two exceptions:
`batcher` reads a `batcher/slow` value, and in `distbuild` the file cache is
built on the artifact cache (most of the other packages there are stubs). So a
component is a task, and the interactions are those of goroutines, callers and
messages inside one.

| component | state | operations | what is hard | what makes it correct |
|---|---|---|---|---|
| `keylock` | set of locked keys; two queues of waiters per key; per waiter a count of locked keys, a flag and a one-place channel | `LockKeys` with a cancel channel, the unlock function it returns | cancellation that races with the wake-up that took the keys; a loop that changes the queues it walks over; a send under the mutex | owners disjoint; queues and counts agree with the locked keys; a waiter whose keys are all free is woken; a cancelled call returns |
| `rwmutex` | two one-place channels as mutexes, reader count | `RLock`, `RUnlock`, `Lock`, `Unlock` | a mutex taken by one reader and freed by another; a first reader blocked with the other mutex held | exclusion; leaving never blocks; readers get in |
| `waitgroup` | counter, current channel and whether it is closed | `Add`, `Done`, `Wait` | reuse: waiters of an old round and a new channel | released by zero, and only by zero |
| `once` | two channels | `Do` | panic of the function; callers that arrive while it runs | one call; nobody returns before it ends; everybody returns |
| `cond` | queue of channels, the caller's `Locker` | `Wait`, `Signal`, `Broadcast` | the gap between giving up `L` and blocking | no lost wake-up, waiters in order |
| `batcher` | wait groups, `Once`, result, counter and two flags, replaced while goroutines hold the old ones; a mutex that one goroutine locks and another unlocks | `Load` | the hand-over of the locked mutex through a `WaitGroup`; private copies of shared pointers | one reading at a time; no stale result; every `Load` returns |
| `ratelimit` | token channel, queue of timers, two counters, a stopped flag | `Acquire`, `Stop`, timer callbacks | time; callbacks in any order popping each other's queue entries; `Stop` against the last caller | rate bound; tokens conserved; `Stop` waits for all, and nobody is left waiting |
| `pubsub` | table of subjects, list of subscriptions per subject, two channels and a buffer per subscription, a wait group | `Subscribe`, `Unsubscribe`, `Publish`, `Close`; a buffer goroutine and a worker per subscription | two levels of locks; sends outside the upper one; closing channels that others send to; subscription racing with close | FIFO per publisher, nothing lost; no send on a closed channel; `Close` final; slow handlers hold up nobody |
| `retryupdate` | none of its own; a versioned key in a remote store | `UpdateValue` | lost requests and lost answers, other writers, the key removed | nobody's update overwritten; a function applied twice only after a lost answer |
| `distbuild/pkg/artifact`, `filecache` | read and write locks in memory, directories on disk | `Create`/commit/abort, `Get`, `Remove`; `Write` of a file | crash between steps, disk operations that fail, cleanup on error paths | an artifact is whole or absent; locks are held by exactly those inside |
| `ledger` | accounts in PostgreSQL | `CreateAccount`, `Deposit`, `Withdraw`, `Transfer` | row locks, rollback, updates that find no row, accounts created meanwhile | no money made or lost; no deadlock (both fail where a row is missing, see [Findings](#findings)) |
| `gossip` | members with metadata, connections | gRPC `Update` and `Ping`, rounds of `Run`, `AddSeed`, `UpdateMeta`, `Stop` | messages out of order or lost, peers that die between ping and insert | members are real, with metadata they had; dead ones are dropped |
| `externalsort` | files, a heap | `ReadLine`, `Merge`, `Sort` | lines that fall across the buffer; failure while a file is rewritten | output is the sorted input; no line lost |
| `urlshortener`, `coverme` | maps under a mutex | HTTP handlers, the client | check, then act; a todo read after the lock | what was answered stays true |
| `gitfame` | statistics under a mutex, a semaphore | a goroutine per file, parsing of `git blame` | headers given only once per commit; results in any order; files that fail | the statistics are those of the readable files |
| `middleware` | counters by route, a log | three middlewares around a handler | panics on the way out | the gauge counts and the log ends every request |
| `tools/testtool` (grade) | a temporary directory, verdicts, the reports | build, test, coverage, lint, report with retries | any command may fail; `log.Fatal` skips the deferred cleanup | tests are the private ones; the exit code is true |
| `lectures`: du1–du4, memo1–memo4, chat; `synconce`, cache of binaries; `genericsum.MergeChans` | channels, wait groups, maps under mutexes | walkers, `Get`, broadcaster, forwarders | closing a channel others send to; calling twice; leftovers after cancelling | nothing sent after close, nothing lost, everybody ends |
| `firewall` | rules compiled from a config | a request and its answer through a rule | several rules and patterns, limits at their edge | only what the rule allows goes through, whole |
| `olympics` | tables built from the data | three requests | aggregation, order with ties, limits | an answer is that of the data |
| `iprange` | lexer and parser state | parsing, expansion of ranges | generated LALR tables; masks and octets at their limits | accepts exactly the grammar; expands to exactly the addresses |
| `tabletest.ParseDuration` | none | parsing | overflow checks at every step | right or refused, never wrapped |
| `forth` | words, stack | `Process` | slices that share an array; redefinition | a row means what it says |
| `lrucache` | map and list | `Get`, `Set`, `Range`, `Clear` | order of use | the last uses, in order |
| `distbuild/pkg/build`, `hogwarts`, `hotelbusiness` | none | topological sorts, load of a hotel | cycles, missing or repeated ids, map order | dependencies first, once each |
| all others | none or stubs | text, reflection, programs, fixtures | – | – |

`PROJECT.json` lists every part with its sources and, under `hazards`, the
places in the code that a test would hardly reach, with the properties that
watch them.

## Modules

A goroutine is an element of a constant set and `pc` says where it is in the
method it called. Atomicity follows the code's own locks: a section under a
mutex in which nobody else can see an intermediate state is one step; reads,
sends, receives and calls outside are steps of their own; a section that blocks
inside, or whose intermediate states matter, is split and the mutex is a
variable. Every operator that a comment marks `mutant:` is a deliberately broken
variant of the action that follows it. No specification uses it; each is what a
plausible slip in the code would do, and the property it is listed with in
`PROJECT.json` is violated when it takes the place of the real action.

**KeyLock** (`keylock/keylock.go`), **KeyLockSpec** (what it promises).
`LockKeys` is `Call`, then `GrantNow` or `Enqueue` under `l.mu`, then `Woken` or `ChooseCancel` (the
select, which may choose either when both are ready) and, after a cancel,
`Withdraw` or `GiveBack`, depending on `inStarting`. The unlock function is
`Unlock`. `wakeUp` is the only section that is split: `WakeOne`/`WakeNone` per
key and `EndRelease`, with `mu` held by the releaser. The queues are sets. The
swap in `removeWaiter` destroys any order the appends may have had, so `WakeOne`
takes any waiter that is ready; in the code it is some particular one. Requests
are sets of keys.

**RWMutex** (`rwmutex/rwmutex.go`). `RLock` is `RLockFirst`
plus `FirstTakesWrite` (the first reader blocks on `mutWrite` with `mutRead`
held), or `RLockNext`. `RUnlock` receives from `mutWrite` with `mutRead` held;
the step needs the channel full, as the receive would block otherwise.

**WaitGroup**, **MCWaitGroup** (`waitgroup/waitgroup.go`). Channels have no
names: a goroutine in `Wait` knows whether the channel it captured is open
(then it is the current one) or closed. A negative counter is a panic that
stops the program.

**Once** (`once/once.go`). `FReturns` and `FPanics` are the two ways out of the
function, both through the deferred close.

**Cond**, **CondMonitor** (`cond/cond.go`). `Cond` has the steps of `Wait`,
`Signal` and `Broadcast`; `CondMonitor` composes them with the client that the
documentation prescribes: consumers that wait in a loop under `L`, producers
that change the condition under `L` and signal, in either order.

**Batcher**, **BatcherProofs** (`batcher/batcher.go` on `batcher/slow/value.go`). The objects that a
`Load` captures are a record in `batch`, `loc[g]` is the one `g` captured, and
`Current` the one the `Batcher` points to. `OnceStarts` moves the old objects,
with those who captured them, to another identifier. The mutex is a Boolean
without an owner, since the goroutine that unlocks it is not the one that locked
it. The slow value is a counter of its `Store`s, which makes "older than"
comparable. Go's `Once` and `WaitGroup` are taken at their documented meaning.
Its names (`BatcherInit`, `loadPc`, `Loaders`, ...) are its own because it shares a
run with `PubSub`.

**RateLimit** (`ratelimit/ratelimit.go`). `Tick` lets time pass; a due timer
starts its callback any time later (`StartCallback`), which then waits for the
mutex (`Callback`) and pops the front of the queue, whoever it belongs to.
`taskCnt - doneTaskCnt` is kept as one number because the code only compares
the two. `recent` is a history of tokens taken per tick.

**PubSub**, **PubSubProofs** (`pubsub/my_pubsub.go`). `p.mu` is `mu`. `q.mu` is not a variable:
it is only taken with `p.mu` held, so who has it for reading are the publishers
in `send` on that subject, `Sending(t)`, and a writer waits until there are
none. `dynBuffer` is the `Buffer*` actions, its final `write` loop the state
`drain`. The worker is `WorkerTakes`, `HandlerReturns`, `WorkerEnds`. Messages
are numbered by publisher and subject; `seen` is a history variable.

**RetryUpdate** (`retryupdate/update.go`). A value is the sequence of the
updates it went through, so that applying one twice or losing one shows in it.
Get and Set are steps that may fail before or after the service has acted.
Somebody else may remove the key. `updLocal` holds the locals of `UpdateValue`.

**ArtifactCache** (`distbuild/pkg/artifact/cache.go`,
`distbuild/pkg/filecache/filecache.go`). What is on disk (`tmpDir`, `cacheDir`)
and what is in memory (`writeLocked`, `readLocked`, the calls under way) are
apart: `Crash` loses the second and keeps the first, and the restart is
`NewCache`, which clears `tmp`. Each disk operation is a step and may fail;
`damaged` remembers the artifacts where that left something halfway.
`FileCreatePanics` and `CommitDespiteClose` are the two error paths of
`filecache.Write` where the code does something unexpected: it calls an `abort`
that is still nil, and it commits a file whose `Close` failed.

**Ledger** (`ledger/ledger.go`). Each statement of `Transfer` is a step. The
database is external and modelled from what the statements ask for: row locks
taken in the order of the ids on the rows that exist, the check that money is not
negative, rollback. `BeginFails` is the panic of the deferred `trx.Rollback` when
`Begin` gives no transaction (`ledger.go:79-83`). An update of a row that does not
exist changes nothing and is no error, as the code does not look at the number of
rows. Two variables tell where that money is: `noRow` counts deposits and withdrawals
that found no row, `lost` the debits and credits of committed transfers that found
none (`missed`, until the commit); a change of a row that exists is in neither.

**ExternalSort** (`externalsort/sort.go`, `io.go`). Files are sequences of
characters; `ReadLine` goes through its buffer piece by piece. Any read,
truncate or write may fail. `slices.Sort` gives some arrangement of the lines that is
in order (`Arrangements`, `Ordered`); which of two equal lines comes first cannot be
told.

**Gossip** (`gossip/gossip.go`). `jobs` is the set of goroutines and RPCs under
way; they overtake each other freely. A call fails when the other side is down,
or is lost (`MaxLosses`). `Ghosts` are addresses that never answer.

**WebServices** (`urlshortener/main.go`; `coverme/app`, `models`, `client`).
The shortener looks at its map twice with the draw of a key in between; todos
are handed out as pointers and read after the storage's lock is gone, so the
answer is composed in later steps, todo by todo.

**Gitfame** (`gitfame/parsing`, `gitfame/cmd/gitfame`). `NextOutput` gives the
porcelain output of a file line by line from the commits of its lines, each of which
is described once, before its first line; each goroutine parses it as it comes. `sem`
bounds the goroutines that run git.

**Middleware** (`middleware/`), **Grader** (`tools/testtool/commands`): the
stages a request, or a task, goes through, with each failure and with the
deferred calls that run or, after `log.Fatal`, do not.

**DiskUsage** (`lectures/03-goroutines/du1`–`du4`), **Memo** (memo1–memo4,
`synconce`, the cache of binaries of `testtool`), **Merge**
(`genericsum.MergeChans`), **Chat** (`lectures/03-goroutines/chat`). An
unbuffered send and its receive are one step of both sides. Variants of one
program share a module and a variable says which one runs.

**Firewall** (`firewall/cmd/firewall/main.go`) begins with the loop of `main` over the
config. A header rule is read through `([\w-]+): ([\w/-]+)`: `Kept` is what is left of
its pattern, `CompileHeaders` keeps the last one of each header, and `MainPanics` says
when nothing is left and `main` ends. Patterns of headers are therefore sequences of
symbols with `.` and `|`, matched anywhere in a value (`Matches`); the other regular
expressions, which the code passes on as they are, are the sets of what they match.

**Firewall**, **Olympics**, **IPRange**, **Duration**, **Forth**, **LRU**,
**Orders** (`TopSort`, `GetCourseList`, `ComputeLoad`) are algorithms. The code's
loops are folds and recursive operators with the code's own branches; the property
is a second definition that knows nothing of them (a table is ranked, a text is in
the grammar, a duration is the sum of its parts, a row means what its words were
defined as). The LALR tables of `iprange/y.go` are in the module as they are.
The slice of `forth` carries its backing array, because rows that fail write
into it.

Modules that compose: **MCConcurrent** and **MCServices** take the small modules, and
one component runs in each behaviour while the others rest in one state. This adds no
interaction, for the code has none; it lets one run check several components. **MCAlgorithms** has
the inputs of the algorithms and calls one of them in each behaviour; **MCPrograms** puts
it beside `MCServices` and `PubSub`. They are apart because some algorithms are
recursive, which keeps a module that reaches them out of the prover's hands; a step of
`MCPrograms` is one of `MCServices` or leaves its variables alone. **MCMonitors**
(`RWMutex` and `CondMonitor`) and **MCDelivery** (`Batcher` and `PubSub`) are the runs
with liveness: there a component that is not used stays in its initial state, where
none of the steps it is held to by fairness is enabled, so the fairness of one says
nothing of the other.

Proofs: **AdmissionProofs** (`keylock`, `ratelimit`), **BatcherProofs**, **PubSubProofs**,
**ConcurrentProofs** (the small concurrent programs, with a section for each),
**ServiceProofs** (the services), **ToolProofs** (the external sort, `gitfame`, the LRU
cache, the firewall) and **MCServicesProofs** (what holds of all that `MCServices` runs);
**SetLemmas** has the facts about finite sets and sums that they share.

## Runs

| run | instance | checks |
|---|---|---|
| `keylock` | 3 callers, 2 keys | `LockInv` (types, exclusion, the send under the mutex does not block); `BookkeepingExact` (locked keys, queues and counts tell the same story); `NoLostWakeup`; `ImplementsLiveness`: refines `KeyLockSpec` with its fairness (a request whose keys stay free is granted); `CancelReturns` |
| `monitors` | rwmutex with 4 goroutines; cond with 3 consumers, 2 producers, up to 2 items | `RWInv` (types, exclusion, the last reader can leave); `ReadersGoOn`; `MonitorInv` (types, the queue is the waiters, every item is announced to somebody); `NoSleepOnItems`; `SignalsReachEverybody` |
| `rwmutex_writer_starves` | 3 goroutines | violates `LockReturns`, see [Findings](#findings) |
| `waitgroup_negative` | 3 goroutines, negative deltas | violates `NobodyStrandedAtZero`, see [Findings](#findings) |
| `delivery` | batcher with 3 loaders and 1 store; pubsub with one of each, channels of 1, 5 messages | `BatchesApart` (types, one reading at a time, the mutex is passed on, no reset under somebody's hands); `NoStaleRead`; `LoadReturns`; `NothingHangs` |
| `ratelimit` | 2 acquirers, 2 stoppers (one is an acquirer too), 2 tokens, interval of 2 ticks | `RateBound`; `TokensConserved`; `StopLeavesNothing` (types, `Stop` waits for all, no timer left ticking); `NobodyStaysInside` |
| `concurrent` | wait group, once, du, memo, merge, chat | `ConcTypeOK` (types: no channel closed twice, no mutex with two owners); `LetGoInTime` (`NobodyStrandedAtZero` of the wait group, `NoReturnDuringF` of once), `ReleasedOnlyAtZero`, `CalledOnce`; `ChannelsKeepAll` (`SizesClosedLast` of du, `MergeKeepsAll`, `NoSendToTheGone` of chat); `ComputedOnce` (memo); `NobodyIsLeftBehind` (everybody comes to an end) |
| `programs` | the services, storages, tools and algorithms; pubsub with 2 publishers, 2 subscriptions, 1 closer, channels of 1, 2 messages | `ServicesTypeOK`; `AppliedOnce`, `NothingOverwritten` (retryupdate); `LocksAreExact`, `ArtifactsAreWhole` (caches); `MoneyConserved`, `DeadlockNeedsANewRow` (ledger); `SortIsRight`; `MembersAreReal` (gossip); `AnswersAreTrue` (`AnswersStayTrue` of the web services, `GaugeAndLogAgree` of the middleware, `StatsAreRight` of gitfame, `KeepsTheLastUsed` of lrucache); `GradeIsHonest`; `ResultsAreRight` (the algorithms, and the rows of forth); `InOrder` (with the types), `ChannelsSafe`, `CloseIsFinal` (pubsub) |
| `gossip_dead_member` | 2 peers, a ghost, 3 goroutines at a time | violates `DeadMembersArePinged`, see [Findings](#findings) |
| `ledger_deadlock` | 2 clients, 2 accounts | violates `NoDeadlock`, see [Findings](#findings) |
| `ledger_lost_money` | 2 clients, 2 accounts | violates `TransfersLoseNothing`, see [Findings](#findings) |
| `firewall_headers` | the algorithms' inputs | violates `ForbiddenHeadersRefused`, see [Findings](#findings) |

An invariant that is named after several others is their conjunction; each part
is stated and commented where it is defined, and has a mutant of its own where the
parts are about different hazards.

Why the bounds are enough to be interesting:

* *keylock*: three callers and two keys let two waiters compete for one release
  and let one wake-up put another waiter's free key back among the locked ones.
  Any number of callers and keys is covered by the proofs.
* *rwmutex*: two readers that overlap and two writers that compete; proofs cover
  the rest.
* *cond*: with three consumers one can take the item a woken one was woken for
  while another still sleeps; two producers can add before either has signalled.
* *batcher*: a reader for itself, a batch of two that shares the next reading, and
  a late one that comes back while that runs. `MaxStores = 1` tells "before" from
  "after", all that staleness can depend on.
* *ratelimit*: with two tokens two timers can be ticking, due and started in any
  combination, so that callbacks pop each other's entries; two ticks make two
  timers of different age. A stopper that also acquires can stop, and come back.
* *pubsub*: capacity 1 stands for the 100 of the code (`Chan` is a constant): all
  that matters is that a channel may be full. Five messages are more than the two
  channels and the worker hold, so only the buffer in between lets the publisher
  go on. One goroutine closes the bus; several are covered by the proofs.
* *concurrent*: the wait group's counter returns to zero again and again, with
  waiters of the round before still inside `Wait` (four goroutines, counter up to
  3); five callers of `once`. A tree of four directories has siblings and a
  grandchild, and with two tokens a walker has to wait. Three callers and two keys let
  two miss together while a third comes late. Inputs of `MergeChans` are buffered
  or not, and two values show order. In a chat of three one hangs up while
  another is told of the third.
* *retryupdate*: two updaters and five versions are enough for a lost answer
  followed by a foreign write, a conflict and a removal of the key.
* *caches*: three users make a reader, a writer and a remover of one artifact (all
  locks are per artifact); three writes and two faults allow a crash, then a failed
  operation in the repair. *ledger*: two crossing transfers of two accounts, any of
  which may not exist yet, or come to be between two statements; `MaxNoRow = 1` bounds
  the changes that find no row, and lets each kind of them happen.
* *externalsort*: two files of up to three characters over a buffer of two bytes:
  a line ends before, at and behind the end of the buffer, in the last line with
  and without newline, and is empty.
* *gossip*: two goroutines at a time, one lost call, one peer that stops; a member
  that is pinged by one goroutine and dropped by another needs no more.
* *web services, middleware*: two callers, two addresses, two todos; three
  requests and one route beside requests without one. *gitfame*: three files, one empty and one of
  another extension, two commits with different authors and one committer; two
  runs of git at a time. *grader*: two tasks in two groups, one of which watches a
  directory.
* *algorithms*: the inputs are listed in `MCAlgorithms`. Widths are scaled so that
  each check is reached: an int64 of 7 bits, octets of 5 bits, a largest int of 7,
  units of 1, 6 and 3. `ParseDuration` gets every string of up to four of seven
  characters; the parser gets every text one edit away from three lists of targets and
  two edits away from a simple one; the sorts get every graph of up to three
  nodes with repeated and missing ids; `forth` gets every sequence of four rows out
  of ten. *lrucache*: every sequence of four uses of three keys with a capacity of
  0, 1 and 2.

Deadlock is checked except where the system does stop: `waitgroup_negative` (a
panic ends the program), `delivery` (the bus is closed and its goroutines are gone;
that every `Load` returns is `LoadReturns`), `concurrent`, `programs`,
`gossip_dead_member`, `ledger_deadlock`, `ledger_lost_money` and `firewall_headers`
(programs end, algorithms return, and bounds are used up).

## Fairness

* A goroutine that can go on does: weak fairness of its steps.
* Steps that wait for a `sync.Mutex` have strong fairness: the mutex goes into
  starvation mode after a millisecond and is handed to the longest waiter.
  Senders and receivers blocked on a channel are queued in order, which gives
  strong fairness to the waits of `rwmutex` and to the receive of a token in
  `ratelimit`.
* At the condition variable only consumers wait for `L` after a wake-up (strong
  fairness of `Relock`) and go on from there; producers signal what they have added and
  give `L` back. Nobody has to add an item or to call `Wait`.
* Time passes, due timers fire, and started callbacks run (`RateLimit`).
* Nobody is obliged to call an operation, to cancel, to stop or to close.
  Whoever holds a reader-writer lock gives it back; a `keylock` owner need not
  and the properties that hold there do not need it. A `pubsub` handler need not
  return: `PublishEnds` holds without, and `PipesEnd` states what it needs as a
  hypothesis. `SignalsReachEverybody` likewise assumes signals that keep coming.
* `concurrent` assumes of the goroutines of a program what the scheduler gives:
  those that can go on do, and in `Chat` those blocked on a send to the
  broadcaster are served in turn (strong fairness: a channel queues its senders)
  and writes to a connection return. Nobody has to press a key, type, hang up,
  send or close an input; `MergeEnds` has a receiver that goes on as a hypothesis. There
  is none for the wait group, whose properties are about safety.
* `programs`, `gossip_dead_member`, `ledger_deadlock`, `ledger_lost_money` and
  `firewall_headers` state safety only, without fairness.

## What is proved

Every safety property of the passing runs that a non-recursive module states is a theorem,
for every value of the constants; `PROJECT.json` lists them under `theorems`. Each
is of the form `Spec => []Inv` (or an action property) and rests on an inductive
invariant that TLC has checked on the run first. This is why each property is not
inductive by itself, and what makes it so.

**AdmissionProofs**, `keylock` (any callers, any finite set of keys): `LockSafe` (`LockInv`, from
`TypeCorrect`, `Exclusion` and `SendsDoNotBlock`), `Bookkeeping`
(`BookkeepingExact`), `NoWakeupLost` (`NoLostWakeup`), and `Implements`: `Spec`
implements `KeyLockSpec!Spec`. `MutualExclusion` depends on `allLockedKeys` being
exactly the owners' keys (`LockedExact`); that depends, when a waiter is woken, on
its count being right (`CountExact`), which depends on the queues holding exactly the
waiting calls (`QueuesExact`). `Tokens` says who can have a token in its blocker,
`MutexHeld` relates `mu` to the caller inside `wakeUp`, and `WakeupPending` carries
`NoLostWakeup` through the loop: a waiter that needs nothing more has a key that the
loop has yet to visit. The refinement maps an owner to `granted` from the step that
took the keys for it, not the one in which it notices.

**AdmissionProofs**, `ratelimit` (any callers, `maxCount` and `interval`): `TokensAreKept`
(`TokensConserved`), `RateIsKept` (`RateBound`), `StopIsClean`
(`StopLeavesNothing`). A callback pops the first entry of the queue, whoever it
belongs to, so a token is with an *entry* (`TokensExact`) and an entry is not with
its own timer; what saves the rate is that the timers stand in the queue in the
order in which they are due (`DueInOrder`), so that an entry taken by another
callback belonged to a timer that is due too (`OrphansDue`). From that, tokens taken
lately are at most those whose timers are young (`RecentOut`).

**BatcherProofs** (any loaders, any number of stores): `BatcherReadsFresh`
(`NoStaleRead`) and `BatcherKeepsApart` (`BatchesApart`). The argument is that the
batch which newcomers join goes through five phases: nobody at work (`Fresh`), one
who begins (`StartingOf`), one who reads for itself (`AloneOf`), the mutex handed to
those who waited (`Handed`), a reading for an older batch under way (`BusyOf`); and
that every older batch has its reader or its result (`OldOK`). A phase says who holds
`mucomp`, which no goroutine owns. `ReadingOK` has the ages: what is being read is no
older than any call it is for.

**PubSubProofs** (any publishers, subscriptions, closers, subjects and capacity):
`NoUseAfterClose` (`ChannelsSafe`) from what the two levels of locks guard: who holds
`p.mu` (`MuHeld`), that a list has open subscriptions to its subject, each once
(`ListsExact`), that `in` is closed late enough (`ClosedLate`), that whoever is
subscribed stands in the list while nobody empties the table (`SubscribedListed`), and
that what a `Publish` has yet to reach is still in the list (`TodoListed`), which is
what holding `q.mu` for reading is for. On top of it `BusInv` has what flows:
`MessagesInOrder` (`InOrder`) and `NothingAfterClose` (`CloseIsFinal`). The stream of
a subscription (out, buffer, in) holds the numbers of each publisher from the last one
seen up to the last one sent, or one less while that publisher has still to reach it
(`Streams`, with `StreamAppend`, `StreamTail` and `StreamMoves` for what the steps do
to it); a list to do names nobody twice (`TodoOnce`). `Pipes` is the life of a
buffer and its worker, which end empty, and `WgExact` says that `wg` counts them: so
nothing is under way when `Close` finds it at zero.

**ConcurrentProofs**:

* `rwmutex` (any finite set of goroutines): `LockSafe` (`RWInv`), which is
  `ReadersWriters` and `LastReader`. The invariant adds what the two channels stand
  for: the count is the number of readers, a first reader on its way included
  (`CountExact`), who holds `mutRead`, that `mutWrite` is full exactly for a writer or
  for readers that are in, and that a first reader still waiting is alone.
* `cond` (any consumers and producers): `MonitorSafe` (`MonitorInv`).
  `EveryItemIsAnnounced` is inductive together with the exact queue and with
  `OnlyConsumersWait`: a producer that signals trades what it owes for a consumer that
  is awake, since the front of the queue was asleep and is a consumer. `L` is not
  needed for it.
* `waitgroup` (any goroutines, positive deltas): `WgTypeCorrect`, `NobodyStranded`,
  `Released`. The types are not inductive alone (a closed channel means nothing to
  wait for); with `NobodyStrandedAtZero` they are, because only `Done` arrives at
  zero. The hypothesis `OnlyPositive` is what the second finding below is about.
* `once`: `OnceTypeCorrect`, `NobodyLeaves` (`NoReturnDuringF`), `Called`
  (`CalledOnce`), from what the two channels tell.
* `ChatNeverSendsToTheGone`: the broadcaster takes nothing new in hand before the last
  message is with everybody.
* `MemoComputesOnce` (all six caches): who calls `f` has claimed the entry, or holds
  the mutex (`OneClaims`, `MutexOwned`).
* `DuCountsAll` (any tree, any number of tokens): files listed are counted or are
  still with a walker, as a sum over the directories (`AllCounted`).
* `MergeLosesNothing` (any inputs and capacities): for each input, what waits in it
  was sent last, the forwarder has the one before, and all before that have come out in
  order (`PassedInOrder`).
* `ConcTypeCorrect` (`ConcTypeOK`), `ConcLetsGoInTime` (`LetGoInTime`) and `ConcKeepsAll`
  (`ChannelsKeepAll`) are about the composition that the run checks: `ConcIInv` has the
  invariant of the program that runs and the end states of the others.

**ServiceProofs**:

* `retryupdate`: `RetryOverwritesNothing` and `RetryReappliesOnlyIfUntold`. What a caller
  is about to write extends the value stored, or one that another caller has still to
  write (`LocalOK`): a version is never drawn twice, so a Set that succeeds replaces
  exactly what was read. The second theorem is not "at most once": a write whose answer
  was lost may be followed by a second application. It says that this is the only way
  to one, that it never stands on top of the first, and, while nobody has removed the
  key, that a call which returned without an error is in the value.
* `ledger`: `LedgerLosesOnlyWhatFindsNoRow` (`MoneyConserved`) and
  `LedgerDeadlocksOverNewRows` (`DeadlockNeedsANewRow`). What a transfer has taken,
  given and missed is told by its statement (`TransferOK`), and what it took and gave is
  in rows it holds, so a rollback finds it and the commit adds to `lost` exactly what
  found no row. The locking statements take rows in the order of the ids, so among
  transfers of a circle that all wait there, the one which waits for the greatest id
  waits for one that does not wait (`GreatestElement`): somebody is past it, and wants a
  row that it did not find. Both say how far the code keeps what its README asks; where
  it does not is in the findings.
* artifact cache: `CacheLocksAreExact`, `CacheHoldsWholeArtifacts`, through crashes and
  failed operations (`ArtifactOK`: a directory below `tmp` is of the one write that
  fills it, unless the artifact counts as damaged).
* `gossip`: `GossipMembersAreReal`. A message that is still under way carries metadata
  that its subject has had (`JobOK`), however late it comes.
* `testtool grade`: `GraderIsHonest`. The private files lie on top, layer by layer, and
  a report is of a verdict that does not change any more.
* `urlshortener` and `coverme`: `WebAnswersStayTrue`. A key that is about to be stored
  is in no map and with nobody else (`FreshKey`), so storing it takes no answer back;
  an answer that is being composed has seen the todos that were finished when it began,
  or will come to them (`SeenOrToSee`).
* `middleware`: `GaugeAndLogAlwaysAgree`. Who was refused has a status that says so and
  is not counted; who has no route answers 500 (`StatusOK`).

**ToolProofs**:

* `externalsort`: `SortIsAlwaysRight` (`SortIsRight`), for any files, letters and length
  of the buffer, and wherever a write fails. The invariant (`SortInv`) counts each line:
  in what a reader has still to give (the line begun, the buffer, the rest of the file,
  together one text), in memory, in the heap and in the output. `StandsAfterLead`
  and `TimesInLead` say that cutting a text behind a newline loses no line and makes none, so
  it does not matter where the buffer ends; before the merge a line is counted where it
  has got to, and a file that is being written back together with what is in memory. The
  output is in order because no reader, being in order itself, has less to give than its
  line in the heap.
* `gitfame`: `FameStatsAreRight` (`StatsAreRight`, with the types), for any commits,
  blame outputs and files, read in any order. `BlameOK`: what a goroutine has in
  `authors` is right for every commit whose header it has passed, so a line of a commit
  that was described long ago finds its name; the totals are sums over the files of what
  is parsed so far, of whole files at the end (`SumSupport`).
* `lrucache`: `LruKeepsTheLastUsed` (`KeepsTheLastUsed`), for any keys, values and
  capacity. The queue is the keys in the order of their last use (`QueueOK`); a use of
  `k` makes its last use the latest and moves none of the others (`LastUsesAfter`).
* `firewall`: `FirewallKeepsTheLastRule`, for any config, request and answer
  (`FirewallRight`, which is a part of `ResultsAreRight`). Reading one byte more than the
  limit tells whether a body is over it (`ReadBodyRight`), and the loop over the config
  leaves the last rule of an endpoint and the last pattern of a header (`LastRule`,
  `LastPattern`), which is what the rule says when the pattern is a word. Patterns that
  are replaced or cut are not part of the theorem; `firewall_headers` shows what becomes
  of them.

**MCServicesProofs**: `ServicesImplementEach`, that the composition implements the
specification of every component, since one that does not run stutters; from it, and from
the theorems above, `ServicesTypeAlwaysOK` (`ServicesTypeOK`) and `AnswersAreAlwaysTrue`
(`AnswersAreTrue`), for all values of the constants. In the run
that also has the algorithms `component` is "none" while one of them runs, and every
service stutters.

**SetLemmas** has what the others need about finite sets: an element with the
greatest number, and sums (`SumChange`, `SumRemove`, `SumZero`, ...) as
`SumFunctionOnSet` defines them. The library states induction with an operator as
parameter, which the provers here cannot instantiate; `SetInduction` states it with a
set of subsets instead and is proved from the well-foundedness of the strict subset
relation.

Assumptions used: the constants' `ASSUME`s only (finite sets, disjoint roles where the
code has them, `Free` and `Nobody` no goroutine, bounds that are numbers, a directory has one
parent) and, for the wait group, `OnlyPositive`. Every proof obligation is checked;
nothing is taken as an axiom.

Only model-checked:

* everything about liveness (`ImplementsLiveness`, `CancelReturns`, `ReadersGoOn`,
  `NoSleepOnItems`, `SignalsReachEverybody`, `LoadReturns`, `NobodyStaysInside`,
  `NothingHangs`, `NobodyIsLeftBehind`): the prover has no rules for fairness and
  `ENABLED` here;
* `ResultsAreRight`, but for its part about the firewall: what an algorithm computes for
  every input is an induction over data, and `IPRange`, `Forth`, `Duration` and `Orders`
  are recursive, which keeps `MCAlgorithms` and `MCPrograms` out of the prover's reach.

## Findings

* *A writer can starve* (`rwmutex_writer_starves`). The comment of
  `rwmutex.RWMutex` promises that a blocked `Lock` excludes new readers
  (`rwmutex.go:12-14`). `RLock` looks only at the reader count (line 52): while a
  reader is in, others enter without asking for `mutWrite`, so two readers that
  overlap in turn keep a writer out for ever, although each of them leaves.
* *A negative delta releases nobody* (`waitgroup_negative`). `Add` is documented
  to take a negative delta and to release the waiters at zero
  (`waitgroup.go:22-23`). Only `Done` closes the channel, so waiters stay blocked
  when `Add` brings the counter to zero.
* *A member that is gone may stay* (`gossip_dead_member`). The README of `gossip`
  says that a member which becomes unavailable must be removed
  (`gossip/README.md:24-25`). Only a failed call over a connection removes one, and
  it drops the connection too. A member that answers the ping of `AddSeed` or
  `Update` and stops before the lines that insert it (`gossip.go:98-102`,
  `265-269`), while another goroutine's call to it fails, is inserted without a
  connection, and no later round will ever ping it.
* *A transfer loses money* (`ledger_lost_money`). `Transfer` must move money from one
  account to another, atomically (`ledger/README.md:11`, `15`). Neither update looks at
  the number of rows it changed (`ledger.go:93-117`), so a transfer to an account that
  does not exist debits one side, commits and reports a success.
* *Transfers can deadlock* (`ledger_deadlock`). The README demands that there are no
  deadlocks in the database (`ledger/README.md:16`). The statement that locks the rows in
  the order of their ids (`ledger.go:85-91`) locks those that exist; an account created
  after it is locked by an update, in the order of the call. Two transfers in opposite
  directions then wait for each other. `DeadlockNeedsANewRow`, which is proved, says that
  this is the only way to a circle.
* *A header rule is not the expression that is written* (`firewall_headers`). The example
  config calls `forbidden_headers` regular expressions for header values
  (`firewall/configs/example.yaml:7`). `main` cuts each at its first character that is none
  of a word, `/` or `-`, and stores it under the header's name, where a second one
  replaces it (`main.go:242-254`): with the rules `H: a` and `H: b|a` a request with
  `a` in `H` goes through.

What the models show of the code beside this, where no document of the repository says
otherwise, is an exception in a property, named there with its line:

* `firewall`: only the last rule of a path counts, and a limit of the largest int wraps
  to an empty body;
* `iprange`: a mask longer than the address panics in the parser (`y.go:492`). Its README
  calls finding this bug the task (`iprange/README.md:5`), so the code keeps it on
  purpose; the property asks only that such a text gives no list. A range that goes down
  is meant to panic (`funcs.go:29-31`), but the difference that is looked at is unsigned
  and the check never fires: the expansion goes round, and the property, which compares
  with what the range says, is about ranges that go up;
* `filecache.Write` panics when the file cannot be created, which leaves the write lock
  behind (`filecache.go:88`), and a file whose `Close` failed is committed
  (`filecache.go:69-70`): `damaged` takes both out of `LocksAreExact` and
  `ArtifactsAreWhole`, which therefore do not watch them;
* `ledger`: `Transfer` panics when `Begin` fails (`ledger.go:79-83`);
* `UpdateValue` may apply a function twice when an answer is lost and the value has
  changed since;
* `forth`: a failed row leaves its values in the array below the stack
  (`eval.go:27`), and a row is judged by the stack as it finds it, so no property
  watches what the failed row has left.

## Not modelled

Inside the modelled components:

* `keylock`: a key named twice in one request; starvation of a waiter for many
  keys behind waiters for few, which the code does not promise to avoid.
* `rwmutex`, `waitgroup`, `cond`, `once`: misuse that the documentation calls a
  run-time error or a deadlock (`RUnlock` without `RLock`, `Wait` without `L`, a
  function that calls `Do` again), and a program that recovers from the panic of a
  negative counter.
* `pubsub`: `Unsubscribe` on a closed bus, which dereferences nil with `p.mu`
  held, handlers that call the bus, and a panic of `sync.WaitGroup` when `wg.Go`
  starts while `Close` waits at zero.
* `ratelimit`: time between a token and the return of `Acquire`; the rate is
  counted where the token is taken.
* artifact cache: `Range`, which only lists directories, and a second commit or
  abort of one `Create`, which the README of `distbuild` forbids. Ledger:
  `GetBalance`, which changes nothing.
* `gossip`: a peer that comes back after `Stop`; the generated code of `meshpb`.
* `firewall`: header rules with a pattern that has `: ` in it, and expressions other
  than symbols, `.` and `|` in them. `lrucache`: a negative capacity.
* `iprange`: invalid UTF-8 and runes from U+E000 on (the parser's own token
  numbers). `ParseDuration`: a `float64` is exact, as it is below 2^53. `forth`:
  ints do not overflow.
* `gitfame`, `olympics`: reading files, JSON and printing. `testtool`: what `go`,
  `rsync` and the linter do; export, git commands and the sandbox of the staff's
  other commands.

Parts without a module, with the reason in `PROJECT.json`: `distbuild`'s
`tarstream` (file input and output without state of its own); its scheduler,
worker, coordinator, clients and HTTP handlers, `consistenthash`, `dao`,
`shopfront` and `wscat` (stubs: there is no code to translate); `jsonrpc` and the
exercises on reflection, text, generics and ciphers (pure functions, or calls of
a library); short network and command line programs; test helpers, analysers,
fixtures and task texts; the WebAssembly game; the other examples of the
lectures (a few lines each). They keep no state over which an invariant could be
stated.

## Plan

Of what a non-recursive module states, nothing is left to prove but liveness, for which
the prover has no rules here. What could be added:

1. The recursive algorithms (`IPRange`, `Forth`, `Duration`, `Orders`) and the fold of
   `Olympics`, once the prover can do induction over data: each of them in a module of
   its own, so that its theorem does not wait for the others.
2. `distbuild`'s scheduler, worker and coordinator, when there is code to translate.
