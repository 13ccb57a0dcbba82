------------------------------- MODULE PubSub -------------------------------
(***************************************************************************)
(* pubsub/my_pubsub.go: a bus with one channel pair per subscription.      *)
(* Publish puts a message into the channel `in' of every subscription of   *)
(* its subject; dynBuffer moves it on through an unbounded buffer to       *)
(* `out', from where a worker hands it to the handler.                     *)
(*                                                                         *)
(* p.mu guards the table of subjects, and q.mu, one per subject, its list  *)
(* of subscriptions.  q.mu is only ever taken with p.mu held, and written  *)
(* under a p.mu locked for writing, so the two RLocks of Publish are one   *)
(* step; a writer that holds p.mu may have to wait for the publishers.     *)
(*                                                                         *)
(* A subject without a list is one with an empty list: no operation tells  *)
(* them apart.  Not modelled: Unsubscribe on a closed bus (a nil           *)
(* dereference with p.mu held), and the context of a subscription, which   *)
(* nothing reads.                                                          *)
(***************************************************************************)
EXTENDS Integers, Sequences, FiniteSets, FiniteSetsExt, SequencesExt

CONSTANTS
  Publishers, Subs, Closers,   \* the goroutines; each of Subs subscribes once
  Subjects,
  Chan,         \* capacity of `in' and `out', 100 in the code
  MaxMsgs,      \* bound on the messages on one subject
  Free

Goroutines == Publishers \cup Subs \cup Closers

ASSUME PubSubAssumption ==
  /\ IsFiniteSet(Goroutines)
  /\ Subjects # {}
  /\ Chan \in Nat \ {0} /\ MaxMsgs \in Nat
  /\ Free \notin Goroutines

VARIABLES
  ctxDone,     \* p.ctx is done
  mu,          \* who holds p.mu for writing, or Free
  closed,      \* subjs is nil
  subs,        \* subs[t]: the subscriptions of subject t
  wg,          \* counter of p.wg
  in, inClosed, buf, out, outClosed, buffer,  \* of a subscription and its dynBuffer
  worker, isAlive,
  todo,        \* todo[p]: the subscriptions that Publish of p has still to reach
  subj,        \* subj[g]: the subject of a Publish or of a subscription
  sent,        \* sent[p][t]: how many messages p has published on t; they are numbered
  seen,        \* history: seen[s][p]: number of p's last message that s took, or began after
  pc

buffers == <<in, inClosed, buf, out, outClosed, buffer>>
workers == <<worker, seen>>
callers == <<todo, subj, sent>>
vars == <<ctxDone, mu, closed, subs, wg, buffers, workers, isAlive, callers, pc>>

Msgs == [from : Publishers, no : 1..MaxMsgs]

PCs == {"idle", "publish", "send", "subscribe", "start", "lockAdd", "add", "subscribed",
        "remove", "gone", "lockClose", "closeIn", "waitWg", "closed"}

TypeOK ==
  /\ ctxDone \in BOOLEAN /\ closed \in BOOLEAN
  /\ mu \in Goroutines \cup {Free}
  /\ subs \in [Subjects -> Seq(Subs)]
  /\ wg \in 0..(2 * Cardinality(Subs))
  /\ in \in [Subs -> Seq(Msgs)] /\ buf \in [Subs -> Seq(Msgs)] /\ out \in [Subs -> Seq(Msgs)]
  /\ \A s \in Subs : Len(in[s]) <= Chan /\ Len(out[s]) <= Chan
  /\ inClosed \in [Subs -> BOOLEAN] /\ outClosed \in [Subs -> BOOLEAN]
  /\ buffer \in [Subs -> {"off", "on", "drain"}]
  /\ worker \in [Subs -> {"off", "on", "handler"}]
  /\ isAlive \in [Subs -> BOOLEAN]
  /\ todo \in [Publishers -> Seq(Subs)]
  /\ subj \in [Publishers \cup Subs -> Subjects]
  /\ sent \in [Publishers -> [Subjects -> 0..MaxMsgs]]
  /\ seen \in [Subs -> [Publishers -> 0..MaxMsgs]]
  /\ pc \in [Goroutines -> PCs]

Init ==
  /\ ctxDone = FALSE /\ closed = FALSE
  /\ mu = Free
  /\ subs = [t \in Subjects |-> << >>]
  /\ wg = 0
  /\ in = [s \in Subs |-> << >>] /\ buf = in /\ out = in
  /\ inClosed = [s \in Subs |-> FALSE] /\ outClosed = inClosed /\ isAlive = inClosed
  /\ buffer = [s \in Subs |-> "off"] /\ worker = buffer
  /\ todo = [p \in Publishers |-> << >>]
  /\ subj = [g \in Publishers \cup Subs |-> CHOOSE t \in Subjects : TRUE]
  /\ sent = [p \in Publishers |-> [t \in Subjects |-> 0]]
  /\ seen = [s \in Subs |-> [p \in Publishers |-> 0]]
  /\ pc = [g \in Goroutines |-> "idle"]

Goto(g, label) == pc' = [pc EXCEPT ![g] = label]

\* The publishers that hold q.mu of subject t for reading.
Sending(t) == {p \in Publishers : pc[p] = "send" /\ subj[p] = t}

---------------------------------------------------------------------------
(* Publish                                                                 *)

\* The messages on subject t that are published or about to be.
PublishedBy(t) == [p \in Publishers |-> sent[p][t] + IF pc[p] = "publish" /\ subj[p] = t THEN 1 ELSE 0]
Published(t) == SumFunctionOnSet(PublishedBy(t), Publishers)

Publish(p, t) == /\ pc[p] = "idle"
                 /\ ~ctxDone
                 /\ Published(t) < MaxMsgs
                 /\ subj' = [subj EXCEPT ![p] = t]
                 /\ Goto(p, "publish")
                 /\ UNCHANGED <<ctxDone, mu, closed, subs, wg, buffers, workers, isAlive, todo, sent>>

PublishRefused(p) == /\ pc[p] = "publish"
                     /\ mu = Free
                     /\ closed
                     /\ Goto(p, "idle")
                     /\ UNCHANGED <<ctxDone, mu, closed, subs, wg, buffers, workers, isAlive, callers>>

\* The list stays as it is until the RUnlock of q.mu.
PublishLocks(p) == /\ pc[p] = "publish"
                   /\ mu = Free
                   /\ ~closed
                   /\ todo' = [todo EXCEPT ![p] = subs[subj[p]]]
                   /\ sent' = [sent EXCEPT ![p][subj[p]] = @ + 1]
                   /\ Goto(p, "send")
                   /\ UNCHANGED <<ctxDone, mu, closed, subs, wg, buffers, workers, isAlive, subj>>

Send(p) == LET s == Head(todo[p]) IN
           /\ pc[p] = "send"
           /\ todo[p] # << >>
           /\ Len(in[s]) < Chan
           /\ in' = [in EXCEPT ![s] = Append(@, [from |-> p, no |-> sent[p][subj[p]]])]
           /\ todo' = [todo EXCEPT ![p] = Tail(@)]
           /\ UNCHANGED <<ctxDone, mu, closed, subs, wg, inClosed, buf, out, outClosed, buffer,
                          workers, isAlive, subj, sent, pc>>

PublishReturns(p) == /\ pc[p] = "send"
                     /\ todo[p] = << >>
                     /\ Goto(p, "idle")
                     /\ UNCHANGED <<ctxDone, mu, closed, subs, wg, buffers, workers, isAlive, callers>>

---------------------------------------------------------------------------
(* Subscribe and Unsubscribe                                               *)

Subscribe(s, t) == /\ pc[s] = "idle"
                   /\ ~ctxDone
                   /\ subj' = [subj EXCEPT ![s] = t]
                   /\ Goto(s, "subscribe")
                   /\ UNCHANGED <<ctxDone, mu, closed, subs, wg, buffers, workers, isAlive, todo, sent>>

\* The first section makes the entry of the subject.
MakeSubject(s) == /\ pc[s] = "subscribe"
                  /\ mu = Free
                  /\ Goto(s, IF closed THEN "gone" ELSE "start")
                  /\ UNCHANGED <<ctxDone, mu, closed, subs, wg, buffers, workers, isAlive, callers>>

\* The goroutines start outside the mutex, also on a bus closed meanwhile.
StartPipe(s) == /\ pc[s] = "start"
                /\ wg' = wg + 2
                /\ buffer' = [buffer EXCEPT ![s] = "on"]
                /\ worker' = [worker EXCEPT ![s] = "on"]
                /\ isAlive' = [isAlive EXCEPT ![s] = TRUE]
                /\ Goto(s, "lockAdd")
                /\ UNCHANGED <<ctxDone, mu, closed, subs, in, inClosed, buf, out, outClosed, seen, callers>>

LockAdd(s) == /\ pc[s] = "lockAdd"
              /\ mu = Free
              /\ mu' = s
              /\ Goto(s, "add")
              /\ UNCHANGED <<ctxDone, closed, subs, wg, buffers, workers, isAlive, callers>>

AddRefused(s) == /\ pc[s] = "add"
                 /\ closed
                 /\ inClosed' = [inClosed EXCEPT ![s] = TRUE]
                 /\ mu' = Free
                 /\ Goto(s, "gone")
                 /\ UNCHANGED <<ctxDone, closed, subs, wg, in, buf, out, outClosed, buffer, workers, isAlive, callers>>

Add(s) == /\ pc[s] = "add"
          /\ ~closed
          /\ Sending(subj[s]) = {}
          /\ subs' = [subs EXCEPT ![subj[s]] = Append(@, s)]
          /\ seen' = [seen EXCEPT ![s] = [p \in Publishers |-> sent[p][subj[s]]]]
          /\ mu' = Free
          /\ Goto(s, "subscribed")
          /\ UNCHANGED <<ctxDone, closed, wg, buffers, worker, isAlive, callers>>

Unsubscribe(s) == /\ pc[s] = "subscribed"
                  /\ mu = Free
                  /\ ~closed
                  /\ mu' = s
                  /\ Goto(s, "remove")
                  /\ UNCHANGED <<ctxDone, closed, subs, wg, buffers, workers, isAlive, callers>>

\* The last of the list takes the place of s.
Without(list, s) == LET i == CHOOSE i \in 1..Len(list) : list[i] = s IN
                    Front(ReplaceAt(list, i, Last(list)))

\* mutant: as RemoveSub, without q.mu
RemoveAtOnce(s) == /\ pc[s] = "remove"
                   /\ inClosed' = [inClosed EXCEPT ![s] = TRUE]
                   /\ isAlive' = [isAlive EXCEPT ![s] = FALSE]
                   /\ subs' = [subs EXCEPT ![subj[s]] = Without(@, s)]
                   /\ mu' = Free
                   /\ Goto(s, "gone")
                   /\ UNCHANGED <<ctxDone, closed, wg, in, buf, out, outClosed, buffer, workers, callers>>

RemoveSub(s) == /\ pc[s] = "remove"
                /\ Sending(subj[s]) = {}
                /\ inClosed' = [inClosed EXCEPT ![s] = TRUE]
                /\ isAlive' = [isAlive EXCEPT ![s] = FALSE]
                /\ subs' = [subs EXCEPT ![subj[s]] = Without(@, s)]
                /\ mu' = Free
                /\ Goto(s, "gone")
                /\ UNCHANGED <<ctxDone, closed, wg, in, buf, out, outClosed, buffer, workers, callers>>

---------------------------------------------------------------------------
(* Close                                                                   *)

Close(c) == /\ pc[c] = "idle"
            /\ ctxDone' = TRUE
            /\ Goto(c, "lockClose")
            /\ UNCHANGED <<mu, closed, subs, wg, buffers, workers, isAlive, callers>>

LockClose(c) == /\ pc[c] = "lockClose"
                /\ mu = Free
                /\ mu' = c
                /\ Goto(c, "closeIn")
                /\ UNCHANGED <<ctxDone, closed, subs, wg, buffers, workers, isAlive, callers>>

\* Nobody sees a list again before subjs is nil.
CloseSubject(c, t) == /\ pc[c] = "closeIn"
                      /\ subs[t] # << >>
                      /\ Sending(t) = {}
                      /\ inClosed' = [s \in Subs |-> inClosed[s] \/ s \in ToSet(subs[t])]
                      /\ subs' = [subs EXCEPT ![t] = << >>]
                      /\ UNCHANGED <<ctxDone, mu, closed, wg, in, buf, out, outClosed, buffer,
                                     workers, isAlive, callers, pc>>

CloseTable(c) == /\ pc[c] = "closeIn"
                 /\ \A t \in Subjects : subs[t] = << >>
                 /\ closed' = TRUE
                 /\ mu' = Free
                 /\ Goto(c, "waitWg")
                 /\ UNCHANGED <<ctxDone, subs, wg, buffers, workers, isAlive, callers>>

\* mutant: as CloseReturns, but nobody waits for p.wg
CloseReturnsAtOnce(c) == /\ pc[c] = "waitWg"
                         /\ Goto(c, "closed")
                         /\ UNCHANGED <<ctxDone, mu, closed, subs, wg, buffers, workers, isAlive, callers>>

\* nil when p.wg is at zero.
CloseReturns(c) == /\ pc[c] = "waitWg"
                   /\ wg = 0
                   /\ Goto(c, "closed")
                   /\ UNCHANGED <<ctxDone, mu, closed, subs, wg, buffers, workers, isAlive, callers>>

\* The context given to Close is done first.
CloseGivesUp(c) == /\ pc[c] = "waitWg"
                   /\ Goto(c, "gone")
                   /\ UNCHANGED <<ctxDone, mu, closed, subs, wg, buffers, workers, isAlive, callers>>

---------------------------------------------------------------------------
(* dynBuffer and write                                                     *)

\* mutant: as BufferTakes, but the buffer has one place
BufferTakesOne(s) == /\ buffer[s] = "on"
                     /\ in[s] # << >>
                     /\ buf[s] = << >>
                     /\ buf' = [buf EXCEPT ![s] = Append(@, Head(in[s]))]
                     /\ in' = [in EXCEPT ![s] = Tail(@)]
                     /\ UNCHANGED <<ctxDone, mu, closed, subs, wg, inClosed, out, outClosed, buffer,
                                    workers, isAlive, callers, pc>>

BufferTakes(s) == /\ buffer[s] = "on"
                  /\ in[s] # << >>
                  /\ buf' = [buf EXCEPT ![s] = Append(@, Head(in[s]))]
                  /\ in' = [in EXCEPT ![s] = Tail(@)]
                  /\ UNCHANGED <<ctxDone, mu, closed, subs, wg, inClosed, out, outClosed, buffer,
                                 workers, isAlive, callers, pc>>

\* mutant: as BufferGives, last in first out
BufferGivesLast(s) == /\ buffer[s] \in {"on", "drain"}
                      /\ buf[s] # << >>
                      /\ Len(out[s]) < Chan
                      /\ out' = [out EXCEPT ![s] = Append(@, Last(buf[s]))]
                      /\ buf' = [buf EXCEPT ![s] = Front(@)]
                      /\ UNCHANGED <<ctxDone, mu, closed, subs, wg, in, inClosed, outClosed, buffer,
                                     workers, isAlive, callers, pc>>

BufferGives(s) == /\ buffer[s] \in {"on", "drain"}
                  /\ buf[s] # << >>
                  /\ Len(out[s]) < Chan
                  /\ out' = [out EXCEPT ![s] = Append(@, Head(buf[s]))]
                  /\ buf' = [buf EXCEPT ![s] = Tail(@)]
                  /\ UNCHANGED <<ctxDone, mu, closed, subs, wg, in, inClosed, outClosed, buffer,
                                 workers, isAlive, callers, pc>>

BufferDrains(s) == /\ buffer[s] = "on"
                   /\ in[s] = << >>
                   /\ inClosed[s]
                   /\ buffer' = [buffer EXCEPT ![s] = "drain"]
                   /\ UNCHANGED <<ctxDone, mu, closed, subs, wg, in, inClosed, buf, out, outClosed,
                                  workers, isAlive, callers, pc>>

BufferEnds(s) == /\ buffer[s] = "drain"
                 /\ buf[s] = << >>
                 /\ outClosed' = [outClosed EXCEPT ![s] = TRUE]
                 /\ buffer' = [buffer EXCEPT ![s] = "off"]
                 /\ wg' = wg - 1
                 /\ UNCHANGED <<ctxDone, mu, closed, subs, in, inClosed, buf, out, workers, isAlive, callers, pc>>

---------------------------------------------------------------------------
(* The worker                                                              *)

\* The look at isAlive is a step of the worker alone: a subscription may be
\* cancelled before its handler starts.
WorkerTakes(s) == LET m == Head(out[s]) IN
                  /\ worker[s] = "on"
                  /\ out[s] # << >>
                  /\ out' = [out EXCEPT ![s] = Tail(@)]
                  /\ seen' = [seen EXCEPT ![s][m.from] = m.no]
                  /\ worker' = [worker EXCEPT ![s] = IF isAlive[s] THEN "handler" ELSE "on"]
                  /\ UNCHANGED <<ctxDone, mu, closed, subs, wg, in, inClosed, buf, outClosed, buffer,
                                 isAlive, callers, pc>>

HandlerReturns(s) == /\ worker[s] = "handler"
                     /\ worker' = [worker EXCEPT ![s] = "on"]
                     /\ UNCHANGED <<ctxDone, mu, closed, subs, wg, buffers, seen, isAlive, callers, pc>>

WorkerEnds(s) == /\ worker[s] = "on"
                 /\ out[s] = << >>
                 /\ outClosed[s]
                 /\ worker' = [worker EXCEPT ![s] = "off"]
                 /\ wg' = wg - 1
                 /\ UNCHANGED <<ctxDone, mu, closed, subs, buffers, seen, isAlive, callers, pc>>

---------------------------------------------------------------------------
PublishGoesOn(p) == PublishRefused(p) \/ PublishLocks(p) \/ Send(p) \/ PublishReturns(p)

SubscriberGoesOn(s) == \/ MakeSubject(s) \/ StartPipe(s) \/ LockAdd(s) \/ AddRefused(s) \/ Add(s)
                       \/ RemoveSub(s)

CloseGoesOn(c) == \/ LockClose(c) \/ CloseTable(c) \/ CloseReturns(c)
                  \/ \E t \in Subjects : CloseSubject(c, t)

BufferGoesOn(s) == BufferTakes(s) \/ BufferGives(s) \/ BufferDrains(s) \/ BufferEnds(s)

WorkerGoesOn(s) == WorkerTakes(s) \/ WorkerEnds(s)

Next == \/ \E p \in Publishers : PublishGoesOn(p) \/ \E t \in Subjects : Publish(p, t)
        \/ \E c \in Closers : Close(c) \/ CloseGivesUp(c) \/ CloseGoesOn(c)
        \/ \E s \in Subs : \/ \E t \in Subjects : Subscribe(s, t)
                           \/ Unsubscribe(s) \/ SubscriberGoesOn(s)
                           \/ BufferGoesOn(s) \/ WorkerGoesOn(s) \/ HandlerReturns(s)

Spec == Init /\ [][Next]_vars

\* Goroutines inside the bus run.  Handlers need not return.
Fairness == /\ \A p \in Publishers : WF_vars(PublishGoesOn(p))
            /\ \A c \in Closers : WF_vars(CloseGoesOn(c))
            /\ \A s \in Subs : /\ WF_vars(SubscriberGoesOn(s))
                               /\ WF_vars(BufferGoesOn(s)) /\ WF_vars(WorkerGoesOn(s))

LiveSpec == Spec /\ Fairness

---------------------------------------------------------------------------
(* Properties                                                              *)

Registered(s) == s \in ToSet(subs[subj[s]])

\* The messages on their way to the handler of s.
Underway(s) == out[s] \o buf[s] \o in[s]

\* The messages of p in the list have the numbers after a up to n, in order.
Consecutive(list, p, a, n) ==
  LET from == {i \in DOMAIN list : list[i].from = p} IN
  /\ \A i, j \in from : i < j => list[i].no < list[j].no
  /\ {list[i].no : i \in from} = (a + 1)..n

\* The last message of p that s has got.
Reached(s, p) == IF s \in ToSet(todo[p]) THEN sent[p][subj[s]] - 1 ELSE sent[p][subj[s]]

\* Every subscription has all messages of a publisher since it subscribed, each
\* once and in the order of the publisher (pubsub/README.md, FIFO).
InOrder ==
  /\ TypeOK
  /\ \A s \in Subs, p \in Publishers :
       \E n \in seen[s][p]..MaxMsgs :
         /\ Consecutive(Underway(s), p, seen[s][p], n)
         /\ Registered(s) => n = Reached(s, p)

\* No channel is closed twice or sent to when closed: Unsubscribe and Close
\* wait for the publishers that have the list (my_pubsub.go:32, 150, 164).
ChannelsSafe ==
  /\ \A s \in Subs : inClosed[s] => ~Registered(s) /\ pc[s] \notin {"lockAdd", "add"}
  /\ \A p \in Publishers : \A s \in ToSet(todo[p]) : ~inClosed[s]

\* After a Close without error no handler runs or will: nothing is under way,
\* although a Subscribe that raced with Close may still be ending its goroutines.
CloseIsFinal ==
  (\E c \in Closers : pc[c] = "closed") =>
    \A s \in Subs : worker[s] # "handler" /\ in[s] \o buf[s] \o out[s] = << >>

\* A handler that never returns does not hold up Publish (pubsub/README.md).
PublishEnds == \A p \in Publishers : pc[p] = "send" ~> pc[p] = "idle"

\* No goroutine is left of a closed bus whose handlers return.
PipesEnd ==
  (\A s \in Subs : WF_vars(HandlerReturns(s)))
    => \A s \in Subs : ctxDone ~> [](buffer[s] = "off" /\ worker[s] = "off")

\* Both: nothing in the bus hangs (my_pubsub.go:150, 173, 191).
NothingHangs == PublishEnds /\ PipesEnd
=============================================================================
