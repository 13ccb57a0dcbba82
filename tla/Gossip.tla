------------------------------- MODULE Gossip -------------------------------
(***************************************************************************)
(* gossip/gossip.go: peers ping those they are connected to, tell each     *)
(* other the members they know, and drop a peer that does not answer.      *)
(* Every RPC runs in a goroutine (or a gRPC handler) of its own, so calls  *)
(* overtake each other; a call fails when the other side is down, or by a  *)
(* timeout or a lost answer while it is up.                                *)
(*                                                                         *)
(* The metadata of a peer is the number of its UpdateMeta calls.  A job is *)
(* a goroutine of peer p that has to do with peer q.  Sections under one   *)
(* of the two mutexes are steps.                                           *)
(***************************************************************************)
EXTENDS Integers, FiniteSets

CONSTANTS Peers, Ghosts,    \* addresses, those of Ghosts never answer
          MaxMeta,          \* bound on the UpdateMeta calls of a peer
          MaxJobs,          \* bound on the goroutines at a time
          MaxLosses, MaxStops

ASSUME GossipAssumption == Peers \cap Ghosts = {} /\ MaxMeta \in Nat

VARIABLES Snapshot,   \* Snapshot[p]: what p knows, by address
          conns,      \* conns[p]: the addresses p has a connection to
          alive, jobs, losses

gossipVars == <<Snapshot, conns, alive, jobs, losses>>

Addresses == Peers \union Ghosts
Unknown == -1
Job(p, does, q, about, meta) == [of |-> p, does |-> does, with |-> q, about |-> about, meta |-> meta]
Spawn(old, new) == /\ jobs' = (jobs \ old) \union new
                   /\ Cardinality(jobs') <= MaxJobs
SetMember(p, q, meta) == Snapshot' = [Snapshot EXCEPT ![p][q] = meta]

GossipTypeOK ==
  /\ Snapshot \in [Peers -> [Addresses -> {Unknown} \union 0..MaxMeta]]
  /\ conns \in [Peers -> SUBSET Addresses]
  /\ alive \subseteq Peers
  /\ \A j \in jobs : /\ j.of \in alive /\ j.with \in Addresses
                     /\ j.does \in {"seed", "ping", "update", "tell", "join", "admit", "insert",
                                    "forward", "connect", "close", "forget"}

GossipInit == /\ Snapshot = [p \in Peers |-> [q \in Addresses |-> IF q = p THEN 0 ELSE Unknown]]
              /\ conns = [p \in Peers |-> {}]
              /\ alive = Peers
              /\ jobs = {} /\ losses = 0

---------------------------------------------------------------------------
(* What the user of a peer does, and the ticker.                           *)

UpdateMeta(p) ==
  /\ Snapshot[p][p] < MaxMeta
  /\ SetMember(p, p, Snapshot[p][p] + 1)
  /\ Spawn({}, {Job(p, "forward", p, p, Snapshot[p][p] + 1)})
  /\ UNCHANGED <<conns, alive, losses>>

\* mutant: a seed is a member before it has answered
AddSeedAtOnce(p, seed) ==
  /\ seed # p
  /\ conns' = [conns EXCEPT ![p] = @ \union {seed}]
  /\ IF Snapshot[p][seed] = Unknown THEN SetMember(p, seed, 0) ELSE UNCHANGED Snapshot
  /\ Spawn({}, {Job(p, "seed", seed, seed, 0)})
  /\ UNCHANGED <<alive, losses>>

AddSeed(p, seed) == /\ seed # p
                    /\ conns' = [conns EXCEPT ![p] = @ \union {seed}]
                    /\ Spawn({}, {Job(p, "seed", seed, seed, 0)})
                    /\ UNCHANGED <<Snapshot, alive, losses>>

PingAll(p) == /\ conns[p] # {}
              /\ Spawn({}, {Job(p, "ping", q, q, 0) : q \in conns[p]})
              /\ UNCHANGED <<Snapshot, conns, alive, losses>>

\* Stop cancels the context: the peer answers no more, its goroutines end.
Stop(p) == /\ Cardinality(Peers \ alive) < MaxStops
           /\ alive' = alive \ {p}
           /\ jobs' = {j \in jobs : j.of # p}
           /\ UNCHANGED <<Snapshot, conns, losses>>

---------------------------------------------------------------------------
(* The goroutines.                                                         *)

\* An RPC fails, as all do whose connection another goroutine has closed:
\* checkService closes the connection, then forgets the member.
CallFails(j) ==
  /\ j.does \in {"seed", "ping", "update", "tell", "join"}
  /\ IF j.with \in alive \intersect conns[j.of] THEN losses < MaxLosses /\ losses' = losses + 1
                         ELSE UNCHANGED losses
  /\ Spawn({j}, IF j.does = "tell" THEN {} ELSE {Job(j.of, "close", j.with, j.with, 0)})
  /\ UNCHANGED <<Snapshot, conns, alive>>

CloseConn(j) == /\ j.does = "close"
                /\ conns' = [conns EXCEPT ![j.of] = @ \ {j.with}]
                /\ Spawn({j}, {Job(j.of, "forget", j.with, j.with, 0)})
                /\ UNCHANGED <<Snapshot, alive, losses>>

Forget(j) == /\ j.does = "forget"
             /\ SetMember(j.of, j.with, Unknown)
             /\ Spawn({j}, {})
             /\ UNCHANGED <<conns, alive, losses>>

\* Ping answers; the insertion is a section of its own, as the round of
\* updates is, which sends all that p knows and ignores errors.
PingAnswered(j) ==
  /\ j.does \in {"seed", "ping", "join"} /\ j.with \in alive
  /\ Spawn({j}, IF j.does = "ping"
                THEN {Job(j.of, "tell", j.with, q, Snapshot[j.of][q])
                        : q \in {q \in Addresses : Snapshot[j.of][q] # Unknown}}
                ELSE {Job(j.of, IF j.does = "seed" THEN "admit" ELSE "insert", j.with, j.with, j.meta)})
  /\ UNCHANGED <<Snapshot, conns, alive, losses>>

\* The end of AddSeed, which has nothing to forward, and of Update.
Insert(j) ==
  /\ j.does \in {"admit", "insert"}
  /\ IF Snapshot[j.of][j.with] = Unknown THEN SetMember(j.of, j.with, j.meta)
                                         ELSE UNCHANGED Snapshot
  /\ Spawn({j}, IF j.does = "insert" THEN {Job(j.of, "forward", j.with, j.with, j.meta)} ELSE {})
  /\ UNCHANGED <<conns, alive, losses>>

\* A section under muconns: all that p is connected to are told, but for the
\* one it is about.
Forward(j) == /\ j.does = "forward"
              /\ Spawn({j}, {Job(j.of, "update", q, j.about, j.meta) : q \in conns[j.of] \ {j.about}})
              /\ UNCHANGED <<Snapshot, conns, alive, losses>>

\* The call that runs handler ends well, or its answer is lost or late.
CallAnswer(j, handler) ==
  \/ Spawn({j}, handler) /\ UNCHANGED losses
  \/ /\ j.does = "update" /\ losses < MaxLosses /\ losses' = losses + 1
     /\ Spawn({j}, handler \union {Job(j.of, "close", j.with, j.with, 0)})

\* mutant: a peer believes what others say of itself
UpdateSelfToo(j) ==
  /\ j.does \in {"update", "tell"} /\ j.with \in alive /\ Snapshot[j.with][j.about] # Unknown
  /\ SetMember(j.with, j.about, j.meta)
  /\ CallAnswer(j, {Job(j.with, "forward", j.about, j.about, j.meta)})
  /\ UNCHANGED <<conns, alive>>

\* Update at j.with, about a member it knows, or about itself.
UpdateKnown(j) ==
  LET q == j.with IN
  /\ j.does \in {"update", "tell"} /\ q \in alive /\ Snapshot[q][j.about] # Unknown
  /\ IF j.about = q \/ Snapshot[q][j.about] = j.meta
     THEN CallAnswer(j, {}) /\ UNCHANGED Snapshot
     ELSE SetMember(q, j.about, j.meta) /\ CallAnswer(j, {Job(q, "forward", j.about, j.about, j.meta)})
  /\ UNCHANGED <<conns, alive>>

\* Update about somebody unknown: connect, ping, and only then insert.
UpdateUnknown(j) ==
  LET q == j.with IN
  /\ j.does \in {"update", "tell"} /\ q \in alive /\ Snapshot[q][j.about] = Unknown
  /\ CallAnswer(j, {Job(q, "connect", j.about, j.about, j.meta)})
  /\ UNCHANGED <<Snapshot, conns, alive>>

GetOrCreateConn(j) == /\ j.does = "connect"
                      /\ conns' = [conns EXCEPT ![j.of] = @ \union {j.with}]
                      /\ Spawn({j}, {Job(j.of, "join", j.with, j.about, j.meta)})
                      /\ UNCHANGED <<Snapshot, alive, losses>>

GossipNext ==
  \/ \E p \in alive : \/ UpdateMeta(p) \/ PingAll(p) \/ Stop(p)
                      \/ \E seed \in Addresses : AddSeed(p, seed)
  \/ \E j \in jobs : \/ CallFails(j) \/ CloseConn(j) \/ Forget(j) \/ PingAnswered(j)
                     \/ Insert(j) \/ Forward(j) \/ UpdateKnown(j) \/ UpdateUnknown(j)
                     \/ GetOrCreateConn(j)

GossipSpec == GossipInit /\ [][GossipNext]_gossipVars

---------------------------------------------------------------------------
(* Properties                                                              *)

\* Whatever is lost, late or passed on by others, the members of a peer are
\* peers that have answered it, with metadata they have had themselves, and
\* what others say of it never changes what it says (gossip.go:93-102,
\* 213-216, 257-268).
MembersAreReal ==
  \A p \in Peers : /\ Snapshot[p][p] # Unknown
                   /\ \A g \in Ghosts : Snapshot[p][g] = Unknown
                   /\ \A q \in Peers : Snapshot[p][q] <= Snapshot[q][q]

\* "A member that stops answering must be removed from the group" (README.md:
\* 24): with no goroutine left, a member that is down has a connection, for
\* the next round to ping and to remove it.
DeadMembersArePinged ==
  jobs = {} => \A p \in alive, q \in Peers \ alive : Snapshot[p][q] # Unknown => q \in conns[p]
=============================================================================
