----------------------------- MODULE MCServices -----------------------------
(* The services, storages and tools in one specification: one component runs *)
(* in each behaviour, the others stay as they are.                           *)
EXTENDS RetryUpdate, ArtifactCache, Ledger, ExternalSort, Gossip, WebServices, Gitfame,
        Middleware, Grader, LRU

VARIABLE component     \* the component that runs, or "none"

servicesVars == <<component, retryVars, cacheVars, ledgerVars, sortVars, gossipVars,
                  webVars, fameVars, mwVars, graderVars, lruVars>>

---------------------------------------------------------------------------
(* Instances                                                               *)

BlameOf == <<<<1, 2, 1>>, <<2>>, <<>>>>
LastOf == <<2, 2, 2>>
AuthorOf == <<1, 2>>
CommitterOf == <<2, 2>>
ExtOf == <<"go", "go", "md">>

TaskGroups == <<{1}, {2}>>
WatchedBy == [t \in {1, 2} |-> IF t = 2 THEN {7} ELSE {}]
StmtsIn == <<1, 2>>

---------------------------------------------------------------------------
(* A component that does not run has one state.                            *)

NoFiles == original = [f \in SortFiles |-> <<>>]
NoBlame == opts = [useCmtr |-> FALSE, order |-> "lines", extens |-> {}, langs |-> {},
                   exclude |-> {}, restrict |-> {}]
NoHttp == request = [r \in Requests |-> [at |-> "new", route |-> NoRoute, status |-> 200, panic |-> FALSE]]

ServicesInit ==
  /\ component \in {"retryupdate", "cache", "ledger", "sort", "gossip", "web", "gitfame", "middleware",
                    "grader", "lru", "none"}
  /\ RetryInit /\ CacheInit /\ LedgerInit /\ GossipInit
  /\ (component # "sort" => NoFiles) /\ SortInit
  /\ (component # "web" => service = "todo") /\ WebInit
  /\ (component # "gitfame" => NoBlame) /\ FameInit
  /\ (component # "middleware" => NoHttp) /\ MwInit
  /\ (component # "grader" => tasks = <<>>) /\ GraderInit
  /\ (component # "lru" => cap = 0) /\ LruInit

ServicesNext ==
  /\ UNCHANGED component
  /\ \/ component = "retryupdate" /\ RetryNext
     \/ component = "cache" /\ CacheNext
     \/ component = "ledger" /\ LedgerNext
     \/ component = "sort" /\ SortNext
     \/ component = "gossip" /\ GossipNext
     \/ component = "web" /\ WebNext
     \/ component = "gitfame" /\ FameNext
     \/ component = "middleware" /\ MwNext
     \/ component = "grader" /\ GraderNext
     \/ component = "lru" /\ LruNext
  /\ component # "retryupdate" => UNCHANGED retryVars
  /\ component # "cache" => UNCHANGED cacheVars
  /\ component # "ledger" => UNCHANGED ledgerVars
  /\ component # "sort" => UNCHANGED sortVars
  /\ component # "gossip" => UNCHANGED gossipVars
  /\ component # "web" => UNCHANGED webVars
  /\ component # "gitfame" => UNCHANGED fameVars
  /\ component # "middleware" => UNCHANGED mwVars
  /\ component # "grader" => UNCHANGED graderVars
  /\ component # "lru" => UNCHANGED lruVars

ServicesSpec == ServicesInit /\ [][ServicesNext]_servicesVars

---------------------------------------------------------------------------
(* Properties                                                              *)

\* The variables of the components hold what they may hold.
ServicesTypeOK == RetryTypeOK /\ CacheTypeOK /\ LedgerTypeOK /\ GossipTypeOK /\ WebTypeOK /\ FameTypeOK

\* What callers, clients and users are told is true and stays true: the
\* answers of the two web services, the numbers of the gauge and the lines of
\* the log, the statistics of gitfame and the contents of an LRU cache.
AnswersAreTrue == AnswersStayTrue /\ GaugeAndLogAgree /\ StatsAreRight /\ KeepsTheLastUsed
=============================================================================
