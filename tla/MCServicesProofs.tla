-------------------------- MODULE MCServicesProofs --------------------------
(* Proofs about MCServices as a whole: it implements the specification of each *)
(* component, so that what ServiceProofs and ToolProofs prove holds in it.     *)
EXTENDS MCServices, ServiceProofs, ToolProofs

---------------------------------------------------------------------------
\* A component that does not run stutters; one that runs takes its own steps.
LEMMA EachRunsAlone ==
  ASSUME [ServicesNext]_servicesVars
  PROVE  /\ [RetryNext]_retryVars /\ [CacheNext]_cacheVars /\ [LedgerNext]_ledgerVars
         /\ [SortNext]_sortVars /\ [GossipNext]_gossipVars /\ [WebNext]_webVars
         /\ [FameNext]_fameVars /\ [MwNext]_mwVars /\ [GraderNext]_graderVars /\ [LruNext]_lruVars
<1>1. CASE UNCHANGED servicesVars
  BY <1>1 DEF servicesVars
<1>2. CASE ServicesNext
  <2>1. component # "retryupdate" => UNCHANGED retryVars
    BY <1>2 DEF ServicesNext
  <2>2. component # "cache" => UNCHANGED cacheVars
    BY <1>2 DEF ServicesNext
  <2>3. component # "ledger" => UNCHANGED ledgerVars
    BY <1>2 DEF ServicesNext
  <2>4. component # "sort" => UNCHANGED sortVars
    BY <1>2 DEF ServicesNext
  <2>5. component # "gossip" => UNCHANGED gossipVars
    BY <1>2 DEF ServicesNext
  <2>6. component # "web" => UNCHANGED webVars
    BY <1>2 DEF ServicesNext
  <2>7. component # "gitfame" => UNCHANGED fameVars
    BY <1>2 DEF ServicesNext
  <2>8. component # "middleware" => UNCHANGED mwVars
    BY <1>2 DEF ServicesNext
  <2>9. component # "grader" => UNCHANGED graderVars
    BY <1>2 DEF ServicesNext
  <2>10. component # "lru" => UNCHANGED lruVars
    BY <1>2 DEF ServicesNext
  <2>11. /\ component = "retryupdate" => RetryNext
         /\ component = "cache" => CacheNext
         /\ component = "ledger" => LedgerNext
         /\ component = "sort" => SortNext
         /\ component = "gossip" => GossipNext
         /\ component = "web" => WebNext
         /\ component = "gitfame" => FameNext
         /\ component = "middleware" => MwNext
         /\ component = "grader" => GraderNext
         /\ component = "lru" => LruNext
    BY <1>2, SMT DEF ServicesNext
  <2> QED
    BY <2>1, <2>2, <2>3, <2>4, <2>5, <2>6, <2>7, <2>8, <2>9, <2>10, <2>11
<1> QED
  BY <1>1, <1>2

\* So the composition implements the specification of each component.
LEMMA ServicesImplementEach ==
  ServicesSpec => /\ RetrySpec /\ CacheSpec /\ LedgerSpec /\ SortSpec /\ GossipSpec
                  /\ WebSpec /\ FameSpec /\ MwSpec /\ GraderSpec /\ LruSpec
<1>1. ServicesInit => /\ RetryInit /\ CacheInit /\ LedgerInit /\ SortInit /\ GossipInit
                      /\ WebInit /\ FameInit /\ MwInit /\ GraderInit /\ LruInit
  BY DEF ServicesInit
<1>2. [ServicesNext]_servicesVars =>
        /\ [RetryNext]_retryVars /\ [CacheNext]_cacheVars /\ [LedgerNext]_ledgerVars
        /\ [SortNext]_sortVars /\ [GossipNext]_gossipVars /\ [WebNext]_webVars
        /\ [FameNext]_fameVars /\ [MwNext]_mwVars /\ [GraderNext]_graderVars /\ [LruNext]_lruVars
  BY EachRunsAlone
<1> QED
  BY <1>1, <1>2, PTL
  DEF ServicesSpec, RetrySpec, CacheSpec, LedgerSpec, SortSpec, GossipSpec,
      WebSpec, FameSpec, MwSpec, GraderSpec, LruSpec

\* The variables hold what they may hold, at most SemCap goroutines run git,
\* and balances and lists stay numbers and members, for any constants.
THEOREM ServicesTypeAlwaysOK == ServicesSpec => []ServicesTypeOK
<1>1. CacheInv => CacheTypeOK
  <2> SUFFICES ASSUME CacheInv PROVE CacheTypeOK
    OBVIOUS
  <2>1. \A a \in Artifacts : readLocked[a] \in 0..Cardinality(CacheUsers)
    BY ReadersCounted DEF CacheInv, ArtifactOK
  <2>2. readLocked \in [Artifacts -> 0..Cardinality(CacheUsers)]
    BY <2>1 DEF CacheInv, CacheTypes
  <2> QED
    BY <2>2 DEF CacheInv, CacheTypes, Calls, CacheTypeOK
<1>2. LedgerInv => LedgerTypeOK
  BY DEF LedgerInv, LedgerTypes, Transfers, TransferOK, LedgerTypeOK
<1>3. WebIInv => WebTypeOK
  BY DEF WebIInv, WebTypes, WebRequests, Ids, WebTypeOK
<1>4. RetryTypeOK /\ CacheTypeOK /\ LedgerTypeOK /\ GossipTypeOK /\ WebTypeOK /\ FameTypeOK => ServicesTypeOK
  BY DEF ServicesTypeOK
<1> QED
  BY <1>1, <1>2, <1>3, <1>4, ServicesImplementEach, RetryInvariant, CacheInvariant, LedgerInvariant,
     GossipMembersAreReal, WebInvariant, FameStatsAreRight, PTL

\* The answers of the web services, the gauge and the log, the statistics of
\* gitfame and the contents of the LRU cache are right at every step.
THEOREM AnswersAreAlwaysTrue == ServicesSpec => []AnswersAreTrue
<1>1. AnswersStayTrue /\ GaugeAndLogAgree /\ StatsAreRight /\ KeepsTheLastUsed => AnswersAreTrue
  BY DEF AnswersAreTrue
<1> QED
  BY <1>1, ServicesImplementEach, WebAnswersStayTrue, GaugeAndLogAlwaysAgree, FameStatsAreRight,
     LruKeepsTheLastUsed, PTL
=============================================================================
