------------------------------- MODULE Memo -------------------------------
(***************************************************************************)
(* Caches of computed values: lectures/05-concurrency/memo1..memo4,        *)
(* synconce/map.go, and localBinCache of tools/testtool/bincache.go, which *)
(* computes as memo3 does.  They differ in what happens between the look   *)
(* into the map and the store of the result: nothing guards it (memo1, for *)
(* one goroutine only), the mutex is held (memo2), it is given up and the  *)
(* work may be done twice (memo3, bincache), an entry that is not ready is *)
(* in the map already (memo4, synconce).                                   *)
(*                                                                         *)
(* The value of a key is the number of the call of f that computed it; an  *)
(* error is a value like others; bincache ends the program by a build that *)
(* fails, and here builds do not fail.                                     *)
(***************************************************************************)
EXTENDS Integers, FiniteSets

CONSTANTS Getters, MemoKeys

VARIABLES memo,      \* which cache
          entry,     \* entry[k]: 0 not there, -1 not ready, or the value
          memoMu,    \* the goroutine that has mu, at most one
          getter,    \* getter[g]: where Get of g is, its key and its value
          fCalls     \* fCalls[k]: how often f was called for k

memoVars == <<memo, entry, memoMu, getter, fCalls>>

Value(k) == fCalls[k] + 1
At(g, label) == getter' = [getter EXCEPT ![g].at = label]
Returns(g, value) == getter' = [getter EXCEPT ![g].at = "returned", ![g].value = value]

MemoTypeOK == /\ entry \in [MemoKeys -> Int] /\ Cardinality(memoMu) <= 1
              /\ \A g \in Getters : getter[g].at \in
                   {"start", "locked", "calling", "store", "wait", "returned"}

MemoInit ==
  /\ memo \in {"memo1", "memo2", "memo3", "memo4", "synconce", "bincache"}
  /\ entry = [k \in MemoKeys |-> 0]
  /\ memoMu = {}
  /\ getter \in [Getters -> {[at |-> "start", key |-> k, value |-> 0] : k \in MemoKeys}]
  /\ fCalls = [k \in MemoKeys |-> 0]

\* memo1 is for one goroutine: the next Get begins when the last is over.
GetAlone(g, k) ==
  /\ memo = "memo1" /\ getter[g].at = "start"
  /\ \A h \in Getters : getter[h].at \in {"start", "returned"}
  /\ IF entry[k] # 0
     THEN Returns(g, entry[k]) /\ UNCHANGED <<entry, fCalls>>
     ELSE /\ Returns(g, Value(k))
          /\ entry' = [entry EXCEPT ![k] = Value(k)] /\ fCalls' = [fCalls EXCEPT ![k] = @ + 1]
  /\ UNCHANGED <<memo, memoMu>>

LockMemo(g) == /\ memo \in {"memo2", "memo3", "memo4"}
               /\ getter[g].at = "start" /\ memoMu = {}
               /\ memoMu' = {g} /\ At(g, "locked")
               /\ UNCHANGED <<memo, entry, fCalls>>

\* mutant: mu is given up while f runs
LookupUnderMutexReleased(g, k) ==
  /\ memo = "memo2" /\ getter[g].at = "locked"
  /\ memoMu' = {}
  /\ IF entry[k] # 0 THEN Returns(g, entry[k]) ELSE At(g, "calling")
  /\ UNCHANGED <<memo, entry, fCalls>>

\* mutant: a hit returns with mu locked
LookupKeepsMutex(g, k) ==
  /\ memo = "memo2" /\ getter[g].at = "locked"
  /\ IF entry[k] # 0 THEN Returns(g, entry[k]) ELSE At(g, "calling")
  /\ UNCHANGED <<memo, entry, memoMu, fCalls>>

\* memo2: mu is kept over the call of f.
LookupUnderMutex(g, k) ==
  /\ memo = "memo2" /\ getter[g].at = "locked"
  /\ IF entry[k] # 0 THEN Returns(g, entry[k]) /\ memoMu' = {}
                     ELSE At(g, "calling") /\ UNCHANGED memoMu
  /\ UNCHANGED <<memo, entry, fCalls>>

\* memo3: the first of two sections.
LookupAndUnlock(g, k) ==
  /\ memo = "memo3" /\ getter[g].at = "locked"
  /\ memoMu' = {}
  /\ IF entry[k] # 0 THEN Returns(g, entry[k]) ELSE At(g, "calling")
  /\ UNCHANGED <<memo, entry, fCalls>>

\* memo4: the first request leaves an entry for the others to wait at.
EnterOrWait(g, k) ==
  /\ memo = "memo4" /\ getter[g].at = "locked"
  /\ memoMu' = {}
  /\ IF entry[k] = 0 THEN At(g, "calling") /\ entry' = [entry EXCEPT ![k] = -1]
                     ELSE At(g, "wait") /\ UNCHANGED entry
  /\ UNCHANGED <<memo, fCalls>>

\* synconce: LoadOrStore, then Do of the entry that is in the map; the first
\* one calls do, the others wait for it.
LoadOrStore(g, k) ==
  /\ memo = "synconce" /\ getter[g].at = "start"
  /\ IF entry[k] = 0 THEN At(g, "calling") /\ entry' = [entry EXCEPT ![k] = -1]
                     ELSE At(g, "wait") /\ UNCHANGED entry
  /\ UNCHANGED <<memo, memoMu, fCalls>>

WaitReady(g, k) == /\ getter[g].at = "wait" /\ entry[k] # -1
                   /\ Returns(g, entry[k])
                   /\ UNCHANGED <<memo, entry, memoMu, fCalls>>

\* bincache: Load of the sync.Map.
LoadBinary(g, k) ==
  /\ memo = "bincache" /\ getter[g].at = "start"
  /\ IF entry[k] # 0 THEN Returns(g, entry[k]) ELSE At(g, "calling")
  /\ UNCHANGED <<memo, entry, memoMu, fCalls>>

\* The call of f, and what memo2, memo4 and synconce do with its result.
CallMemoF(g, k) ==
  /\ getter[g].at = "calling"
  /\ fCalls' = [fCalls EXCEPT ![k] = @ + 1]
  /\ IF memo \in {"memo3", "bincache"}
     THEN /\ getter' = [getter EXCEPT ![g].at = "store", ![g].value = Value(k)]
          /\ UNCHANGED <<entry, memoMu>>
     ELSE Returns(g, Value(k)) /\ entry' = [entry EXCEPT ![k] = Value(k)] /\ memoMu' = memoMu \ {g}
  /\ UNCHANGED memo

StoreResult(g, k) == /\ getter[g].at = "store" /\ memoMu = {}
                     /\ entry' = [entry EXCEPT ![k] = getter[g].value]
                     /\ At(g, "returned")
                     /\ UNCHANGED <<memo, memoMu, fCalls>>

GetStep(g, k) ==
  /\ getter[g].key = k
  /\ \/ GetAlone(g, k) \/ LockMemo(g) \/ LookupUnderMutex(g, k) \/ LookupAndUnlock(g, k)
     \/ EnterOrWait(g, k) \/ LoadOrStore(g, k) \/ WaitReady(g, k) \/ LoadBinary(g, k)
     \/ CallMemoF(g, k) \/ StoreResult(g, k)

MemoNext == \E g \in Getters, k \in MemoKeys : GetStep(g, k)
MemoSpec == MemoInit /\ [][MemoNext]_memoVars

\* f returns, and a goroutine that can go on does.
MemoFairness == \A g \in Getters : WF_memoVars(\E k \in MemoKeys : GetStep(g, k))

---------------------------------------------------------------------------
(* Properties                                                              *)

\* Every Get returns a value that f has computed for its key; but for memo3
\* and bincache, where two may miss at a time, f is called once for a key and
\* all get the same (memo3/memo.go:37-38, memo4/memo.go:42-56).
ComputedOnce ==
  /\ \A g \in Getters : getter[g].at = "returned" =>
       getter[g].value \in 1..fCalls[getter[g].key]
  /\ memo \notin {"memo3", "bincache"} => \A k \in MemoKeys : fCalls[k] <= 1

\* No Get waits for an entry that nobody makes ready, or for mu for ever.
EveryGetReturns == \A g \in Getters : <>(getter[g].at = "returned")
============================================================================
