---------------------------- MODULE RetryUpdate ----------------------------
(***************************************************************************)
(* retryupdate/update.go: UpdateValue reads a key, applies updateFn and    *)
(* writes the result on condition that the version read is still there.    *)
(* Any answer but an authorisation error is retried for ever.              *)
(*                                                                         *)
(* A value is the sequence of the updates it went through: updateFn of     *)
(* client c appends c.  A version is a number drawn by uuid.NewV4, 0 is    *)
(* the zero UUID of a key that does not exist.  Between client and service *)
(* a request or its answer is lost.                                        *)
(***************************************************************************)
EXTENDS Integers, Sequences, FiniteSets

CONSTANTS Updaters,      \* callers of UpdateValue, on one key
          MaxUUID,       \* bound on the versions drawn
          MaxRemovals    \* bound on the removals of the key by someone else

ASSUME RetryAssumption == MaxUUID \in Nat /\ MaxRemovals \in Nat

VARIABLES stored,    \* the service: [version, value], version 0 for no key
          removals,
          lastUUID,
          updPc,
          updLocal,     \* updLocal[c]: old_uuid, new_uuid and newValue of UpdateValue
          lostWrite  \* c's that were not told of a write that took place

retryVars == <<stored, removals, lastUUID, updPc, updLocal, lostWrite>>

NoKey == [version |-> 0, value |-> <<>>]

\* Where the update of c is in the value.
AppliedAt(c) == {i \in DOMAIN stored.value : stored.value[i] = c}

RetryTypeOK ==
  /\ stored \in [version : 0..MaxUUID, value : Seq(Updaters)]
  /\ removals \in 0..MaxRemovals
  /\ lastUUID \in 0..MaxUUID
  /\ updPc \in [Updaters -> {"get", "set", "updated", "failed"}]
  /\ updLocal \in [Updaters -> [old : 0..MaxUUID, new : 0..MaxUUID, value : Seq(Updaters)]]
  /\ lostWrite \subseteq Updaters

RetryInit == /\ stored = NoKey
             /\ removals = 0
             /\ lastUUID = 0
             /\ updPc = [c \in Updaters |-> "get"]
             /\ updLocal = [c \in Updaters |-> [old |-> 0, new |-> 0, value |-> <<>>]]
             /\ lostWrite = {}

UpdGoto(c, label) == updPc' = [updPc EXCEPT ![c] = label]

\* updateFn(old) and a fresh version for its result.
Prepare(c, read) ==
  /\ lastUUID < MaxUUID
  /\ lastUUID' = lastUUID + 1
  /\ updLocal' = [updLocal EXCEPT ![c] = [old |-> read.version, new |-> lastUUID + 1,
                                     value |-> Append(read.value, c)]]

\* Get answers with a value or with ErrKeyNotFound.
GetValue(c) == /\ updPc[c] = "get"
               /\ Prepare(c, stored)
               /\ UpdGoto(c, "set")
               /\ UNCHANGED <<stored, removals, lostWrite>>

\* An AuthError, of either call, or an updateFn that fails.
UpdateRefused(c) == /\ updPc[c] \in {"get", "set"}
                    /\ UpdGoto(c, "failed")
                    /\ UNCHANGED <<stored, removals, lastUUID, updLocal, lostWrite>>

\* The service takes a Set whose OldVersion is the stored one.
VersionMatches(c) == stored.version = updLocal[c].old
StoreNew(c) == stored' = [version |-> updLocal[c].new, value |-> updLocal[c].value]

SetOK(c) == /\ updPc[c] = "set"
            /\ VersionMatches(c)
            /\ StoreNew(c)
            /\ UpdGoto(c, "updated")
            /\ UNCHANGED <<removals, lastUUID, updLocal, lostWrite>>

\* The write took place, the client sees an error and sends the Set again.
SetAnswerLost(c) == /\ updPc[c] = "set"
                    /\ VersionMatches(c)
                    /\ StoreNew(c)
                    /\ lostWrite' = lostWrite \union {c}
                    /\ UNCHANGED <<removals, lastUUID, updPc, updLocal>>

\* mutant: a conflict is answered by the same value on top of the new version
OverwriteOnConflict(c) == /\ updPc[c] = "set"
                          /\ stored.version \notin {0, updLocal[c].old}
                          /\ updLocal' = [updLocal EXCEPT ![c].old = stored.version]
                          /\ UNCHANGED <<stored, removals, lastUUID, updPc, lostWrite>>

\* mutant: the client's own version in a conflict is not recognised
AlwaysReread(c) == /\ updPc[c] = "set"
                   /\ stored.version \notin {0, updLocal[c].old}
                   /\ UpdGoto(c, "get")
                   /\ UNCHANGED <<stored, removals, lastUUID, updLocal, lostWrite>>

\* A ConflictError: with the version of this very Set an earlier one went
\* through, otherwise the value is read again.
SetConflict(c) == /\ updPc[c] = "set"
                  /\ stored.version \notin {0, updLocal[c].old}
                  /\ UpdGoto(c, IF stored.version = updLocal[c].new THEN "updated" ELSE "get")
                  /\ UNCHANGED <<stored, removals, lastUUID, updLocal, lostWrite>>

\* ErrKeyNotFound from Set: someone removed the key.
SetNoKey(c) == /\ updPc[c] = "set"
               /\ stored = NoKey /\ updLocal[c].old # 0
               /\ Prepare(c, NoKey)
               /\ UNCHANGED <<stored, removals, updPc, lostWrite>>

RemoveKey == /\ stored # NoKey /\ removals < MaxRemovals
             /\ stored' = NoKey
             /\ removals' = removals + 1
             /\ UNCHANGED <<lastUUID, updPc, updLocal, lostWrite>>

RetryNext == \/ RemoveKey
             \/ \E c \in Updaters : \/ GetValue(c) \/ UpdateRefused(c) \/ SetOK(c)
                                    \/ SetAnswerLost(c) \/ SetConflict(c) \/ SetNoKey(c)

RetrySpec == RetryInit /\ [][RetryNext]_retryVars

---------------------------------------------------------------------------
(* Properties                                                              *)

\* However the calls interleave and whatever is lost, a write extends the
\* value it replaces by one update: nobody's update is overwritten, and a
\* retry never lands on a value it was not computed from (update.go:49-59).
NothingOverwritten ==
  [][stored' # stored /\ stored' # NoKey =>
       \E c \in Updaters : stored'.value = Append(stored.value, c)]_retryVars

\* The update of a caller is in the value once.  The exception is a write the
\* caller was not told of: when someone changes the value before it asks
\* again, UpdateValue reads that value and applies updateFn to it a second
\* time, but never on top of itself (update.go:55-59).
AppliedOnce ==
  \A c \in Updaters : /\ Cardinality(AppliedAt(c)) > 1 => c \in lostWrite
                      /\ removals = 0 /\ updPc[c] = "updated" => AppliedAt(c) # {}
                      /\ \A i \in 2..Len(stored.value) : stored.value[i] # stored.value[i - 1]
============================================================================
