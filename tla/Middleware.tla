----------------------------- MODULE Middleware -----------------------------
(***************************************************************************)
(* middleware/: a request goes through requestlog.Log, auth.CheckAuth and  *)
(* httpgauge.Gauge.Wrap to the handler of its route, and back.  Requests   *)
(* run in goroutines of their own; the mutex of the gauge makes its        *)
(* sections steps.  The handler is external: it returns or panics.         *)
(***************************************************************************)
EXTENDS Integers, FiniteSets

CONSTANTS Requests, Routes,
          NoRoute      \* a request without a chi context

ASSUME MwAssumption == IsFiniteSet(Requests) /\ NoRoute \notin Routes

VARIABLES request,     \* request[r]: where it is, its route and its status
          metrics,     \* the gauge
          logged,      \* logged[r]: the lines of the log about r
          shown        \* what Snapshot or ServeHTTP has shown last

mwVars == <<request, metrics, logged, shown>>

MwInit == /\ request \in [Requests -> {[at |-> "new", route |-> t, status |-> 200, panic |-> FALSE]
                                         : t \in Routes \union {NoRoute}}]
          /\ metrics = [t \in Routes |-> 0]
          /\ logged = [r \in Requests |-> {}]
          /\ shown = metrics

Log(r, line) == logged' = [logged EXCEPT ![r] = @ \union {line}]
Proceed(r, label) == request' = [request EXCEPT ![r].at = label]
Answer(r, label, status) == request' = [request EXCEPT ![r].at = label, ![r].status = status]

\* No id can be drawn: 500, and not a word in the log.
NoRequestID(r) == /\ request[r].at = "new"
                  /\ Answer(r, "over", 500)
                  /\ UNCHANGED <<metrics, logged, shown>>

LogStart(r) == /\ request[r].at = "new"
               /\ Log(r, "started") /\ Proceed(r, "auth")
               /\ UNCHANGED <<metrics, shown>>

\* No token or an invalid one is 401, any other error 500.
AuthFails(r) == /\ request[r].at = "auth"
                /\ \E status \in {401, 500} : Answer(r, "log", status)
                /\ UNCHANGED <<metrics, logged, shown>>

AuthPasses(r) == /\ request[r].at = "auth"
                 /\ Proceed(r, "handler")
                 /\ UNCHANGED <<metrics, logged, shown>>

HandlerEnds(r) == /\ request[r].at = "handler"
                  /\ \E p \in BOOLEAN :
                       request' = [request EXCEPT ![r].at = "gauge", ![r].panic = p]
                  /\ UNCHANGED <<metrics, logged, shown>>

\* mutant: only a handler that returns is counted
CountReturned(r) ==
  /\ request[r].at = "gauge"
  /\ metrics' = IF request[r].panic \/ request[r].route = NoRoute THEN metrics
                ELSE [metrics EXCEPT ![request[r].route] = @ + 1]
  /\ Proceed(r, "log")
  /\ UNCHANGED <<logged, shown>>

\* The deferred function of Wrap, also when the handler panics.
Count(r) ==
  /\ request[r].at = "gauge"
  /\ IF request[r].route = NoRoute
     THEN Answer(r, "log", 500) /\ UNCHANGED metrics
     ELSE Proceed(r, "log") /\ metrics' = [metrics EXCEPT ![request[r].route] = @ + 1]
  /\ UNCHANGED <<logged, shown>>

\* The deferred function of Log passes the panic on.
LogEnd(r) == /\ request[r].at = "log"
             /\ Log(r, IF request[r].panic THEN "panicked" ELSE "finished")
             /\ Proceed(r, "over")
             /\ UNCHANGED <<metrics, shown>>

\* Snapshot clones under the read lock, ServeHTTP writes under it.
ShowMetrics == /\ shown' = metrics
               /\ UNCHANGED <<request, metrics, logged>>

MwNext == \/ ShowMetrics
          \/ \E r \in Requests : \/ NoRequestID(r) \/ LogStart(r) \/ AuthFails(r) \/ AuthPasses(r)
                                 \/ HandlerEnds(r) \/ Count(r) \/ LogEnd(r)

MwSpec == MwInit /\ [][MwNext]_mwVars

---------------------------------------------------------------------------
(* Properties                                                              *)

\* At any time the gauge shows exactly the requests that have been through a
\* handler, those that panicked too, and has never gone back; the log has one
\* end for each start (httpgauge.go:60-76, requestlog.go:29-43).
GaugeAndLogAgree ==
  /\ \A t \in Routes :
       metrics[t] = Cardinality({r \in Requests : /\ request[r].route = t
                                                  /\ request[r].status = 200
                                                  /\ request[r].at \in {"log", "over"}})
  /\ \A t \in Routes : shown[t] <= metrics[t]
  /\ \A r \in Requests :
       request[r].at = "over" => logged[r] \in {{}, {"started", "finished"}, {"started", "panicked"}}
=============================================================================
