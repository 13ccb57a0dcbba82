---------------------------- MODULE WebServices ----------------------------
(***************************************************************************)
(* Two small HTTP services with their data in memory: urlshortener/main.go *)
(* and coverme (app/app.go over models/storage.go, called by               *)
(* client/client.go).  Each request runs in a goroutine of its own; a      *)
(* section under the mutex is a step, and so is what a handler does with a *)
(* todo after the storage has given up its lock.                           *)
(*                                                                         *)
(* The keys of the shortener are drawn from 10^30: two equal draws are     *)
(* left out.                                                               *)
(***************************************************************************)
EXTENDS Integers, FiniteSets

CONSTANTS Callers,     \* clients, each with one request at a time
          Urls,
          MaxDraws,    \* bound on the keys drawn
          MaxTodos     \* bound on the todos

ASSUME WebAssumption == MaxDraws \in Nat /\ MaxTodos \in Nat

VARIABLES service,     \* the program: shorten or todo
          urlToKey, keyToUrl, draws,
          todos,       \* todos[id]: none, open or finished
          nextID,
          caller,      \* caller[c]: the request that c waits for
          answers      \* what callers were told, ever

webVars == <<service, urlToKey, keyToUrl, draws, todos, nextID, caller, answers>>
shortVars == <<urlToKey, keyToUrl, draws>>
todoVars == <<todos, nextID>>

NoUrl == ""    \* an address that is not there
NoRequest == [at |-> "idle", url |-> NoUrl, key |-> 0, ids |-> {}, since |-> {}, finished |-> {}]

WebTypeOK == /\ draws \in 0..MaxDraws /\ nextID \in 0..MaxTodos
             /\ \A id \in DOMAIN todos : todos[id] \in {"none", "open", "finished"}
             /\ \A c \in Callers : caller[c].at \in {"idle", "draw", "put", "respond"}

WebInit == /\ service \in {"shorten", "todo"}
           /\ urlToKey = [u \in Urls |-> 0] /\ keyToUrl = [k \in 1..MaxDraws |-> NoUrl]
           /\ draws = 0
           /\ todos = [id \in 0..MaxTodos |-> "none"] /\ nextID = 0
           /\ caller = [c \in Callers |-> NoRequest]
           /\ answers = {}

Tell(c, answer) == /\ caller' = [caller EXCEPT ![c] = NoRequest]
                   /\ answers' = answers \union {answer}

---------------------------------------------------------------------------
(* urlshortener: POST /shorten and GET /go/{key}.                          *)

Shorten(c, u) == /\ service = "shorten" /\ caller[c].at = "idle"
                 /\ IF urlToKey[u] # 0
                    THEN Tell(c, [url |-> u, key |-> urlToKey[u]])
                    ELSE /\ caller' = [caller EXCEPT ![c].at = "draw", ![c].url = u]
                         /\ UNCHANGED answers
                 /\ UNCHANGED <<service, shortVars, todoVars>>

DrawKey(c) == /\ caller[c].at = "draw" /\ draws < MaxDraws
              /\ draws' = draws + 1
              /\ caller' = [caller EXCEPT ![c].at = "put", ![c].key = draws + 1]
              /\ UNCHANGED <<service, urlToKey, keyToUrl, todoVars, answers>>

\* mutant: the map is not looked at a second time
PutWithoutCheck(c) == LET u == caller[c].url IN
  /\ caller[c].at = "put"
  /\ urlToKey' = [urlToKey EXCEPT ![u] = caller[c].key]
  /\ keyToUrl' = [keyToUrl EXCEPT ![caller[c].key] = u]
  /\ Tell(c, [url |-> u, key |-> caller[c].key])
  /\ UNCHANGED <<service, draws, todoVars>>

PutIfAbsent(c) == LET u == caller[c].url IN
  /\ caller[c].at = "put"
  /\ IF urlToKey[u] = 0
     THEN /\ urlToKey' = [urlToKey EXCEPT ![u] = caller[c].key]
          /\ keyToUrl' = [keyToUrl EXCEPT ![caller[c].key] = u]
          /\ Tell(c, [url |-> u, key |-> caller[c].key])
     ELSE /\ UNCHANGED <<urlToKey, keyToUrl>>
          /\ Tell(c, [url |-> u, key |-> urlToKey[u]])
  /\ UNCHANGED <<service, draws, todoVars>>

---------------------------------------------------------------------------
(* coverme                                                                 *)

Todos == {id \in DOMAIN todos : todos[id] # "none"}

\* A request without a title is answered by 400 and changes nothing.
AddTodo(c) == /\ service = "todo" /\ caller[c].at = "idle" /\ nextID < MaxTodos
              /\ todos' = [todos EXCEPT ![nextID] = "open"]
              /\ nextID' = nextID + 1
              /\ caller' = [caller EXCEPT ![c].at = "respond", ![c].ids = {nextID}]
              /\ UNCHANGED <<service, shortVars, answers>>

\* The storage hands out pointers: what the answer says is read later, todo by
\* todo, when the lock is gone and FinishTodo may be writing.
GetTodos(c, ids) == /\ service = "todo" /\ caller[c].at = "idle"
                    /\ caller' = [caller EXCEPT ![c] =
                         [NoRequest EXCEPT !.at = "respond", !.ids = ids,
                            !.since = {id \in ids : [id |-> id, finished |-> TRUE] \in answers}]]
                    /\ UNCHANGED <<service, shortVars, todoVars, answers>>

EncodeTodo(c, id) ==
  /\ caller[c].at = "respond" /\ id \in caller[c].ids
  /\ caller' = [caller EXCEPT ![c].ids = @ \ {id},
                             ![c].finished = @ \union {i \in {id} : todos[i] = "finished"}]
  /\ UNCHANGED <<service, shortVars, todoVars, answers>>

RespondTodos(c) ==
  /\ caller[c].at = "respond" /\ caller[c].ids = {}
  /\ Tell(c, [finished |-> caller[c].finished, since |-> caller[c].since])
  /\ UNCHANGED <<service, shortVars, todoVars>>

FinishTodo(c, id) == /\ service = "todo" /\ caller[c].at = "idle" /\ id \in Todos
                     /\ todos' = [todos EXCEPT ![id] = "finished"]
                     /\ Tell(c, [id |-> id, finished |-> TRUE])
                     /\ UNCHANGED <<service, shortVars, nextID>>

WebNext == \E c \in Callers :
  \/ \E u \in Urls : Shorten(c, u)
  \/ DrawKey(c) \/ PutIfAbsent(c)
  \/ AddTodo(c) \/ RespondTodos(c) \/ GetTodos(c, Todos)
  \/ \E id \in Todos : GetTodos(c, {id}) \/ EncodeTodo(c, id) \/ FinishTodo(c, id)

WebSpec == WebInit /\ [][WebNext]_webVars

---------------------------------------------------------------------------
(* Properties                                                              *)

\* What a caller was told stays true: a short link leads to its address, and
\* every later answer for the address is the same one (main.go:51-60); a todo
\* that was said to be finished when a request began is finished in its
\* answer (storage.go:49-84).
AnswersStayTrue ==
  \A a \in answers :
    IF service = "shorten"
    THEN keyToUrl[a.key] = a.url /\ urlToKey[a.url] = a.key
    ELSE "since" \in DOMAIN a => a.since \subseteq a.finished
============================================================================
