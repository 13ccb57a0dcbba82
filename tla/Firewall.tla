------------------------------ MODULE Firewall ------------------------------
(***************************************************************************)
(* firewall/cmd/firewall/main.go: the rules of a config, and what becomes  *)
(* of a request and of the answer of the defended service.                 *)
(*                                                                         *)
(* A regular expression is the set of what it matches, but that of a       *)
(* header is a sequence of symbols, as is a value of a header; a body is a *)
(* sequence of bytes.  A request is [path, agent, headers, body, broken]   *)
(* and an answer [code, body, broken, down]; broken: the body cannot be    *)
(* read to its end, down: the service does not answer.  LimitInt is the    *)
(* largest int, and maxLen+1 wraps as an int does.  Bodies come in chunks, *)
(* without a declared length.                                              *)
(***************************************************************************)
EXTENDS Integers, Sequences, FiniteSets, SequencesExt

CONSTANT LimitInt

Forbidden == 403
BadRequest == 400
BadGateway == 502
Forwarded == 0       \* the handler goes on

\* A pattern as regexp takes it, where "." is any symbol, "|" parts what may
\* match, any other symbol matches itself, and a match may stand anywhere.
Alternatives(pattern) ==
  {SubSeq(pattern, part[1], part[2]) : part \in
     {q \in (1..(Len(pattern) + 1)) \X (0..Len(pattern)) :
        /\ q[1] <= q[2] + 1 /\ \A k \in q[1]..q[2] : pattern[k] # "|"
        /\ q[1] > 1 => pattern[q[1] - 1] = "|"
        /\ q[2] < Len(pattern) => pattern[q[2] + 1] = "|"}}
Matches(pattern, value) ==
  \E a \in Alternatives(pattern) : \E at \in 0..(Len(value) - Len(a)) :
    \A k \in DOMAIN a : a[k] \in {".", value[at + k]}

\* ([\w-]+): ([\w/-]+) takes of "header: pattern" the symbols before the first
\* that is none of a word; when there are none it does not match at all.
Kept(pattern) ==
  LET other == SelectInSeq(pattern, LAMBDA c : c \in {".", "|"})
  IN IF other = 0 THEN pattern ELSE SubSeq(pattern, 1, other - 1)

\* The loop of main that compiles the config: the last rule of an endpoint
\* wins, and in a rule the last pattern of a header.  A pattern of which
\* nothing is kept is matches[1] of a nil slice, and main panics.
CompileHeaders(patterns) ==
  [h \in {p.header : p \in ToSet(patterns)} |->
     Kept(patterns[CHOOSE i \in DOMAIN patterns :
                     /\ patterns[i].header = h
                     /\ \A j \in DOMAIN patterns : patterns[j].header = h => j <= i].pattern)]

MainPanics(config) ==
  \E rule \in ToSet(config) : \E p \in ToSet(rule.forbHeaders) : Kept(p.pattern) = <<>>

CompileRules(config) ==
  [e \in {rule.endpoint : rule \in ToSet(config)} |->
     LET last == CHOOSE i \in DOMAIN config :
                   /\ config[i].endpoint = e
                   /\ \A j \in DOMAIN config : config[j].endpoint = e => j <= i
     IN [config[last] EXCEPT !.forbHeaders = CompileHeaders(@)]]

\* io.ReadAll(io.LimitReader(body, n)): an error behind the n bytes is not met.
ReadAtMost(msg, n) == [data   |-> SubSeq(msg.body, 1, Min({n, Len(msg.body)})),
                       failed |-> msg.broken /\ Len(msg.body) < n]

Refuse(code) == [data |-> <<>>, code |-> code]

\* mutant: what is over the limit is cut off
TruncateBody(msg, maxLen) ==
  LET read == ReadAtMost(msg, IF maxLen <= 0 THEN Len(msg.body) + 1 ELSE maxLen)
  IN IF read.failed THEN Refuse(BadRequest) ELSE [data |-> read.data, code |-> Forwarded]

ReadBody(msg, maxLen) ==
  LET limit == IF maxLen = LimitInt THEN -LimitInt - 1 ELSE maxLen + 1
      read == ReadAtMost(msg, IF maxLen <= 0 THEN Len(msg.body) + 1 ELSE limit)
  IN IF read.failed THEN Refuse(BadRequest)
     ELSE IF maxLen > 0 /\ Len(read.data) > maxLen THEN Refuse(Forbidden)
     ELSE [data |-> read.data, code |-> Forwarded]

RequestHandler(rule, r) ==
  LET read == ReadBody(r, rule.maxReqLen)
      forbidden == \/ r.agent \in rule.forbUserAg
                   \/ \E h \in DOMAIN rule.forbHeaders \intersect DOMAIN r.headers :
                        \E v \in r.headers[h] : Matches(rule.forbHeaders[h], v)
                   \/ ~ (rule.reqHeaders \subseteq DOMAIN r.headers)
                   \/ read.code = Forwarded /\ read.data \in rule.forbReqRe
  IN IF forbidden THEN Refuse(Forbidden) ELSE read

ResponseHandler(rule, resp) ==
  LET read == ReadBody(resp, rule.maxRespLen)
      forbidden == \/ resp.code \in rule.forbRespCodes
                   \/ read.code = Forwarded /\ read.data \in rule.forbRespRe
  IN IF forbidden THEN Refuse(Forbidden)
     ELSE IF read.code # Forwarded THEN read
     ELSE [data |-> read.data, code |-> resp.code]

NoServer == [sent |-> {}, code |-> 0, data |-> <<>>]

\* The handlers of RegisterHandlers: sent holds the body that the service
\* gets, if it gets one, code and data what the client gets.  A path without a rule goes
\* through the reverse proxy, unless there is a rule for "/".
Handle(config, r, resp) ==
  LET rules == CompileRules(config)
      endpoint == IF r.path \in DOMAIN rules THEN r.path ELSE "/"
      request == RequestHandler(rules[endpoint], r)
      answer == ResponseHandler(rules[endpoint], resp)
  IN IF MainPanics(config) THEN NoServer
     ELSE IF endpoint \notin DOMAIN rules
     THEN [sent |-> {r.body}, code |-> IF resp.down THEN BadGateway ELSE resp.code,
           data |-> IF resp.down THEN <<>> ELSE resp.body]
     ELSE IF request.code # Forwarded
     THEN [sent |-> {}, code |-> request.code, data |-> <<>>]
     ELSE IF resp.down THEN [sent |-> {request.data}, code |-> BadGateway, data |-> <<>>]
     ELSE [sent |-> {request.data}, code |-> answer.code, data |-> answer.data]

---------------------------------------------------------------------------
(* Properties                                                              *)

HeaderMatches(p, r) == /\ p.header \in DOMAIN r.headers
                       /\ \E v \in r.headers[p.header] : Matches(p.pattern, v)

\* Of every request that a rule names: what the service or the client gets is
\* the whole body or nothing, and only when every line of the last rule of
\* the path allows it.  Of the forbidden headers only the last pattern of a
\* header is asked for, and only if it is a word: ForbiddenHeadersRefused has
\* the others.  A limit of the largest int is left out: it empties every body
\* (main.go:56-118, 120-157, 242-254).
FirewallRight(config, r, resp, answer) ==
  \A i \in DOMAIN config :
    LET rule == config[i] IN
    (/\ rule.endpoint = r.path
     /\ \A j \in DOMAIN config : j > i => config[j].endpoint # r.path) =>
    /\ (answer.sent # {} /\ rule.maxReqLen # LimitInt) =>
         /\ answer.sent = {r.body} /\ ~ r.broken
         /\ rule.maxReqLen > 0 => Len(r.body) <= rule.maxReqLen
         /\ r.agent \notin rule.forbUserAg /\ r.body \notin rule.forbReqRe
         /\ rule.reqHeaders \subseteq DOMAIN r.headers
         /\ \A k \in DOMAIN rule.forbHeaders : LET p == rule.forbHeaders[k] IN
              (Kept(p.pattern) = p.pattern /\ HeaderMatches(p, r)) =>
                \E l \in DOMAIN rule.forbHeaders : l > k /\ rule.forbHeaders[l].header = p.header
    /\ (answer.data # <<>> /\ rule.maxRespLen # LimitInt) =>
         /\ answer.data = resp.body /\ answer.code = resp.code
         /\ resp.code \notin rule.forbRespCodes /\ resp.body \notin rule.forbRespRe
         /\ rule.maxRespLen > 0 => Len(resp.body) <= rule.maxRespLen

\* A request with a header that a pattern of its rule matches is refused
\* (configs/example.yaml:7-9).  The code does not keep this: it drops all but
\* the last pattern of a header and cuts that one (main.go:242-254).
HeaderRulesHold(config, r, answer) ==
  \A i \in DOMAIN config :
    (/\ config[i].endpoint = r.path
     /\ \A j \in DOMAIN config : j > i => config[j].endpoint # r.path
     /\ answer.sent # {}) =>
       \A p \in ToSet(config[i].forbHeaders) : ~ HeaderMatches(p, r)
=============================================================================
