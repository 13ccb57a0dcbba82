---------------------------- MODULE MCAlgorithms ----------------------------
(* TLC instance of the algorithms: a behaviour is one call of one of them, or *)
(* the rows that an evaluator of forth is given.                              *)
EXTENDS Firewall, Olympics, IPRange, Duration, Forth, Orders

VARIABLE calc          \* a call of an algorithm: [of, in, out], out <<>> before it returns

algorithmsVars == <<calc, forthVars>>

---------------------------------------------------------------------------
(* Instances                                                               *)

UnitLengths == [s |-> 1, m |-> 6, ms |-> 3]

ForthRows == {<<"1", "2">>, <<"2", "dup", "+", "over">>, <<"swap", "foo">>, <<"drop", "3", "bar">>,
              <<":", "foo", "dup", "bar", ";">>, <<":", "bar", "1", "swap", "-", ";">>,
              <<":", "bar", "3", "bar", ";">>, <<":", "1", "2", ";">>, <<"*", "0", "/">>, <<>>}
ForthNumbers == ("0" :> 0) @@ ("1" :> 1) @@ ("2" :> 2) @@ ("3" :> 3)

---------------------------------------------------------------------------
(* Inputs of the algorithms                                                *)

FirewallRule ==
  [endpoint |-> "/a", forbUserAg |-> {"bad"},
   forbHeaders |-> <<[header |-> "H", pattern |-> <<"a">>], [header |-> "H", pattern |-> <<"b">>]>>,
   reqHeaders |-> {"R"}, maxReqLen |-> 2, maxRespLen |-> 1, forbRespCodes |-> {500},
   forbReqRe |-> {<<2>>}, forbRespRe |-> {<<2>>}]
OpenRule ==
  [endpoint |-> "/b", forbUserAg |-> {}, forbHeaders |-> <<>>, reqHeaders |-> {},
   maxReqLen |-> LimitInt, maxRespLen |-> 0, forbRespCodes |-> {}, forbReqRe |-> {}, forbRespRe |-> {}]
FirewallConfigs == {<<FirewallRule, OpenRule>>, <<[OpenRule EXCEPT !.endpoint = "/a"], FirewallRule>>,
                    <<FirewallRule, [OpenRule EXCEPT !.endpoint = "/"]>>}
                     \union {<<[FirewallRule EXCEPT !.forbHeaders[2].pattern = p]>> :
                               p \in {<<"b", "|", "a">>, <<"a", ".">>, <<".", "b">>}}
Bodies == {<<>>, <<1>>, <<2>>, <<1, 2>>, <<1, 1, 2>>}
Required == "R" :> {<<"a">>}
HeaderValues == {{<<"a">>}, {<<"a">>, <<"b">>}, {<<"c", "a">>}}
HttpRequests == [path : {"/a", "/b", "/c"}, agent : {"bad", "good"},
                 headers : {<<>>, Required} \union {Required @@ ("H" :> v) : v \in HeaderValues},
                 body : Bodies, broken : BOOLEAN]
HttpAnswers == [code : {200, 500}, body : Bodies, broken : BOOLEAN, down : BOOLEAN]
FirewallInputs ==
  [config : FirewallConfigs, r : HttpRequests,
   resp : {[code |-> 200, body |-> <<1>>, broken |-> FALSE, down |-> FALSE]}]
    \union [config : FirewallConfigs, resp : HttpAnswers,
            r : {r \in HttpRequests : r.agent = "good" /\ r.headers = Required /\ r.body = <<1>>}]

Wins == [name : {1, 2}, country : {1, 2}, year : {2004, 2008}, sport : {7}, medals : {<<1, 0, 0, 1>>, <<0, 1, 1, 2>>}]
SportData == {<<>>} \union {s \in [1..3 -> Wins] : s[1].name = 1 /\ s[1].country = 1 /\ s[1].year = 2004}
OlympicsInputs ==
  [data : SportData,
   r : [of : {"athlete"}, key : {1, 3}, limit : {<<>>}, params : {TRUE}]
         \union [of : {"sport"}, key : {7, 8}, limit : {<<>>, <<1>>, <<-1>>}, params : {TRUE}]
         \union [of : {"year"}, key : {2004}, limit : {<<>>, <<0>>, <<-1>>}, params : BOOLEAN]]

\* Texts one change away from targets, and two from the first one.
TextAlphabet == {"1", "3", ".", ",", "-", "/", "*", " ", "nul", "x"}
Edits(s) == {InsertAt(s, i, c) : i \in 1..(Len(s) + 1), c \in TextAlphabet}
              \union {RemoveAt(s, i) : i \in DOMAIN s}
              \union {[s EXCEPT ![i] = c] : i \in DOMAIN s, c \in TextAlphabet}
Target == <<"1", ".", "1", ".", "3", ".", "1">>
WideTarget == <<"*", ".", "1", "-", "3", ".", "1", ".", "3", "3", "/", "1">>
TwoTargets == Target \o <<",", " ">> \o Target \o <<"/", "3", "1">>
IPTexts == Edits(WideTarget) \union Edits(TwoTargets) \union UNION {Edits(s) : s \in Edits(Target)}
Ranges == [min : {<<1, 0, 2, 0>>, <<1, 31, 2, 31>>, <<1, 0, 1, 0>>},
           max : {<<1, 0, 2, 1>>, <<1, 1, 3, 0>>, <<2, 1, 2, 1>>}]
RangeLists == {<<r>> : r \in Ranges} \union (Ranges \X Ranges)

DurationTexts == BoundedSeq({"0", "1", "9", ".", "-", "s", "m"}, 4)

\* Jobs with an id that nobody has among what they need, and one id twice.
JobLists == UNION {[1..n -> [id : {1, 2}, deps : BoundedSeq({1, 2, 3}, 2)]] : n \in 1..2}
              \union {[i \in 1..3 |-> [id |-> i, deps |-> d[i]]] : d \in [1..3 -> BoundedSeq(1..3, 1)]}
PrereqMaps == UNION {[courses -> BoundedSeq(1..3, 2)] : courses \in SUBSET {1, 2}}
CourseInputs == UNION {[prereqs : {p}, walk : SetToSeqs(Vertices(p))] : p \in PrereqMaps}
Guests == {g \in [in : 0..3, out : 0..3] : g.in <= g.out}
GuestLists == UNION {[1..n -> Guests] : n \in 0..2}

Inputs(of) == CASE of = "firewall" -> FirewallInputs [] of = "olympics" -> OlympicsInputs
                [] of = "iprange" -> IPTexts [] of = "expand" -> RangeLists
                [] of = "duration" -> DurationTexts [] of = "topsort" -> JobLists
                [] of = "courses" -> CourseInputs [] of = "load" -> GuestLists
Algorithms == {"firewall", "olympics", "iprange", "expand", "duration", "topsort", "courses", "load"}

Result(of, in) == CASE of = "firewall" -> Handle(in.config, in.r, in.resp)
                    [] of = "olympics" -> Respond(in.data, in.r)
                    [] of = "iprange" -> ParseList(in) [] of = "expand" -> Expand(in)
                    [] of = "duration" -> ParseDuration(in) [] of = "topsort" -> TopSort(in)
                    [] of = "courses" -> GetCourseList(in.prereqs, in.walk)
                    [] of = "load" -> ComputeLoad(in)

Call == /\ calc.out = <<>>
        /\ calc' = [calc EXCEPT !.out = <<Result(calc.of, calc.in)>>]

NoCall == [of |-> "none", in |-> <<>>, out |-> <<>>]

AlgorithmsInit ==
  /\ \/ \E of \in Algorithms : \E in \in Inputs(of) : calc = [of |-> of, in |-> in, out |-> <<>>]
     \/ calc = [NoCall EXCEPT !.of = "forth"]
  /\ ForthInit

AlgorithmsNext == \/ calc.of \in Algorithms /\ Call /\ UNCHANGED forthVars
                  \/ calc.of = "forth" /\ ForthNext /\ UNCHANGED calc

AlgorithmsSpec == AlgorithmsInit /\ [][AlgorithmsNext]_algorithmsVars

---------------------------------------------------------------------------
(* Properties                                                              *)

\* What each algorithm returns is what its definition says: the firewall, the
\* tables of olympics, the parser and expansion of iprange, ParseDuration,
\* both topological sorts, the load of a hotel, and the rows of forth.
ResultsAreRight ==
  /\ RowsMeanWhatTheySay
  /\ calc.out # <<>> =>
       LET in == calc.in
           out == calc.out[1]
       IN CASE calc.of = "firewall" -> FirewallRight(in.config, in.r, in.resp, out)
            [] calc.of = "olympics" -> OlympicsRight(in.data, in.r, out)
            [] calc.of = "iprange" -> IPRangeRight(in, out)
            [] calc.of = "expand" -> ExpandRight(in, out)
            [] calc.of = "duration" -> DurationRight(in, out)
            [] calc.of = "topsort" -> TopSortRight(in, out)
            [] calc.of = "courses" -> CourseListRight(in.prereqs, out)
            [] calc.of = "load" -> LoadRight(in, out)

\* A request with a header that a rule forbids is refused (example.yaml:7-9).
ForbiddenHeadersRefused ==
  calc.of = "firewall" /\ calc.out # <<>> => HeaderRulesHold(calc.in.config, calc.in.r, calc.out[1])
=============================================================================
