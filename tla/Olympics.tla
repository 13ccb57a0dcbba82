------------------------------ MODULE Olympics ------------------------------
(***************************************************************************)
(* olympics/main.go: the tables that the server builds from its data, one  *)
(* entry after another, and its three requests.                            *)
(*                                                                         *)
(* An entry is [name, country, year, sport, medals]; names and countries   *)
(* are numbers, in their lexicographic order, and medals is <<gold,        *)
(* silver, bronze, total>>, the total as the data says it.                 *)
(***************************************************************************)
EXTENDS Integers, Sequences, FiniteSets, SequencesExt

NoMedals == <<0, 0, 0, 0>>
Plus(medals, more) == [k \in 1..4 |-> medals[k] + more[k]]

\* A Go map: what key has, or none, goes through Change.
With(map, key, none, Change(_)) ==
  [k \in DOMAIN map \union {key} |->
     IF k # key THEN map[k] ELSE Change(IF key \in DOMAIN map THEN map[key] ELSE none)]

NoAgg == [firstCountry |-> <<>>, athletes |-> <<>>, topBySport |-> <<>>, topByYear |-> <<>>]

\* mutant: an athlete has the country of the entry at hand
LatestCountry(agg, e) ==
  LET fresh == [country |-> e.country, medals |-> NoMedals, byYear |-> <<>>]
      Credit(a) == [country |-> e.country, medals |-> Plus(a.medals, e.medals),
                    byYear |-> With(a.byYear, e.year, NoMedals, LAMBDA m : Plus(m, e.medals))]
  IN [agg EXCEPT
        !.athletes = With(@, e.name, fresh, Credit),
        !.topBySport = With(@, e.sport, <<>>, LAMBDA s : With(s, e.name, fresh, Credit)),
        !.topByYear = With(@, e.year, <<>>,
                        LAMBDA y : With(y, e.country, NoMedals, LAMBDA m : Plus(m, e.medals)))]

\* The body of the loop of aggrAth.
AddEntry(agg, e) ==
  LET assigned == With(agg.firstCountry, e.name, e.country, LAMBDA c : c)
      fresh == [country |-> assigned[e.name], medals |-> NoMedals, byYear |-> <<>>]
      Credit(a) == [a EXCEPT !.medals = Plus(@, e.medals),
                             !.byYear = With(@, e.year, NoMedals, LAMBDA m : Plus(m, e.medals))]
  IN [firstCountry |-> assigned,
      athletes |-> With(agg.athletes, e.name, fresh, Credit),
      topBySport |-> With(agg.topBySport, e.sport, <<>>, LAMBDA s : With(s, e.name, fresh, Credit)),
      topByYear |-> With(agg.topByYear, e.year, <<>>,
                      LAMBDA y : With(y, e.country, NoMedals, LAMBDA m : Plus(m, e.medals)))]

AggrAth(sportData) == FoldLeft(AddEntry, NoAgg, sportData)

\* The order of both sorts: gold, silver, bronze, name; the total does not count.
Ahead(a, b) ==
  LET differ == {k \in 1..3 : a.medals[k] # b.medals[k]}
  IN IF differ = {} THEN a.name < b.name ELSE a.medals[Min(differ)] > b.medals[Min(differ)]

SortedTopBySport(agg) == [s \in DOMAIN agg.topBySport |->
  SetToSortSeq({[name |-> n, medals |-> agg.topBySport[s][n].medals]
                  : n \in DOMAIN agg.topBySport[s]}, Ahead)]
SortedTopByYear(agg) == [y \in DOMAIN agg.topByYear |->
  SetToSortSeq({[name |-> c, medals |-> agg.topByYear[y][c]] : c \in DOMAIN agg.topByYear[y]}, Ahead)]

NotFound == [code |-> 404, rows |-> <<>>]
BadQuery == [code |-> 400, rows |-> <<>>]
FirstRows(list, limit) == [code |-> 200, rows |-> SubSeq(list, 1, Min({limit, Len(list)}))]

AthInfoResp(agg, name) ==
  IF name \in DOMAIN agg.athletes THEN [code |-> 200, rows |-> <<agg.athletes[name]>>] ELSE NotFound

\* A bad limit is refused before the sport is looked up, and after the year is.
TopAthInSportResp(sorted, sport, limit) ==
  IF limit < 0 THEN BadQuery
  ELSE IF sport \notin DOMAIN sorted THEN NotFound ELSE FirstRows(sorted[sport], limit)

TopCountriesInYearResp(sorted, year, limit) ==
  IF year \notin DOMAIN sorted THEN NotFound
  ELSE IF limit < 0 THEN BadQuery ELSE FirstRows(sorted[year], limit)

\* A limit that is no number is -1 here; without one it is 3.
LimitOf(r) == IF r.limit = <<>> THEN 3 ELSE r.limit[1]

\* A request for a table without any parameter is refused.
Respond(sportData, r) ==
  LET agg == AggrAth(sportData)
      limit == LimitOf(r)
  IN CASE r.of # "athlete" /\ ~ r.params -> BadQuery
       [] r.of = "athlete" -> AthInfoResp(agg, r.key)
       [] r.of = "sport" /\ r.params -> TopAthInSportResp(SortedTopBySport(agg), r.key, limit)
       [] r.of = "year" /\ r.params -> TopCountriesInYearResp(SortedTopByYear(agg), r.key, limit)

---------------------------------------------------------------------------
(* Properties                                                              *)

SumOver(sportData, entries) ==
  FoldSet(LAMBDA i, sum : Plus(sum, sportData[i].medals), NoMedals, entries)

\* An answer is right by the data alone: an athlete has the country of the
\* first entry and all medals, by year too; a table has a row for each athlete
\* of the sport or country of the year, up to the limit, the row before is
\* ahead and nobody left out is ahead of a row (main.go:50-186).
OlympicsRight(sportData, r, answer) ==
  LET Where(P(_)) == {i \in DOMAIN sportData : P(sportData[i])}
      mine == Where(LAMBDA e : e.name = r.key)
      sport == Where(LAMBDA e : e.sport = r.key)
      year == Where(LAMBDA e : e.year = r.key)
      Table(entries, Who(_)) ==
        {[name |-> w, medals |-> SumOver(sportData, {i \in entries : Who(sportData[i]) = w})]
           : w \in {Who(sportData[i]) : i \in entries}}
      Ranked(table) ==
        IF table = {} \/ LimitOf(r) < 0 \/ ~ r.params THEN answer.code # 200 ELSE
        /\ Len(answer.rows) = Min({LimitOf(r), Cardinality(table)})
        /\ ToSet(answer.rows) \subseteq table
        /\ \A k \in DOMAIN answer.rows : \A t \in table \ ToSet(SubSeq(answer.rows, 1, k)) :
             Ahead(answer.rows[k], t)
  IN CASE r.of = "athlete" ->
            IF mine = {} THEN answer.code = 404
            ELSE answer.rows = <<[country |-> sportData[Min(mine)].country,
                                  medals |-> SumOver(sportData, mine),
                                  byYear |-> [y \in {sportData[i].year : i \in mine} |->
                                                SumOver(sportData, {i \in mine : sportData[i].year = y})]]>>
       [] r.of = "sport" -> Ranked(Table(sport, LAMBDA e : e.name))
       [] r.of = "year" -> Ranked(Table(year, LAMBDA e : e.country))
=============================================================================
