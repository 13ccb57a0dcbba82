------------------------------- MODULE Orders -------------------------------
(***************************************************************************)
(* Three algorithms that put things in an order: build.TopSort of a build  *)
(* graph, hogwarts.GetCourseList and hotelbusiness.ComputeLoad.  Ids,      *)
(* courses and dates are numbers; a job is [id, deps].                     *)
(***************************************************************************)
EXTENDS Integers, Sequences, FiniteSets, SequencesExt

---------------------------------------------------------------------------
(* distbuild/pkg/build/top_sort.go                                         *)

\* jobIDIndex: the last job with the id, and the first job of all for an id
\* that no job has, which the map answers with its zero.
IndexOfJob(jobs, id) == LET of == {i \in DOMAIN jobs : jobs[i].id = id}
                        IN IF of = {} THEN 1 ELSE Max(of)

RECURSIVE Visit(_, _, _)
Visit(jobs, walk, i) ==
  LET deps == FoldLeft(LAMBDA w, id : Visit(jobs, w, IndexOfJob(jobs, id)),
                       [walk EXCEPT !.visited = @ \union {i}], jobs[i].deps)
  IN IF i \in walk.visited THEN walk ELSE [deps EXCEPT !.sorted = Append(@, i)]

TopSort(jobs) == FoldLeft(LAMBDA w, i : Visit(jobs, w, i), [visited |-> {}, sorted |-> <<>>],
                          [i \in DOMAIN jobs |-> i]).sorted

---------------------------------------------------------------------------
(* hogwarts/courselist.go                                                  *)

Occurrences(s, x) == Cardinality({i \in DOMAIN s : s[i] = x})
Prereqs(prereqs, c) == IF c \in DOMAIN prereqs THEN prereqs[c] ELSE <<>>
Vertices(prereqs) == DOMAIN prereqs \union UNION {ToSet(prereqs[c]) : c \in DOMAIN prereqs}

RECURSIVE Kahn(_, _, _, _)
Kahn(prereqs, queue, degree, ans) ==
  IF queue = <<>> THEN ans
  ELSE LET step == FoldLeft(LAMBDA s, n : [degree |-> [s.degree EXCEPT ![n] = @ - 1],
                                           queue |-> IF s.degree[n] = 1 THEN Append(s.queue, n) ELSE s.queue],
                            [degree |-> degree, queue |-> Tail(queue)], Prereqs(prereqs, Head(queue)))
       IN Kahn(prereqs, step.queue, step.degree, Append(ans, Head(queue)))

\* walk: the order in which the range over uniqueVert happens to go.
GetCourseList(prereqs, walk) ==
  LET degree == [v \in Vertices(prereqs) |->
                   FoldSet(LAMBDA c, n : n + Occurrences(prereqs[c], v), 0, DOMAIN prereqs)]
      ans == Kahn(prereqs, SelectSeq(walk, LAMBDA v : degree[v] = 0), degree, <<>>)
  IN IF Len(ans) # Cardinality(Vertices(prereqs)) THEN "panic" ELSE Reverse(ans)

---------------------------------------------------------------------------
(* hotelbusiness/hotels.go: a guest is [in, out].                          *)

ComputeLoad(guests) ==
  LET Of(d, end) == Cardinality({i \in DOMAIN guests : guests[i][end] = d})
      Change(d) == Of(d, "in") - Of(d, "out")
      dates == SetToSortSeq({guests[i].in : i \in DOMAIN guests}
                              \union {guests[i].out : i \in DOMAIN guests}, <)
  IN FoldLeft(LAMBDA load, d :
                IF Change(d) = 0 THEN load
                ELSE Append(load, [date |-> d,
                                   count |-> Change(d) + IF load = <<>> THEN 0 ELSE Last(load).count]),
              <<>>, dates)

---------------------------------------------------------------------------
(* Properties                                                              *)

Cyclic(nodes, Next(_)) == \E s \in SUBSET nodes \ {{}} : \A n \in s : Next(n) \intersect s # {}

\* Every job comes once, and behind the jobs it needs when the graph has no
\* cycle and no id twice (top_sort.go:4-31).
TopSortRight(jobs, sorted) ==
  LET Needs(i) == {j \in DOMAIN jobs : jobs[j].id \in ToSet(jobs[i].deps)}
      place == [i \in DOMAIN jobs |-> CHOOSE k \in DOMAIN sorted : sorted[k] = i]
      dense == \A id \in UNION {ToSet(jobs[i].deps) : i \in DOMAIN jobs} :
                 Cardinality({j \in DOMAIN jobs : jobs[j].id = id}) = 1
  IN /\ ToSet(sorted) = DOMAIN jobs /\ Len(sorted) = Len(jobs)
     /\ dense /\ ~ Cyclic(DOMAIN jobs, Needs) =>
          \A i \in DOMAIN jobs : \A j \in Needs(i) : place[j] < place[i]

\* Every course comes once and behind its prerequisites, in whatever order
\* the map is walked; a cycle panics, and nothing else (courselist.go:7-48).
CourseListRight(prereqs, list) ==
  IF Cyclic(Vertices(prereqs), LAMBDA c : ToSet(Prereqs(prereqs, c))) THEN list = "panic"
  ELSE /\ ToSet(list) = Vertices(prereqs) /\ Len(list) = Cardinality(Vertices(prereqs))
       /\ \A i \in DOMAIN list : ToSet(Prereqs(prereqs, list[i])) \subseteq ToSet(SubSeq(list, 1, i - 1))

\* The load has the dates on which the number of guests at night changes, and
\* that number (hotels.go:17-43).
LoadRight(guests, load) ==
  LET Nights(d) == Cardinality({i \in DOMAIN guests : guests[i].in <= d /\ d < guests[i].out})
      days == UNION {guests[i].in..guests[i].out : i \in DOMAIN guests}
  IN /\ ToSet(load) = {[date |-> d, count |-> Nights(d)] : d \in {e \in days : Nights(e) # Nights(e - 1)}}
     /\ \A i \in 1..(Len(load) - 1) : load[i].date < load[i + 1].date
=============================================================================
