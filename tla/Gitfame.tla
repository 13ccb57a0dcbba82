------------------------------ MODULE Gitfame ------------------------------
(***************************************************************************)
(* gitfame/parsing/parsing.go and cmd/gitfame/main.go: which files of a    *)
(* revision count, a goroutine per file that reads "git blame --porcelain" *)
(* (at most SemCap at a time) and adds to the statistics under a mutex,    *)
(* and the order of the result.                                            *)
(*                                                                         *)
(* git is external: a file has the commits its lines come from, and the    *)
(* output names the author and committer of a commit once per file, before *)
(* the first line of that commit.  Any run of git may fail.                *)
(***************************************************************************)
EXTENDS Integers, Sequences, FiniteSets, SequencesExt

CONSTANTS GitFiles,
          Blame,        \* Blame[f]: the commits of the lines of f
          LastCommit,   \* LastCommit[f]: what "git log -1" says of f
          Author, Committer,    \* Author[c], Committer[c]: a number for a name
          Ext,          \* Ext[f]: the extension of f
          SemCap        \* the 30 of sem

Commits == DOMAIN Author

ASSUME FameAssumption ==
  /\ IsFiniteSet(GitFiles) /\ IsFiniteSet(Commits) /\ SemCap \in Nat
  /\ Blame \in [GitFiles -> Seq(Commits)] /\ LastCommit \in [GitFiles -> Commits]
  /\ Author \in [Commits -> Int] /\ Committer \in [Commits -> Int]

VARIABLES opts,     \* the options of the command line
          blamer,   \* blamer[f]: where the goroutine of f is
          output,   \* output[f]: the next of its git blame to parse
          curCommit, authors, hasLines,    \* locals of processFile
          stats, unreadable

fameVars == <<opts, blamer, output, curCommit, authors, hasLines, stats, unreadable>>

Names == {Author[c] : c \in Commits} \union {Committer[c] : c \in Commits}
NoStats == [lines |-> 0, commits |-> {}, files |-> {}]

\* The porcelain format line by line: part of the n-th line of the file.
Top == [line |-> 1, part |-> "hash"]
AtEnd(f) == output[f].line > Len(Blame[f])
CommitAt(f) == Blame[f][output[f].line]
FirstOfItsCommit(f) == \A m \in 1..(output[f].line - 1) : Blame[f][m] # CommitAt(f)
NextOutput(f) ==
  LET at(part) == [output[f] EXCEPT !.part = part]
  IN CASE output[f].part = "hash"      -> at(IF FirstOfItsCommit(f) THEN "author" ELSE "text")
       [] output[f].part = "author"    -> at("committer")
       [] output[f].part = "committer" -> at("text")
       [] output[f].part = "text"      -> [line |-> output[f].line + 1, part |-> "hash"]

\* GetValidExt and GetTargetFiles; langs is the extensions of the languages
\* asked for, exclude and restrict are the files that their patterns match.
Targets(o) == {f \in GitFiles :
  /\ o.extens \union o.langs # {} => Ext[f] \in o.extens \union o.langs
  /\ f \notin o.exclude
  /\ o.restrict # {} => f \in o.restrict}

Options == [useCmtr : BOOLEAN, order : {"lines", "commits", "files"}, extens : {{}, {"go"}},
            langs : {{}, {"md"}}, exclude : {{}} \union {{f} : f \in GitFiles},
            restrict : {{}, GitFiles}]

FameTypeOK ==
  /\ blamer \in [GitFiles -> {"none", "start", "parse", "over"}]
  /\ Cardinality({f \in GitFiles : blamer[f] = "parse"}) <= SemCap
  /\ \A f \in GitFiles : output[f].line \in 1..(Len(Blame[f]) + 1)
  /\ \A name \in Names : stats[name].lines \in Nat

FameInit == /\ opts \in Options
            /\ blamer = [f \in GitFiles |-> IF f \in Targets(opts) THEN "start" ELSE "none"]
            /\ output = [f \in GitFiles |-> Top]
            /\ curCommit = [f \in GitFiles |-> 0]
            /\ authors = [f \in GitFiles |-> [c \in Commits |-> 0]]
            /\ hasLines = [f \in GitFiles |-> FALSE]
            /\ stats = [name \in Names |-> NoStats]
            /\ unreadable = {}

Put(fn, f, x) == [fn EXCEPT ![f] = x]

SemFree == Cardinality({g \in GitFiles : blamer[g] = "parse"}) < SemCap

BlameFails(f) == /\ blamer[f] = "start" /\ SemFree
                 /\ blamer' = Put(blamer, f, "over")
                 /\ unreadable' = unreadable \union {f}
                 /\ UNCHANGED <<opts, output, curCommit, authors, hasLines, stats>>

\* mutant: a goroutine does not wait for sem
ProcessAtOnce(f) == /\ blamer[f] = "start"
                    /\ blamer' = Put(blamer, f, "parse")
                    /\ output' = Put(output, f, Top)
                    /\ UNCHANGED <<opts, curCommit, authors, hasLines, stats, unreadable>>

ProcessFile(f) == /\ blamer[f] = "start" /\ SemFree
                  /\ blamer' = Put(blamer, f, "parse")
                  /\ output' = Put(output, f, Top)
                  /\ UNCHANGED <<opts, curCommit, authors, hasLines, stats, unreadable>>

NameOf(c) == IF opts.useCmtr THEN Committer[c] ELSE Author[c]

\* One section under mu.
AddStat(name, commit, f, isLine) ==
  stats' = [stats EXCEPT ![name] = [lines   |-> @.lines + (IF isLine THEN 1 ELSE 0),
                                    commits |-> @.commits \union {commit},
                                    files   |-> @.files \union {f}]]

\* mutant: the name of the last header is taken, as if each line had one
NameOfLastHeader(f) ==
  /\ blamer[f] = "parse" /\ ~ AtEnd(f)
  /\ output' = Put(output, f, NextOutput(f))
  /\ \/ output[f].part = "hash" /\ curCommit' = Put(curCommit, f, CommitAt(f))
        /\ UNCHANGED <<authors, hasLines, stats>>
     \/ output[f].part = (IF opts.useCmtr THEN "committer" ELSE "author")
        /\ authors' = Put(authors, f, [c \in Commits |-> NameOf(CommitAt(f))])
        /\ UNCHANGED <<curCommit, hasLines, stats>>
     \/ output[f].part = (IF opts.useCmtr THEN "author" ELSE "committer")
        /\ UNCHANGED <<curCommit, authors, hasLines, stats>>
     \/ output[f].part = "text" /\ hasLines' = Put(hasLines, f, TRUE)
        /\ AddStat(authors[f][curCommit[f]], curCommit[f], f, TRUE)
        /\ UNCHANGED <<curCommit, authors>>
  /\ UNCHANGED <<opts, blamer, unreadable>>

ParseBlame(f) ==
  /\ blamer[f] = "parse" /\ ~ AtEnd(f)
  /\ output' = Put(output, f, NextOutput(f))
  /\ \/ output[f].part = "hash" /\ curCommit' = Put(curCommit, f, CommitAt(f))
        /\ UNCHANGED <<authors, hasLines, stats>>
     \/ output[f].part = (IF opts.useCmtr THEN "committer" ELSE "author")
        /\ authors' = Put(authors, f, Put(authors[f], curCommit[f], NameOf(CommitAt(f))))
        /\ UNCHANGED <<curCommit, hasLines, stats>>
     \/ output[f].part = (IF opts.useCmtr THEN "author" ELSE "committer")
        /\ UNCHANGED <<curCommit, authors, hasLines, stats>>
     \/ output[f].part = "text" /\ hasLines' = Put(hasLines, f, TRUE)
        /\ AddStat(authors[f][curCommit[f]], curCommit[f], f, TRUE)
        /\ UNCHANGED <<curCommit, authors>>
  /\ UNCHANGED <<opts, blamer, unreadable>>

\* A file without lines counts for who touched it last, unless git log fails.
FileOver(f) ==
  /\ blamer[f] = "parse" /\ AtEnd(f)
  /\ blamer' = Put(blamer, f, "over")
  /\ LET c == LastCommit[f] IN
     \/ hasLines[f] /\ UNCHANGED <<stats, unreadable>>
     \/ /\ ~ hasLines[f] /\ UNCHANGED unreadable
        /\ AddStat(NameOf(c), c, f, FALSE)
     \/ /\ ~ hasLines[f] /\ UNCHANGED stats
        /\ unreadable' = unreadable \union {f}
  /\ UNCHANGED <<opts, output, curCommit, authors, hasLines>>

FameNext == \E f \in GitFiles :
              BlameFails(f) \/ ProcessFile(f) \/ ParseBlame(f) \/ FileOver(f)

FameSpec == FameInit /\ [][FameNext]_fameVars

\* cmpStats: the keys in the order they are compared in, then the name.
Keys(name) ==
  LET lines == stats[name].lines
      commits == Cardinality(stats[name].commits)
      files == Cardinality(stats[name].files)
  IN CASE opts.order = "lines"   -> <<lines, commits, files>>
       [] opts.order = "commits" -> <<commits, lines, files>>
       [] opts.order = "files"   -> <<files, lines, commits>>
CmpStats(a, b) ==
  \/ Keys(a) = Keys(b) /\ a < b
  \/ \E k \in 1..3 : /\ \A j \in 1..(k - 1) : Keys(a)[j] = Keys(b)[j]
                     /\ Keys(a)[k] > Keys(b)[k]

---------------------------------------------------------------------------
(* Properties                                                              *)

\* What a file adds to somebody, said without the porcelain format.
ShareOf(name, f) ==
  LET mine == {n \in DOMAIN Blame[f] : NameOf(Blame[f][n]) = name}
      empty == Blame[f] = <<>> /\ NameOf(LastCommit[f]) = name
  IN [lines |-> Cardinality(mine), touched |-> mine # {} \/ empty,
      commits |-> {Blame[f][n] : n \in mine} \union (IF empty THEN {LastCommit[f]} ELSE {})]

\* When all goroutines are over, everybody has the lines, commits and files
\* that the readable target files say, in whatever order they were read, and
\* the order of the result has no ties (parsing.go:117-206, 208-242).
StatsAreRight ==
  (\A f \in GitFiles : blamer[f] \in {"none", "over"}) =>
    LET read == Targets(opts) \ unreadable IN
    /\ \A name \in Names :
         /\ stats[name].lines = SumFunctionOnSet([f \in GitFiles |-> ShareOf(name, f).lines], read)
         /\ stats[name].commits = UNION {ShareOf(name, f).commits : f \in read}
         /\ stats[name].files = {f \in read : ShareOf(name, f).touched}
    /\ \A a, b \in Names : a # b => (CmpStats(a, b) <=> ~ CmpStats(b, a))
============================================================================
