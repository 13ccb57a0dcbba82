------------------------------- MODULE Grader -------------------------------
(***************************************************************************)
(* tools/testtool/commands: "testtool grade".  For each task that a commit *)
(* changes, the files of the student and of the private repository are     *)
(* laid over each other in a temporary directory, built, tested, measured  *)
(* and linted there, and the verdict is reported with three tries.         *)
(*                                                                         *)
(* Commands (rsync, go, the linter) and the server are external: each may  *)
(* fail.  log.Fatal ends the program at once, without deferred calls.  A   *)
(* file stands for all files of its kind in the directory of a task.       *)
(***************************************************************************)
EXTENDS Integers, Sequences, FiniteSets

CONSTANTS Groups,      \* the groups of .deadlines.yml, each a set of tasks
          Watched,     \* Watched[t]: the directories that t watches
          Stmts,       \* Stmts[b]: the statements of block b of a coverage profile
          MinCoverage  \* per cent

VARIABLES tasks,       \* the tasks still to be graded, in order
          grading,     \* where grade is
          repos,       \* what the two repositories have of the task
          tmpRepo,     \* tmpRepo[f]: whose file f is in the temporary directory
          pkgs,        \* the test packages that have still to run
          covered,     \* the blocks that tests have reached
          verdict,     \* verdict[t]
          tries,
          server,      \* the reports that have arrived
          leftDirs     \* the directories that nobody has removed

graderVars == <<tasks, grading, repos, tmpRepo, pkgs, covered, verdict, tries, server, leftDirs>>

Tests == {"test"}
OwnFiles == {"solution", "extra_test"}   \* what only a student has
Files == OwnFiles \union Tests \union {"protected", "testdata", "go.mod"}
TaskNames == UNION {Groups[g] : g \in DOMAIN Groups}
NoRepo == [f \in Files |-> "absent"]

\* Names are compared: numbers stand for them.
ASSUME GraderAssumption == TaskNames \subseteq Nat /\ IsFiniteSet(TaskNames)

---------------------------------------------------------------------------
(* Which tasks a commit is about.                                          *)

\* FindTask on the first component of the path, and the watched prefixes.
\* Whether a task is released yet is only logged: it is tested all the same.
ChangedTasks(dirs) == {t \in TaskNames : t \in dirs \/ Watched[t] \cap dirs # {}}

GraderInit == /\ \E dirs \in SUBSET (TaskNames \union UNION {Watched[t] : t \in TaskNames}) :
                   tasks \in {s \in [1..Cardinality(ChangedTasks(dirs)) -> ChangedTasks(dirs)] :
                                \A i, j \in DOMAIN s : i < j => s[i] < s[j]}
              /\ grading = "next" /\ repos = [student |-> {}, private |-> {}, coverage |-> FALSE]
              /\ tmpRepo = NoRepo /\ pkgs = {} /\ covered = {}
              /\ verdict = [t \in TaskNames |-> "none"]
              /\ tries = 0 /\ server = {} /\ leftDirs = {}

Grade(label) == grading' = label

\* testSubmission begins: the directories may hold any of these files.
StartTask ==
  /\ grading = "next" /\ tasks # <<>>
  /\ \E s, p \in SUBSET {"test", "protected", "testdata"}, e \in SUBSET {"extra_test"}, c \in BOOLEAN :
       repos' = [student |-> s \union e \union {"solution", "go.mod"},
                 private |-> p \union {"test", "go.mod"}, coverage |-> c]
  /\ tmpRepo' = NoRepo /\ covered' = {}
  /\ leftDirs' = leftDirs \union {"tmpRepo"}
  /\ Grade("student")
  /\ UNCHANGED <<tasks, pkgs, verdict, tries, server>>

---------------------------------------------------------------------------
(* The layers, in the order of copying; -R keeps paths, nothing is deleted *)

\* mutant: the student's files are copied last
StudentLast == <<[at |-> "student", files |-> Tests, of |-> "private"],
                 [at |-> "tests", files |-> {"protected"}, of |-> "private"],
                 [at |-> "protected", files |-> {"testdata"}, of |-> "private"],
                 [at |-> "testdata", files |-> {"go.mod"}, of |-> "private"],
                 [at |-> "go.mod", files |-> Files, of |-> "student"]>>

Layers == <<[at |-> "student", files |-> Files, of |-> "student"],
            [at |-> "tests", files |-> Tests, of |-> "private"],
            [at |-> "protected", files |-> {"protected"}, of |-> "private"],
            [at |-> "testdata", files |-> {"testdata"}, of |-> "private"],
            [at |-> "go.mod", files |-> {"go.mod"}, of |-> "private"]>>

CopyLayer == \E n \in DOMAIN Layers :
  LET layer == Layers[n] IN
  /\ grading = layer.at
  /\ tmpRepo' = [f \in Files |-> IF f \in layer.files \cap repos[layer.of] THEN layer.of ELSE tmpRepo[f]]
  /\ Grade(IF n < Len(Layers) THEN Layers[n + 1].at ELSE "build")
  /\ UNCHANGED <<tasks, repos, pkgs, covered, verdict, tries, server, leftDirs>>

\* A command of the preparation fails, or the sandbox of a test: log.Fatal.
Fatal == /\ grading \in {"student", "tests", "protected", "testdata", "go.mod", "build", "run"}
         /\ Grade("exit 1")
         /\ UNCHANGED <<tasks, repos, tmpRepo, pkgs, covered, verdict, tries, server, leftDirs>>

---------------------------------------------------------------------------
(* runTests and runLinter                                                  *)

\* The end of testSubmission: the deferred removal, and no report when the
\* failure is not that of a test.
Judge(v) == /\ verdict' = [verdict EXCEPT ![Head(tasks)] = v]
            /\ leftDirs' = leftDirs \ {"tmpRepo"}
            /\ IF v = "failed" THEN Grade("next") /\ tasks' = Tail(tasks)
                               ELSE Grade("report") /\ UNCHANGED tasks

\* listTestsAndBinaries looks into the student's tree only for coverage.
\* binCache and gocache are never removed.
MakeCaches == /\ grading = "build"
              /\ pkgs' = Tests \union IF repos.coverage /\ tmpRepo["extra_test"] # "absent"
                                      THEN {"extra_test"} ELSE {}
              /\ leftDirs' = leftDirs \union {"bincache", "gocache"}
              /\ Grade("compile")
              /\ UNCHANGED <<tasks, repos, tmpRepo, covered, verdict, tries, server>>

\* All binaries, tests and tests with the race detector.
Build == /\ grading = "compile"
         /\ \/ Grade("run") /\ UNCHANGED <<tasks, verdict, leftDirs>>
            \/ Judge("failed")
         /\ UNCHANGED <<repos, tmpRepo, pkgs, covered, tries, server>>

\* Tests, tests with the race detector and benchmarks of a package.
RunPackage(p) == /\ grading = "run" /\ p \in pkgs
                 /\ \E blocks \in SUBSET DOMAIN Stmts :
                      covered' = covered \union IF repos.coverage THEN blocks ELSE {}
                 /\ pkgs' = pkgs \ {p}
                 /\ Grade("compare")
                 /\ UNCHANGED <<tasks, repos, tmpRepo, verdict, tries, server, leftDirs>>

PackageFails(p) == /\ grading = "run" /\ p \in pkgs /\ Judge("testFailed")
                   /\ UNCHANGED <<repos, tmpRepo, pkgs, covered, tries, server>>

\* Against the baseline, unless there are no benchmarks.
CompareToBaseline == /\ grading = "compare"
                     /\ \/ Grade("run") /\ UNCHANGED <<tasks, verdict, leftDirs>>
                        \/ Judge("failed")
                     /\ UNCHANGED <<repos, tmpRepo, pkgs, covered, tries, server>>

StmtsOf(blocks) ==
  LET sum[B \in SUBSET blocks] ==
        IF B = {} THEN 0 ELSE LET b == CHOOSE b \in B : TRUE IN Stmts[b] + sum[B \ {b}]
  IN sum[blocks]

\* calCoverage: a block counts when any of the packages reached it.
Enough == LET total == StmtsOf(DOMAIN Stmts)
          IN IF total = 0 THEN MinCoverage = 0 ELSE 100 * StmtsOf(covered) >= MinCoverage * total

CheckCoverage == /\ grading = "run" /\ pkgs = {}
                 /\ \/ repos.coverage /\ Judge("failed")     \* too little, or no profile to read
                    \/ /\ repos.coverage => Enough
                       /\ Grade("lint") /\ UNCHANGED <<tasks, verdict, leftDirs>>
                 /\ UNCHANGED <<repos, tmpRepo, pkgs, covered, tries, server>>

RunLinter == /\ grading = "lint"
             /\ \E v \in {"passed", "failed"} : Judge(v)
             /\ UNCHANGED <<repos, tmpRepo, pkgs, covered, tries, server>>

---------------------------------------------------------------------------
(* reportTestResults and the end                                           *)

Arrives == server' = server \union {[task |-> Head(tasks), failed |-> verdict[Head(tasks)] = "testFailed"]}

Reported == /\ grading = "report" /\ Arrives
            /\ tasks' = Tail(tasks) /\ tries' = 0 /\ Grade("next")
            /\ UNCHANGED <<repos, tmpRepo, pkgs, covered, verdict, leftDirs>>

\* An error or another status, whether or not the report has arrived.
ReportFails == /\ grading = "report"
               /\ Arrives \/ UNCHANGED server
               /\ tries' = tries + 1
               /\ Grade(IF tries + 1 = 3 THEN "exit 1" ELSE "report")
               /\ UNCHANGED <<tasks, repos, tmpRepo, pkgs, covered, verdict, leftDirs>>

GradeReturns == /\ grading = "next" /\ tasks = <<>>
                /\ Grade(IF \E t \in TaskNames : verdict[t] \in {"failed", "testFailed"}
                         THEN "exit 1" ELSE "exit 0")
                /\ UNCHANGED <<tasks, repos, tmpRepo, pkgs, covered, verdict, tries, server, leftDirs>>

GraderNext == \/ StartTask \/ CopyLayer \/ Fatal \/ MakeCaches \/ Build
              \/ \E p \in Tests \union OwnFiles : RunPackage(p) \/ PackageFails(p)
              \/ CompareToBaseline \/ CheckCoverage \/ RunLinter
              \/ Reported \/ ReportFails \/ GradeReturns

GraderSpec == GraderInit /\ [][GraderNext]_graderVars

---------------------------------------------------------------------------
(* Properties                                                              *)

\* Whatever the student's repository holds and whichever command or report
\* fails: tests run over the private version of every file that there is one
\* of; a report is the verdict of a task that was tested; the exit code is 0
\* only if all tasks passed and their reports have arrived; and the tree of a
\* task is removed but by log.Fatal (grade.go:36-71, test_submission.go:90-137).
GradeIsHonest ==
  /\ grading \in {"build", "compile", "run", "compare", "lint"} =>
       \A f \in repos.private : tmpRepo[f] = "private"
  /\ \A r \in server : verdict[r.task] = IF r.failed THEN "testFailed" ELSE "passed"
  /\ grading = "exit 0" =>
       \A t \in TaskNames : \/ verdict[t] = "none" /\ \A r \in server : r.task # t
                            \/ [task |-> t, failed |-> FALSE] \in server
  /\ "tmpRepo" \in leftDirs => grading \notin {"next", "report", "exit 0"}
=============================================================================
