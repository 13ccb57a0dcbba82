---------------------------- MODULE ExternalSort ----------------------------
(***************************************************************************)
(* externalsort/sort.go and io.go: Sort reads each file line by line       *)
(* through a buffer, sorts its lines in memory, truncates the file and     *)
(* writes them back, and merges the files with a heap.  A write may fail,  *)
(* which ends the Sort with that error.                                    *)
(*                                                                         *)
(* Files are sequences of characters, 0 is the newline.  The heap holds    *)
(* one line of a reader at most, so it is a set here; among equal lines    *)
(* container/heap may give any.                                            *)
(***************************************************************************)
EXTENDS Integers, Sequences, FiniteSets, SequencesExt

CONSTANTS Letters,      \* the characters but newline, ordered as numbers
          NumFiles,
          MaxFile,      \* bound on the length of a file
          BufLen        \* the 256 bytes of LineReaderT

ASSUME SortAssumption == /\ Letters \subseteq Nat \ {0}
                         /\ NumFiles \in Nat /\ MaxFile \in Nat /\ BufLen \in Nat \ {0}

VARIABLES original,  \* the files before Sort
          file,      \* the files now
          reader,    \* buf and the rest of each file, not yet read
          sb,        \* the line that ReadLine of reader i has so far
          sortAt,    \* the file, or the reader, Sort is at
          sorting,   \* load, write, first, merge, pop, done or failed
          sortLines, \* the lines of file i in memory
          strheap, sortOut

sortVars == <<original, file, reader, sb, sortAt, sorting, sortLines, strheap, sortOut>>

NL == 0
SortFiles == 1..NumFiles
NewReader(text) == [buf |-> <<>>, rest |-> text]
WithNewline(line) == line \o <<NL>>

\* str < str in Go: the first letter that differs, or the end of the shorter one.
LineLess(s, t) == \E k \in DOMAIN t : /\ k <= Len(s) + 1
                                      /\ \A j \in 1..(k - 1) : s[j] = t[j]
                                      /\ k <= Len(s) => s[k] < t[k]
LessOrEqual(s, t) == s = t \/ LineLess(s, t)
Ordered(ss) == \A i, j \in DOMAIN ss : i < j => LessOrEqual(ss[i], ss[j])

\* slices.Sort: the same lines in order.
Arrangements(ss) == {[k \in DOMAIN ss |-> ss[p[k]]] : p \in Bijection(DOMAIN ss, DOMAIN ss)}

SortInit == /\ original \in [SortFiles -> BoundedSeq(Letters \union {NL}, MaxFile)]
            /\ file = original
            /\ reader = [f \in SortFiles |-> NewReader(original[f])]
            /\ sb = <<>> /\ sortAt = 1
            /\ sorting = IF NumFiles = 0 THEN "pop" ELSE "load"
            /\ sortLines = <<>> /\ strheap = {} /\ sortOut = <<>>

Reading == sorting \in {"load", "first", "merge"}

\* What the caller of ReadLine does with a line: Sort collects it, Merge
\* pushes it.  An empty line with io.EOF is the end of the file.
Deliver(line, eof) ==
  LET end == eof /\ line = <<>>
  IN /\ sb' = <<>>
     /\ IF sorting = "load"
        THEN /\ IF end THEN \E sorted \in Arrangements(sortLines) :
                              Ordered(sorted) /\ sortLines' = sorted
                       ELSE sortLines' = Append(sortLines, line)
             /\ sorting' = IF end THEN "truncate" ELSE "load"
             /\ UNCHANGED <<strheap, sortAt>>
        ELSE /\ strheap' = IF end THEN strheap ELSE strheap \union {[str |-> line, ind |-> sortAt]}
             /\ sorting' = IF sorting = "first" /\ sortAt < NumFiles THEN "first" ELSE "pop"
             /\ sortAt' = IF sorting = "first" /\ sortAt < NumFiles THEN sortAt + 1 ELSE sortAt
             /\ UNCHANGED sortLines

\* ReadLine with an empty buffer: one Read, which says EOF by reading nothing.
FillBuffer ==
  /\ Reading /\ reader[sortAt].buf = <<>>
  /\ LET rest == reader[sortAt].rest
         n == IF Len(rest) < BufLen THEN Len(rest) ELSE BufLen
     IN IF n = 0
        THEN Deliver(sb, TRUE) /\ UNCHANGED reader
        ELSE /\ reader' = [reader EXCEPT ![sortAt] = [buf  |-> SubSeq(rest, 1, n),
                                                 rest |-> SubSeq(rest, n + 1, Len(rest))]]
             /\ UNCHANGED <<sb, sortAt, sorting, sortLines, strheap>>
  /\ UNCHANGED <<original, file, sortOut>>

\* The first n characters of the buffer are those before its first newline, if any.
UpToNewline(buf, n) == /\ n \in 0..Len(buf)
                       /\ \A k \in 1..n : buf[k] # NL
                       /\ n < Len(buf) => buf[n + 1] = NL

\* mutant: what follows the newline in the buffer is dropped
DropRestOfBuffer ==
  /\ Reading /\ reader[sortAt].buf # <<>>
  /\ LET buf == reader[sortAt].buf IN
     \E n \in 0..Len(buf) :
       /\ UpToNewline(buf, n)
       /\ reader' = [reader EXCEPT ![sortAt].buf = <<>>]
       /\ IF n = Len(buf) THEN sb' = sb \o buf /\ UNCHANGED <<sortAt, sorting, sortLines, strheap>>
                          ELSE Deliver(sb \o SubSeq(buf, 1, n), FALSE)
  /\ UNCHANGED <<original, file, sortOut>>

\* ParseLine: up to the first newline of the buffer, or all of it.
ParseLine ==
  /\ Reading /\ reader[sortAt].buf # <<>>
  /\ LET buf == reader[sortAt].buf IN
     \E n \in 0..Len(buf) :
       /\ UpToNewline(buf, n)
       /\ reader' = [reader EXCEPT ![sortAt].buf = SubSeq(buf, n + 2, Len(buf))]
       /\ IF n = Len(buf) THEN sb' = sb \o buf /\ UNCHANGED <<sortAt, sorting, sortLines, strheap>>
                          ELSE Deliver(sb \o SubSeq(buf, 1, n), FALSE)
  /\ UNCHANGED <<original, file, sortOut>>

\* mutant: every file is truncated before the first one is written
TruncateAll == /\ sorting = "truncate"
               /\ file' = [f \in SortFiles |-> <<>>]
               /\ sorting' = "write"
               /\ UNCHANGED <<original, reader, sb, sortAt, sortLines, strheap, sortOut>>

Truncate == /\ sorting = "truncate"
            /\ file' = [file EXCEPT ![sortAt] = <<>>]
            /\ sorting' = "write"
            /\ UNCHANGED <<original, reader, sb, sortAt, sortLines, strheap, sortOut>>

\* Line by line back into the file, then the next file or the merge.
WriteBack ==
  /\ sorting = "write"
  /\ IF sortLines # <<>>
     THEN /\ file' = [file EXCEPT ![sortAt] = @ \o WithNewline(Head(sortLines))]
          /\ sortLines' = Tail(sortLines)
          /\ UNCHANGED <<reader, sortAt, sorting>>
     ELSE /\ reader' = [reader EXCEPT ![sortAt] = NewReader(file[sortAt])]
          /\ sortAt' = IF sortAt < NumFiles THEN sortAt + 1 ELSE 1
          /\ sorting' = IF sortAt < NumFiles THEN "load" ELSE "first"
          /\ UNCHANGED <<file, sortLines>>
  /\ UNCHANGED <<original, sb, strheap, sortOut>>

\* The smallest line goes out, and its reader is asked for the next one.
PopAndWrite ==
  /\ sorting = "pop"
  /\ IF strheap = {}
     THEN sorting' = "done" /\ UNCHANGED <<sortAt, strheap, sortOut>>
     ELSE \E top \in strheap : /\ \A node \in strheap : LessOrEqual(top.str, node.str)
                               /\ strheap' = strheap \ {top}
                               /\ sortOut' = Append(sortOut, top.str)
                               /\ sortAt' = top.ind
                               /\ sorting' = "merge"
  /\ UNCHANGED <<original, file, reader, sb, sortLines>>

\* An error of any file operation ends Sort or Merge.
IOFails == /\ sorting \notin {"done", "failed"}
           /\ sorting' = "failed"
           /\ UNCHANGED <<original, file, reader, sb, sortAt, sortLines, strheap, sortOut>>

SortNext == FillBuffer \/ ParseLine \/ Truncate \/ WriteBack \/ PopAndWrite \/ IOFails

SortSpec == SortInit /\ [][SortNext]_sortVars

---------------------------------------------------------------------------
(* Properties                                                              *)

\* The line stands in the text at p: from p to the next newline or the end.
StandsAt(line, text, p) ==
  /\ p = 1 \/ text[p - 1] = NL
  /\ p + Len(line) <= Len(text) + 1
  /\ \A k \in DOMAIN line : text[p + k - 1] = line[k]
  /\ p + Len(line) <= Len(text) => text[p + Len(line)] = NL
TimesIn(line, text) == Cardinality({p \in DOMAIN text : StandsAt(line, text, p)})
TimesAmong(line, ss) == Cardinality({k \in DOMAIN ss : ss[k] = line})
TimesInAll(line, texts) == SumFunctionOnSet([f \in SortFiles |-> TimesIn(line, texts[f])], SortFiles)

SortableLines == BoundedSeq(Letters, MaxFile)
SameLines(s, t) == \A line \in SortableLines : TimesIn(line, s) = TimesIn(line, t)

\* Sort gives all lines of all files in order, each as often as it stands in
\* them, for every way the lines fall on the buffers (sort.go:52-98, 151-192).
\* A write that fails costs the lines of one file at most: between Truncate and
\* the last Write its lines are in memory only (sort.go:225-237).
SortIsRight ==
  /\ sorting = "done" =>
       /\ Ordered(sortOut)
       /\ \A line \in SortableLines \union Range(sortOut) :
            TimesAmong(line, sortOut) = TimesInAll(line, original)
  /\ \A f \in SortFiles : \/ SameLines(file[f], original[f])
                          \/ f = sortAt /\ sorting \in {"write", "failed"}
=============================================================================
