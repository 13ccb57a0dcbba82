---------------------------- MODULE ToolProofs ----------------------------
(* Proofs about the tools that work alone: the external sort, gitfame, the *)
(* LRU cache and the firewall.                                             *)
EXTENDS ExternalSort, Gitfame, LRU, Firewall, SetLemmas, SequenceTheorems


---------------------------------------------------------------------------
(* externalsort: the inductive invariant.                                  *)

Line == Seq(Letters)
Text == Seq(Letters \union {NL})
HeapNode == [str : Line, ind : SortFiles]
LineReader == [buf : Text, rest : Text]

\* What reader i has still to give.
Unread(i) == reader[i].buf \o reader[i].rest
Pending(i) == (IF i = sortAt THEN sb ELSE << >>) \o Unread(i)

Loading == sorting \in {"load", "truncate", "write"}
Merging == sorting \in {"first", "merge", "pop", "done"}

\* The texts have the same lines.
AlikeIn(s, t) == \A line \in Line : TimesIn(line, s) = TimesIn(line, t)
Below(line, text) == \A p \in DOMAIN text, x \in Line : StandsAt(x, text, p) => LessOrEqual(line, x)
LinesInOrder(text) ==
  \A p, q \in DOMAIN text, x, y \in Line :
    p < q /\ StandsAt(x, text, p) /\ StandsAt(y, text, q) => LessOrEqual(x, y)
EndsWithNewline(text) == text = << >> \/ text[Len(text)] = NL

SortTypes ==
  /\ original \in [SortFiles -> Text] /\ file \in [SortFiles -> Text]
  /\ reader \in [SortFiles -> LineReader]
  /\ sb \in Line /\ sortLines \in Seq(Line) /\ sortOut \in Seq(Line)
  /\ strheap \in SUBSET HeapNode
  /\ sorting \in {"load", "truncate", "write", "first", "merge", "pop", "done", "failed"}
  /\ sortAt \in Nat
  /\ Loading \/ Reading => sortAt \in SortFiles
  /\ ~Reading /\ sorting # "failed" => sb = << >>

\* A file before, while and after it is rewritten.
FileOK(f) ==
  /\ Loading /\ (f > sortAt \/ (f = sortAt /\ sorting # "write")) => file[f] = original[f]
  /\ Merging \/ (Loading /\ f < sortAt) \/ (sorting = "failed" /\ f # sortAt) => AlikeIn(file[f], original[f])
  /\ Loading /\ f > sortAt => Pending(f) = original[f]
  /\ Loading /\ f < sortAt => Pending(f) = file[f] /\ LinesInOrder(file[f])

LoadOK ==
  /\ Loading => strheap = {} /\ sortOut = << >>
  /\ sorting = "load" =>
       \A line \in Line : TimesAmong(line, sortLines) + TimesIn(line, Pending(sortAt))
                            = TimesIn(line, original[sortAt])
  /\ sorting = "truncate" =>
       /\ Ordered(sortLines)
       /\ \A line \in Line : TimesAmong(line, sortLines) = TimesIn(line, original[sortAt])
  /\ sorting = "write" =>
       /\ Ordered(sortLines)
       /\ LinesInOrder(file[sortAt]) /\ EndsWithNewline(file[sortAt])
       /\ \A line \in Line : TimesAmong(line, sortLines) + TimesIn(line, file[sortAt])
                               = TimesIn(line, original[sortAt])
       /\ \A k \in DOMAIN sortLines, p \in DOMAIN file[sortAt], x \in Line :
            StandsAt(x, file[sortAt], p) => LessOrEqual(x, sortLines[k])

\* The reader's next line is still to be asked for.
Asked(f) == (sorting = "first" /\ f >= sortAt) \/ (sorting = "merge" /\ f = sortAt)
InHeap(line, f) == IF [str |-> line, ind |-> f] \in strheap THEN 1 ELSE 0
LeftOf(line) == [f \in SortFiles |-> InHeap(line, f) + TimesIn(line, Pending(f))]
TimesInFiles(line) == [f \in SortFiles |-> TimesIn(line, original[f])]

HeapOK ==
  /\ \A m, n \in strheap : m.ind = n.ind => m = n
  /\ \A n \in strheap : ~Asked(n.ind) /\ Below(n.str, Pending(n.ind))
  /\ \A f \in SortFiles : \/ Asked(f) \/ Pending(f) = << >>
                          \/ \E n \in strheap : n.ind = f
  /\ sorting = "done" => strheap = {}

OutOK ==
  /\ Ordered(sortOut)
  /\ \A k \in DOMAIN sortOut : /\ \A n \in strheap : LessOrEqual(sortOut[k], n.str)
                               /\ \A f \in SortFiles : Below(sortOut[k], Pending(f))
  /\ \A line \in Line : SumFunctionOnSet(TimesInFiles(line), SortFiles)
                          = TimesAmong(line, sortOut) + SumFunctionOnSet(LeftOf(line), SortFiles)

MergeOK == Merging => /\ \A f \in SortFiles : LinesInOrder(Pending(f))
                      /\ HeapOK /\ OutOK

SortInv == SortTypes /\ (\A f \in SortFiles : FileOK(f)) /\ LoadOK /\ MergeOK

---------------------------------------------------------------------------
(* externalsort: lines and texts.                                          *)

\* A line is a text without newlines.
LEMMA LineIsText ==
  ASSUME NEW line \in Line
  PROVE  /\ line \in Text /\ Len(line) \in Nat /\ DOMAIN line = 1..Len(line)
         /\ \A k \in DOMAIN line : line[k] \in Nat /\ line[k] # NL
<1>1. line \in Seq(Letters) /\ Letters \subseteq Letters \union {NL}
  BY DEF Line
<1>2. line \in Text
  BY <1>1, SeqMonotonic DEF Text
<1>3. \A k \in 1..Len(line) : line[k] \in Letters
  BY <1>1, ElementOfSeq
<1> QED
  BY <1>1, <1>2, <1>3, LenProperties, SortAssumption DEF NL

LEMMA TextFacts ==
  ASSUME NEW text \in Text
  PROVE  Len(text) \in Nat /\ DOMAIN text = 1..Len(text)
BY DEF Text

\* The order of lines is transitive.
LEMMA LessOrEqualTransitive ==
  ASSUME NEW r \in Line, NEW s \in Line, NEW t \in Line,
         LessOrEqual(r, s), LessOrEqual(s, t)
  PROVE  LessOrEqual(r, t)
<1>1. CASE r = s \/ s = t
  BY <1>1 DEF LessOrEqual
<1>2. CASE LineLess(r, s) /\ LineLess(s, t)
  <2>1. PICK k \in DOMAIN s : /\ k <= Len(r) + 1
                              /\ \A j \in 1..(k - 1) : r[j] = s[j]
                              /\ k <= Len(r) => r[k] < s[k]
    BY <1>2 DEF LineLess
  <2>2. PICK m \in DOMAIN t : /\ m <= Len(s) + 1
                              /\ \A j \in 1..(m - 1) : s[j] = t[j]
                              /\ m <= Len(s) => s[m] < t[m]
    BY <1>2 DEF LineLess
  <2> DEFINE n == IF k <= m THEN k ELSE m
  <2>3. /\ Len(r) \in Nat /\ DOMAIN r = 1..Len(r) /\ \A j \in DOMAIN r : r[j] \in Nat
        /\ Len(s) \in Nat /\ DOMAIN s = 1..Len(s) /\ \A j \in DOMAIN s : s[j] \in Nat
        /\ Len(t) \in Nat /\ DOMAIN t = 1..Len(t) /\ \A j \in DOMAIN t : t[j] \in Nat
    BY LineIsText
  <2>4. n \in DOMAIN t /\ n <= Len(r) + 1
    BY <2>1, <2>2, <2>3
  <2>5. \A j \in 1..(n - 1) : r[j] = t[j]
    BY <2>1, <2>2, <2>3
  <2>6. ASSUME n <= Len(r) PROVE r[n] < t[n]
    <3>1. CASE k < m
      BY <2>1, <2>2, <2>3, <2>6, <3>1
    <3>2. CASE k = m
      BY <2>1, <2>2, <2>3, <2>6, <3>2
    <3>3. CASE m < k
      BY <2>1, <2>2, <2>3, <2>6, <3>3, SMTT(30)
    <3> QED
      BY <2>1, <2>2, <2>3, <3>1, <3>2, <3>3
  <2> QED
    BY <2>4, <2>5, <2>6 DEF LessOrEqual, LineLess
<1> QED
  BY <1>1, <1>2 DEF LessOrEqual

LEMMA BelowTransitive ==
  ASSUME NEW r \in Line, NEW s \in Line, NEW text, LessOrEqual(r, s), Below(s, text)
  PROVE  Below(r, text)
BY LessOrEqualTransitive DEF Below

\* A text that begins with a line and its newline.
Leads(line, rest, text) ==
  /\ Len(text) = Len(line) + 1 + Len(rest)
  /\ \A k \in DOMAIN line : text[k] = line[k]
  /\ text[Len(line) + 1] = NL
  /\ \A k \in DOMAIN rest : text[Len(line) + 1 + k] = rest[k]

\* In it that line stands first, and then what stands in the rest.
LEMMA StandsAfterLead ==
  ASSUME NEW line \in Line, NEW rest \in Text, NEW text \in Text, Leads(line, rest, text),
         NEW x \in Line
  PROVE  /\ \A p \in 1..(Len(line) + 1) : StandsAt(x, text, p) <=> p = 1 /\ x = line
         /\ \A p \in DOMAIN rest : StandsAt(x, text, p + Len(line) + 1) <=> StandsAt(x, rest, p)
<1> DEFINE n == Len(line) + 1
<1>1. /\ Len(line) \in Nat /\ DOMAIN line = 1..Len(line) /\ \A k \in DOMAIN line : line[k] # NL
      /\ Len(x) \in Nat /\ DOMAIN x = 1..Len(x) /\ \A k \in DOMAIN x : x[k] # NL
      /\ Len(rest) \in Nat /\ DOMAIN rest = 1..Len(rest)
      /\ Len(text) \in Nat /\ DOMAIN text = 1..Len(text)
  BY LineIsText, TextFacts
<1>2. ASSUME NEW p \in 1..n, StandsAt(x, text, p) PROVE p = 1 /\ x = line
  <2>1. p = 1
    <3> SUFFICES ASSUME p # 1 PROVE FALSE
      OBVIOUS
    <3>1. text[p - 1] = NL /\ p - 1 \in DOMAIN line
      BY <1>1, <1>2 DEF StandsAt
    <3> QED
      BY <1>1, <3>1 DEF Leads
  <2>2. Len(x) <= Len(line)
    <3> SUFFICES ASSUME Len(x) > Len(line) PROVE FALSE
      BY <1>1
    <3>1. n \in DOMAIN x
      BY <1>1
    <3>2. text[n] = x[n]
      BY <1>1, <1>2, <2>1, <3>1 DEF StandsAt
    <3> QED
      BY <1>1, <3>1, <3>2 DEF Leads
  <2>3. Len(x) = Len(line)
    <3>0. Len(x) \in Nat /\ Len(line) \in Nat
      BY <1>1
    <3> SUFFICES ASSUME Len(x) < Len(line) PROVE FALSE
      BY <3>0, <2>2
    <3>1. text[1 + Len(x)] = NL
      BY <1>1, <1>2, <2>1 DEF StandsAt, Leads
    <3>2. Len(x) + 1 \in DOMAIN line
      BY <1>1
    <3> QED
      BY <1>1, <3>1, <3>2 DEF Leads
  <2>4. \A k \in 1..Len(line) : x[k] = line[k]
    BY <1>1, <1>2, <2>1, <2>3 DEF StandsAt, Leads
  <2> QED
    BY <2>1, <2>3, <2>4, SeqEqual DEF Line
<1>3. StandsAt(line, text, 1)
  BY <1>1 DEF StandsAt, Leads
<1>4. ASSUME NEW p \in DOMAIN rest
      PROVE  StandsAt(x, text, p + n) <=> StandsAt(x, rest, p)
  <2>1. text[p + n - 1] = NL <=> p = 1 \/ rest[p - 1] = NL
    <3>1. CASE p = 1
      BY <1>1, <3>1 DEF Leads
    <3>2. CASE p # 1
      <4>1. p - 1 \in DOMAIN rest /\ n + (p - 1) = p + n - 1
        BY <1>1, <3>2
      <4>2. text[n + (p - 1)] = rest[p - 1]
        BY <4>1 DEF Leads
      <4> QED
        BY <3>2, <4>1, <4>2
    <3> QED
      BY <3>1, <3>2
  <2>2. p + n # 1
    BY <1>1
  <2>3. p + n + Len(x) <= Len(text) + 1 <=> p + Len(x) <= Len(rest) + 1
    BY <1>1 DEF Leads
  <2>4. ASSUME p + Len(x) <= Len(rest) + 1
        PROVE  \A k \in DOMAIN x : text[p + n + k - 1] = rest[p + k - 1]
    <3> SUFFICES ASSUME NEW k \in DOMAIN x PROVE text[p + n + k - 1] = rest[p + k - 1]
      OBVIOUS
    <3>1. p + k - 1 \in DOMAIN rest /\ n + (p + k - 1) = p + n + k - 1
      <4>1. /\ p \in Nat /\ k \in Nat /\ n \in Nat /\ 1 <= p /\ 1 <= k /\ k <= Len(x)
            /\ Len(x) \in Nat /\ Len(rest) \in Nat /\ DOMAIN rest = 1..Len(rest)
        BY <1>1
      <4>2. p + Len(x) <= Len(rest) + 1
        BY <2>4
      <4> QED
        BY <4>1, <4>2
    <3>2. text[n + (p + k - 1)] = rest[p + k - 1]
      BY <3>1 DEF Leads
    <3> QED
      BY <3>1, <3>2
  <2>5. ASSUME p + Len(x) <= Len(rest)
        PROVE  text[p + n + Len(x)] = rest[p + Len(x)]
    <3>1. p + Len(x) \in DOMAIN rest /\ n + (p + Len(x)) = p + n + Len(x)
      BY <1>1, <2>5
    <3>2. text[n + (p + Len(x))] = rest[p + Len(x)]
      BY <3>1 DEF Leads
    <3> QED
      BY <3>1, <3>2
  <2>6. p + n + Len(x) <= Len(text) <=> p + Len(x) <= Len(rest)
    BY <1>1 DEF Leads
  <2>7. n \in Nat /\ p \in Nat /\ Len(x) \in Nat /\ Len(text) \in Nat /\ Len(rest) \in Nat
    BY <1>1
  <2> HIDE DEF n
  <2> DEFINE q == p + n
  <2>8. /\ q \in Nat /\ q # 1
        /\ text[q - 1] = NL <=> p = 1 \/ rest[p - 1] = NL
        /\ q + Len(x) <= Len(text) + 1 <=> p + Len(x) <= Len(rest) + 1
        /\ q + Len(x) <= Len(text) <=> p + Len(x) <= Len(rest)
        /\ p + Len(x) <= Len(rest) + 1 => \A k \in DOMAIN x : text[q + k - 1] = rest[p + k - 1]
        /\ p + Len(x) <= Len(rest) => text[q + Len(x)] = rest[p + Len(x)]
    <3>1. q \in Nat /\ q # 1
      BY <2>2, <2>7
    <3>2. text[q - 1] = NL <=> p = 1 \/ rest[p - 1] = NL
      BY <2>1, <2>7
    <3>3. q + Len(x) <= Len(text) + 1 <=> p + Len(x) <= Len(rest) + 1
      BY <2>3
    <3>4. q + Len(x) <= Len(text) <=> p + Len(x) <= Len(rest)
      BY <2>6
    <3>5. p + Len(x) <= Len(rest) + 1 => \A k \in DOMAIN x : text[q + k - 1] = rest[p + k - 1]
      BY <2>4, <2>7
    <3>6. p + Len(x) <= Len(rest) => text[q + Len(x)] = rest[p + Len(x)]
      BY <2>5
    <3> QED
      BY <3>1, <3>2, <3>3, <3>4, <3>5, <3>6
  <2> HIDE DEF q
  <2>9. StandsAt(x, text, q) <=> StandsAt(x, rest, p)
    BY <2>8 DEF StandsAt
  <2> QED
    BY <2>9 DEF q
<1>5. \A p \in DOMAIN rest : p + Len(line) + 1 = p + n
  BY <1>1
<1> HIDE DEF n
<1>6. Len(line) + 1 = n
  BY DEF n
<1> QED
  BY <1>2, <1>3, <1>4, <1>5, <1>6

\* A text that is another one and a line behind it.
Follows(text, line, new) ==
  /\ Len(new) = Len(text) + Len(line) + 1
  /\ \A k \in DOMAIN text : new[k] = text[k]
  /\ \A k \in DOMAIN line : new[Len(text) + k] = line[k]
  /\ new[Len(text) + Len(line) + 1] = NL

\* No line reaches beyond a newline at the end.
LEMMA StandsBeforeNewline ==
  ASSUME NEW text \in Text, EndsWithNewline(text), NEW x \in Line, NEW p \in DOMAIN text,
         \A k \in DOMAIN x : p + k <= Len(text) + 1 => text[p + k - 1] = x[k]
  PROVE  p + Len(x) <= Len(text)
<1>1. /\ Len(x) \in Nat /\ DOMAIN x = 1..Len(x) /\ \A k \in DOMAIN x : x[k] # NL
      /\ Len(text) \in Nat /\ p \in 1..Len(text)
  BY LineIsText, TextFacts
<1>2. text[Len(text)] = NL
  <2>1. text # << >>
    BY <1>1
  <2> QED
    BY <2>1 DEF EndsWithNewline
<1> SUFFICES ASSUME p + Len(x) > Len(text) PROVE FALSE
  BY <1>1
<1> DEFINE k == Len(text) - p + 1
<1>3. k \in DOMAIN x /\ p + k <= Len(text) + 1 /\ p + k - 1 = Len(text)
  BY <1>1
<1>4. text[p + k - 1] = x[k]
  BY <1>3
<1> QED
  BY <1>1, <1>2, <1>3, <1>4

\* What stands in the text stands there still, and the new line stands last.
LEMMA StandsBeforeLast ==
  ASSUME NEW text \in Text, EndsWithNewline(text), NEW line \in Line, NEW new \in Text,
         Follows(text, line, new), NEW x \in Line
  PROVE  /\ \A p \in DOMAIN text : StandsAt(x, new, p) <=> StandsAt(x, text, p)
         /\ \A p \in (Len(text) + 1)..Len(new) :
              StandsAt(x, new, p) <=> p = Len(text) + 1 /\ x = line
<1>1. /\ Len(line) \in Nat /\ DOMAIN line = 1..Len(line) /\ \A k \in DOMAIN line : line[k] # NL
      /\ Len(x) \in Nat /\ DOMAIN x = 1..Len(x) /\ \A k \in DOMAIN x : x[k] # NL
      /\ Len(text) \in Nat /\ DOMAIN text = 1..Len(text)
      /\ Len(new) \in Nat /\ DOMAIN new = 1..Len(new)
  BY LineIsText, TextFacts
<1>2. ASSUME NEW p \in DOMAIN text, StandsAt(x, new, p) PROVE StandsAt(x, text, p)
  <2>1. \A k \in DOMAIN x : p + k <= Len(text) + 1 => text[p + k - 1] = x[k]
    <3> SUFFICES ASSUME NEW k \in DOMAIN x, p + k <= Len(text) + 1
                 PROVE  text[p + k - 1] = x[k]
      OBVIOUS
    <3>1. p + k - 1 \in DOMAIN text
      BY <1>1
    <3> QED
      BY <1>2, <3>1 DEF StandsAt, Follows
  <2>2. p + Len(x) <= Len(text)
    BY <2>1, StandsBeforeNewline
  <2>3. \A k \in DOMAIN x : text[p + k - 1] = x[k]
    BY <1>1, <2>1, <2>2
  <2>4. text[p + Len(x)] = NL
    <3>1. p + Len(x) \in DOMAIN text /\ p + Len(x) <= Len(new)
      BY <1>1, <2>2 DEF Follows
    <3> QED
      BY <1>2, <3>1 DEF StandsAt, Follows
  <2>5. p = 1 \/ text[p - 1] = NL
    <3>1. p # 1 => p - 1 \in DOMAIN text
      BY <1>1
    <3> QED
      BY <1>2, <3>1 DEF StandsAt, Follows
  <2> QED
    BY <1>1, <2>2, <2>3, <2>4, <2>5 DEF StandsAt
<1>3. ASSUME NEW p \in DOMAIN text, StandsAt(x, text, p) PROVE StandsAt(x, new, p)
  <2>1. p + Len(x) <= Len(text)
    BY <1>3, StandsBeforeNewline DEF StandsAt
  <2>2. \A k \in DOMAIN x : new[p + k - 1] = x[k]
    <3> SUFFICES ASSUME NEW k \in DOMAIN x PROVE new[p + k - 1] = x[k]
      OBVIOUS
    <3>1. p + k - 1 \in DOMAIN text
      BY <1>1, <2>1
    <3> QED
      BY <1>3, <3>1 DEF StandsAt, Follows
  <2>3. new[p + Len(x)] = NL
    <3>1. p + Len(x) \in DOMAIN text
      BY <1>1, <2>1
    <3> QED
      BY <1>3, <2>1, <3>1 DEF StandsAt, Follows
  <2>4. p = 1 \/ new[p - 1] = NL
    <3>1. p # 1 => p - 1 \in DOMAIN text
      BY <1>1
    <3> QED
      BY <1>3, <3>1 DEF StandsAt, Follows
  <2>5. p + Len(x) <= Len(new) + 1
    BY <1>1, <2>1 DEF Follows
  <2> QED
    BY <2>2, <2>3, <2>4, <2>5 DEF StandsAt
<1> DEFINE n == Len(text)
<1>4. ASSUME NEW p \in (n + 1)..Len(new), StandsAt(x, new, p) PROVE p = n + 1 /\ x = line
  <2>1. p = n + 1
    <3> SUFFICES ASSUME p # n + 1 PROVE FALSE
      OBVIOUS
    <3>1. p - 1 - n \in DOMAIN line /\ p - 1 = n + (p - 1 - n) /\ p # 1
      BY <1>1 DEF Follows
    <3>2. new[p - 1] = line[p - 1 - n]
      BY <3>1 DEF Follows
    <3> QED
      BY <1>1, <1>4, <3>1, <3>2 DEF StandsAt
  <2>2. \A k \in DOMAIN x : new[n + k] = x[k]
    <3> SUFFICES ASSUME NEW k \in DOMAIN x PROVE new[n + k] = x[k]
      OBVIOUS
    <3>1. p + k - 1 = n + k
      BY <1>1, <2>1
    <3> QED
      BY <1>4, <3>1 DEF StandsAt
  <2>3. Len(x) <= Len(line)
    <3>0. Len(x) \in Nat /\ Len(line) \in Nat
      BY <1>1
    <3> SUFFICES ASSUME Len(x) > Len(line) PROVE FALSE
      BY <3>0
    <3>1. Len(line) + 1 \in DOMAIN x /\ n + (Len(line) + 1) = Len(text) + Len(line) + 1
      BY <1>1
    <3>2. new[Len(text) + Len(line) + 1] = x[Len(line) + 1]
      BY <2>2, <3>1
    <3> QED
      BY <1>1, <3>1, <3>2 DEF Follows
  <2>4. Len(x) = Len(line)
    <3>0. Len(x) \in Nat /\ Len(line) \in Nat /\ n \in Nat
      BY <1>1
    <3> SUFFICES ASSUME Len(x) < Len(line) PROVE FALSE
      BY <3>0, <2>3
    <3>1. p + Len(x) <= Len(new)
      BY <3>0, <2>1 DEF Follows
    <3>2. new[p + Len(x)] = NL
      BY <1>4, <3>1 DEF StandsAt
    <3>3. Len(x) + 1 \in DOMAIN line /\ p + Len(x) = n + (Len(x) + 1)
      BY <1>1, <2>1
    <3>4. new[p + Len(x)] = line[Len(x) + 1]
      BY <3>3 DEF Follows
    <3> QED
      BY <1>1, <3>2, <3>3, <3>4
  <2>5. \A k \in 1..Len(line) : x[k] = line[k]
    BY <1>1, <2>2, <2>4 DEF Follows
  <2> QED
    BY <2>1, <2>4, <2>5, SeqEqual DEF Line
<1>5. StandsAt(line, new, n + 1)
  <2>1. n + 1 = 1 \/ new[(n + 1) - 1] = NL
    <3>1. n # 0 => text # << >> /\ (n + 1) - 1 = Len(text) /\ Len(text) \in DOMAIN text
      BY <1>1
    <3>2. n # 0 => new[(n + 1) - 1] = NL
      BY <3>1 DEF Follows, EndsWithNewline
    <3> QED
      BY <1>1, <3>2
  <2>2. (n + 1) + Len(line) = Len(text) + Len(line) + 1 /\ (n + 1) + Len(line) <= Len(new) + 1
    BY <1>1 DEF Follows
  <2>3. \A k \in DOMAIN line : n + 1 + k - 1 = n + k
    BY <1>1
  <2>4. \A k \in DOMAIN line : new[n + 1 + k - 1] = line[k]
    BY <2>3 DEF Follows
  <2>5. new[(n + 1) + Len(line)] = NL
    BY <2>2 DEF Follows
  <2> QED
    BY <2>1, <2>2, <2>4, <2>5 DEF StandsAt
<1> QED
  BY <1>2, <1>3, <1>4, <1>5

\* A line that ends the text without a newline stands there alone.
LEMMA StandsAlone ==
  ASSUME NEW line \in Line, NEW x \in Line, NEW p \in DOMAIN line
  PROVE  StandsAt(x, line, p) <=> p = 1 /\ x = line
<1>1. /\ Len(line) \in Nat /\ DOMAIN line = 1..Len(line) /\ \A k \in DOMAIN line : line[k] # NL
      /\ Len(x) \in Nat /\ DOMAIN x = 1..Len(x) /\ \A k \in DOMAIN x : x[k] # NL
  BY LineIsText
<1>2. ASSUME StandsAt(x, line, p) PROVE p = 1 /\ x = line
  <2>1. p = 1
    BY <1>1, <1>2 DEF StandsAt
  <2>2. Len(x) = Len(line)
    <3>0. Len(x) \in Nat /\ Len(line) \in Nat
      BY <1>1
    <3>1. Len(x) <= Len(line)
      BY <3>0, <1>2, <2>1 DEF StandsAt
    <3> SUFFICES ASSUME Len(x) < Len(line) PROVE FALSE
      BY <3>0, <3>1
    <3>2. 1 + Len(x) \in DOMAIN line
      BY <1>1
    <3>3. line[1 + Len(x)] = NL
      BY <3>0, <1>2, <2>1 DEF StandsAt
    <3> QED
      BY <1>1, <3>2, <3>3
  <2>3. \A k \in 1..Len(line) : x[k] = line[k]
    BY <1>1, <1>2, <2>1, <2>2 DEF StandsAt
  <2> QED
    BY <2>1, <2>2, <2>3, SeqEqual DEF Line
<1>3. ASSUME p = 1 PROVE StandsAt(line, line, p)
  BY <1>1, <1>3 DEF StandsAt
<1> QED
  BY <1>2, <1>3

---------------------------------------------------------------------------
(* externalsort: how often a line stands in a text.                        *)

\* As many positions as there are of them some places further on.
LEMMA ShiftedSet ==
  ASSUME NEW S, IsFiniteSet(S), S \subseteq Int, NEW n \in Int
  PROVE  /\ IsFiniteSet({p + n : p \in S})
         /\ Cardinality({p + n : p \in S}) = Cardinality(S)
<1> DEFINE T == {p + n : p \in S}
           shift == [p \in S |-> p + n]
<1>1. shift \in Bijection(S, T)
  <2>1. shift \in [S -> T] /\ \A t \in T : \E p \in S : shift[p] = t
    OBVIOUS
  <2>2. \A p, q \in S : shift[p] = shift[q] => p = q
    OBVIOUS
  <2> QED
    BY <2>1, <2>2 DEF Bijection, Injection, Surjection, IsInjective
<1>2. ExistsBijection(S, T)
  BY <1>1 DEF ExistsBijection
<1> QED
  BY <1>2, FS_Bijection, FS_SameCardinalityBij

Once(b) == IF b THEN 1 ELSE 0

LEMMA StandsFinite ==
  ASSUME NEW text \in Text, NEW x
  PROVE  /\ IsFiniteSet({p \in DOMAIN text : StandsAt(x, text, p)})
         /\ TimesIn(x, text) \in Nat
<1>1. IsFiniteSet(DOMAIN text)
  BY TextFacts, FS_Interval
<1>2. IsFiniteSet({p \in DOMAIN text : StandsAt(x, text, p)})
  BY <1>1, FS_Subset
<1> QED
  BY <1>2, FS_CardinalityType DEF TimesIn

\* The set with or without one more.
LEMMA OneMoreOrNot ==
  ASSUME NEW S, IsFiniteSet(S), NEW a, a \notin S, NEW b \in BOOLEAN
  PROVE  Cardinality(S \union {z \in {a} : b}) = Once(b) + Cardinality(S)
<1>0. Cardinality(S) \in Nat
  BY FS_CardinalityType
<1>1. CASE b
  <2>1. S \union {z \in {a} : b} = S \union {a}
    BY <1>1
  <2> QED
    BY <1>0, <1>1, <2>1, FS_AddElement DEF Once
<1>2. CASE ~b
  <2>1. S \union {z \in {a} : b} = S
    BY <1>2
  <2> QED
    BY <1>0, <1>2, <2>1 DEF Once
<1> QED
  BY <1>1, <1>2

LEMMA TimesInLead ==
  ASSUME NEW line \in Line, NEW rest \in Text, NEW text \in Text, Leads(line, rest, text),
         NEW x \in Line
  PROVE  TimesIn(x, text) = Once(x = line) + TimesIn(x, rest)
<1> DEFINE n == Len(line) + 1
           S == {p \in DOMAIN rest : StandsAt(x, rest, p)}
           T == {p + n : p \in S}
           U == {p \in DOMAIN text : StandsAt(x, text, p)}
<1>1. /\ Len(line) \in Nat /\ Len(rest) \in Nat /\ DOMAIN rest = 1..Len(rest)
      /\ Len(text) = n + Len(rest) /\ DOMAIN text = 1..Len(text)
  BY LineIsText, TextFacts DEF Leads
<1>2. /\ \A p \in 1..n : StandsAt(x, text, p) <=> p = 1 /\ x = line
      /\ \A p \in DOMAIN rest : StandsAt(x, text, p + n) <=> StandsAt(x, rest, p)
  <2>1. \A p \in DOMAIN rest : p + Len(line) + 1 = p + n
    BY <1>1
  <2> QED
    BY <2>1, StandsAfterLead
<1>3. S \subseteq Int /\ n \in Nat /\ n >= 1
  BY <1>1
<1> HIDE DEF n
<1>4. U = T \union {z \in {1} : x = line}
  <2>1. ASSUME NEW p \in U PROVE p \in T \union {z \in {1} : x = line}
    <3>1. CASE p \in 1..n
      BY <1>2, <2>1, <3>1
    <3>2. CASE p \notin 1..n
      <4>1. p - n \in DOMAIN rest /\ p = (p - n) + n
        BY <1>1, <1>3, <2>1, <3>2
      <4>2. StandsAt(x, rest, p - n)
        BY <1>2, <2>1, <4>1
      <4> QED
        BY <4>1, <4>2
    <3> QED
      BY <3>1, <3>2
  <2>2. ASSUME NEW p \in S PROVE p + n \in U
    <3>1. p + n \in DOMAIN text
      BY <1>1, <1>3
    <3> QED
      BY <1>2, <3>1
  <2>3. x = line => 1 \in U
    BY <1>1, <1>2, <1>3
  <2> QED
    BY <2>1, <2>2, <2>3
<1>5. 1 \notin T
  BY <1>1, <1>3
<1>6. IsFiniteSet(S)
  BY StandsFinite
<1>7. IsFiniteSet(T) /\ Cardinality(T) = Cardinality(S)
  BY <1>3, <1>6, ShiftedSet
<1>8. Cardinality(U) = Once(x = line) + Cardinality(T)
  <2>1. (x = line) \in BOOLEAN
    OBVIOUS
  <2>2. Cardinality(T \union {z \in {1} : x = line}) = Once(x = line) + Cardinality(T)
    BY <1>5, <1>7, <2>1, OneMoreOrNot, Zenon
  <2> QED
    BY <1>4, <2>2
<1> QED
  BY <1>7, <1>8 DEF TimesIn

LEMMA TimesInFollows ==
  ASSUME NEW text \in Text, EndsWithNewline(text), NEW line \in Line, NEW new \in Text,
         Follows(text, line, new), NEW x \in Line
  PROVE  TimesIn(x, new) = Once(x = line) + TimesIn(x, text)
<1> DEFINE n == Len(text) + 1
           S == {p \in DOMAIN text : StandsAt(x, text, p)}
           U == {p \in DOMAIN new : StandsAt(x, new, p)}
<1>1. /\ Len(line) \in Nat /\ Len(text) \in Nat /\ DOMAIN text = 1..Len(text)
      /\ Len(new) = Len(text) + Len(line) + 1 /\ DOMAIN new = 1..Len(new)
  BY LineIsText, TextFacts DEF Follows
<1>2. /\ \A p \in DOMAIN text : StandsAt(x, new, p) <=> StandsAt(x, text, p)
      /\ \A p \in n..Len(new) : StandsAt(x, new, p) <=> p = n /\ x = line
  BY StandsBeforeLast
<1>3. /\ n \in Nat /\ n \in n..Len(new) /\ n \in DOMAIN new /\ n \notin DOMAIN text
      /\ \A p \in DOMAIN new : p \in DOMAIN text \/ p \in n..Len(new)
      /\ DOMAIN text \subseteq DOMAIN new
  BY <1>1
<1> HIDE DEF n
<1>4. U = S \union {z \in {n} : x = line}
  BY <1>2, <1>3
<1>5. IsFiniteSet(S) /\ n \notin S
  BY <1>3, StandsFinite
<1>6. (x = line) \in BOOLEAN
  OBVIOUS
<1>7. Cardinality(S \union {z \in {n} : x = line}) = Once(x = line) + Cardinality(S)
  BY <1>5, <1>6, OneMoreOrNot, Zenon
<1> QED
  BY <1>4, <1>7 DEF TimesIn

LEMMA TimesInLast ==
  ASSUME NEW line \in Line, NEW x \in Line
  PROVE  TimesIn(x, line) = Once(x = line /\ line # << >>)
<1> DEFINE U == {p \in DOMAIN line : StandsAt(x, line, p)}
<1>1. Len(line) \in Nat /\ DOMAIN line = 1..Len(line) /\ (line # << >> <=> 1 \in DOMAIN line)
  BY LineIsText, EmptySeq DEF Line
<1>2. U = {} \union {z \in {1} : x = line /\ line # << >>}
  BY <1>1, StandsAlone
<1>3. IsFiniteSet({}) /\ Cardinality({}) = 0
  BY FS_EmptySet
<1>4. Cardinality(U) = Once(x = line /\ line # << >>) + 0
  <2>1. (x = line /\ line # << >>) \in BOOLEAN /\ 1 \notin {}
    OBVIOUS
  <2>2. Cardinality({} \union {z \in {1} : x = line /\ line # << >>}) = Once(x = line /\ line # << >>) + Cardinality({})
    BY <1>3, <2>1, OneMoreOrNot, Zenon
  <2> QED
    BY <1>2, <1>3, <2>2
<1> QED
  BY <1>4 DEF TimesIn, Once

\* The first line of a text is taken: what is left of counts and of order.
Takes(text, line, rest) ==
  /\ \A x \in Line : TimesIn(x, text) = Once(x = line) + TimesIn(x, rest)
  /\ LinesInOrder(text) => LinesInOrder(rest) /\ Below(line, rest)
  /\ \A x \in Line : Below(x, text) => LessOrEqual(x, line) /\ Below(x, rest)

LEMMA TakesLead ==
  ASSUME NEW line \in Line, NEW rest \in Text, NEW text \in Text, Leads(line, rest, text)
  PROVE  Takes(text, line, rest)
<1> DEFINE n == Len(line) + 1
<1>1. /\ Len(line) \in Nat /\ Len(rest) \in Nat /\ DOMAIN rest = 1..Len(rest)
      /\ Len(text) = n + Len(rest) /\ DOMAIN text = 1..Len(text)
  BY LineIsText, TextFacts DEF Leads
<1>2. \A x \in Line, p \in DOMAIN rest :
        p + n \in DOMAIN text /\ (StandsAt(x, text, p + n) <=> StandsAt(x, rest, p))
  <2>1. \A p \in DOMAIN rest : p + Len(line) + 1 = p + n /\ p + n \in DOMAIN text
    BY <1>1
  <2> QED
    BY <2>1, StandsAfterLead
<1>3. StandsAt(line, text, 1)
  <2>1. 1 \in 1..(Len(line) + 1)
    BY <1>1
  <2> QED
    BY <2>1, StandsAfterLead
<1>4. /\ 1 \in DOMAIN text /\ n \in Nat
      /\ \A p, q \in DOMAIN rest : p < q => p + n < q + n
      /\ \A p \in DOMAIN rest : 1 < p + n
  BY <1>1
<1> HIDE DEF n
<1>5. \A x \in Line : TimesIn(x, text) = Once(x = line) + TimesIn(x, rest)
  BY TimesInLead
<1>6. ASSUME LinesInOrder(text) PROVE LinesInOrder(rest) /\ Below(line, rest)
  <2>1. LinesInOrder(rest)
    BY <1>2, <1>4, <1>6 DEF LinesInOrder
  <2>2. Below(line, rest)
    BY <1>2, <1>3, <1>4, <1>6 DEF LinesInOrder, Below
  <2> QED
    BY <2>1, <2>2
<1>7. ASSUME NEW x \in Line, Below(x, text) PROVE LessOrEqual(x, line) /\ Below(x, rest)
  BY <1>2, <1>3, <1>4, <1>7 DEF Below
<1> QED
  BY <1>5, <1>6, <1>7 DEF Takes

LEMMA EmptyText ==
  /\ << >> \in Text /\ << >> \in Line /\ DOMAIN << >> = {}
  /\ LinesInOrder(<< >>) /\ EndsWithNewline(<< >>)
  /\ \A x : Below(x, << >>) /\ TimesIn(x, << >>) = 0 /\ TimesAmong(x, << >>) = 0
<1>1. << >> \in Text /\ << >> \in Line /\ DOMAIN << >> = {}
  BY EmptySeq DEF Text, Line
<1>2. \A x : /\ {p \in DOMAIN << >> : StandsAt(x, << >>, p)} = {}
             /\ {p \in DOMAIN << >> : << >>[p] = x} = {}
  BY <1>1
<1>3. Cardinality({}) = 0
  BY FS_EmptySet
<1>4. \A x : TimesIn(x, << >>) = 0 /\ TimesAmong(x, << >>) = 0
  BY <1>2, <1>3 DEF TimesIn, TimesAmong
<1>5. LinesInOrder(<< >>) /\ EndsWithNewline(<< >>) /\ \A x : Below(x, << >>)
  BY <1>1 DEF LinesInOrder, EndsWithNewline, Below
<1> QED
  BY <1>1, <1>4, <1>5

LEMMA TakesLast ==
  ASSUME NEW line \in Line, line # << >>
  PROVE  Takes(line, line, << >>)
<1>1. 1 \in DOMAIN line
  BY LineIsText, EmptySeq DEF Line
<1>2. StandsAt(line, line, 1)
  BY <1>1, StandsAlone
<1>3. \A x \in Line : TimesIn(x, line) = Once(x = line) + TimesIn(x, << >>)
  <2> SUFFICES ASSUME NEW x \in Line PROVE TimesIn(x, line) = Once(x = line) + 0
    BY EmptyText
  <2>1. TimesIn(x, line) = Once(x = line /\ line # << >>)
    BY TimesInLast
  <2> QED
    BY <2>1 DEF Once
<1>4. \A x \in Line : Below(x, line) => LessOrEqual(x, line)
  BY <1>1, <1>2 DEF Below
<1> QED
  BY <1>3, <1>4, EmptyText DEF Takes

\* A line that follows the others, and is not below them, keeps the order.
LEMMA OrderFollows ==
  ASSUME NEW text \in Text, EndsWithNewline(text), NEW line \in Line, NEW new \in Text,
         Follows(text, line, new), LinesInOrder(text),
         \A p \in DOMAIN text, x \in Line : StandsAt(x, text, p) => LessOrEqual(x, line)
  PROVE  /\ LinesInOrder(new)
         /\ \A p \in DOMAIN new, x \in Line : StandsAt(x, new, p) =>
              x = line \/ \E q \in DOMAIN text : StandsAt(x, text, q)
<1> DEFINE n == Len(text) + 1
<1>1. /\ Len(line) \in Nat /\ Len(text) \in Nat /\ DOMAIN text = 1..Len(text)
      /\ Len(new) = Len(text) + Len(line) + 1 /\ DOMAIN new = 1..Len(new)
  BY LineIsText, TextFacts DEF Follows
<1>2. \A x \in Line :
        /\ \A p \in DOMAIN text : StandsAt(x, new, p) <=> StandsAt(x, text, p)
        /\ \A p \in n..Len(new) : StandsAt(x, new, p) <=> p = n /\ x = line
  BY StandsBeforeLast
<1>3. /\ \A p \in DOMAIN new : p \in DOMAIN text \/ p \in n..Len(new)
      /\ \A p \in DOMAIN text, q \in n..Len(new) : ~(q < p)
      /\ ~(n < n)
  BY <1>1
<1> HIDE DEF n
<1>4. LinesInOrder(new)
  <2> SUFFICES ASSUME NEW p \in DOMAIN new, NEW q \in DOMAIN new, NEW x \in Line, NEW y \in Line,
                      p < q, StandsAt(x, new, p), StandsAt(y, new, q)
               PROVE  LessOrEqual(x, y)
    BY DEF LinesInOrder
  <2>1. CASE p \in DOMAIN text /\ q \in DOMAIN text
    BY <1>2, <2>1 DEF LinesInOrder
  <2>2. CASE p \in DOMAIN text /\ q \in n..Len(new)
    BY <1>2, <2>2
  <2>3. CASE p \in n..Len(new)
    BY <1>2, <1>3, <2>3
  <2> QED
    BY <1>3, <2>1, <2>2, <2>3
<1>5. \A p \in DOMAIN new, x \in Line : StandsAt(x, new, p) =>
        x = line \/ \E q \in DOMAIN text : StandsAt(x, text, q)
  BY <1>2, <1>3
<1> QED
  BY <1>4, <1>5

---------------------------------------------------------------------------
(* externalsort: how often a line is among others.                         *)

LEMMA AmongFinite ==
  ASSUME NEW ss \in Seq(Line), NEW x
  PROVE  IsFiniteSet({k \in DOMAIN ss : ss[k] = x}) /\ TimesAmong(x, ss) \in Nat
<1>1. IsFiniteSet(DOMAIN ss)
  BY LenProperties, FS_Interval
<1>2. IsFiniteSet({k \in DOMAIN ss : ss[k] = x})
  BY <1>1, FS_Subset
<1> QED
  BY <1>2, FS_CardinalityType DEF TimesAmong

LEMMA AmongAppended ==
  ASSUME NEW ss \in Seq(Line), NEW line \in Line, NEW x
  PROVE  TimesAmong(x, Append(ss, line)) = Once(x = line) + TimesAmong(x, ss)
<1> DEFINE new == Append(ss, line)
           n == Len(ss) + 1
           S == {k \in DOMAIN ss : ss[k] = x}
           U == {k \in DOMAIN new : new[k] = x}
<1>1. /\ Len(ss) \in Nat /\ DOMAIN ss = 1..Len(ss) /\ DOMAIN new = 1..n
      /\ \A k \in 1..Len(ss) : new[k] = ss[k]
      /\ new[n] = line
  BY AppendProperties, LenProperties
<1>2. U = S \union {z \in {n} : x = line}
  BY <1>1
<1>3. IsFiniteSet(S) /\ n \notin S
  <2>1. IsFiniteSet(S)
    BY AmongFinite
  <2>2. n \notin S
    BY <1>1
  <2> QED
    BY <2>1, <2>2
<1>4. (x = line) \in BOOLEAN
  OBVIOUS
<1> HIDE DEF n, new
<1>5. Cardinality(S \union {z \in {n} : x = line}) = Once(x = line) + Cardinality(S)
  BY <1>3, <1>4, OneMoreOrNot, Zenon
<1> QED
  BY <1>2, <1>5 DEF TimesAmong, new

LEMMA AmongTail ==
  ASSUME NEW ss \in Seq(Line), ss # << >>, NEW x
  PROVE  TimesAmong(x, ss) = Once(x = Head(ss)) + TimesAmong(x, Tail(ss))
<1> DEFINE rest == Tail(ss)
           S == {k \in DOMAIN rest : rest[k] = x}
           T == {k + 1 : k \in S}
           U == {k \in DOMAIN ss : ss[k] = x}
<1>1. /\ Len(ss) \in Nat /\ Len(ss) # 0 /\ DOMAIN ss = 1..Len(ss)
      /\ rest \in Seq(Line) /\ DOMAIN rest = 1..(Len(ss) - 1)
      /\ \A k \in 1..(Len(ss) - 1) : rest[k] = ss[k + 1]
      /\ Head(ss) = ss[1]
  BY HeadTailProperties, LenProperties, EmptySeq
<1> HIDE DEF rest
<1>2. U = T \union {z \in {1} : x = Head(ss)}
  <2>1. ASSUME NEW k \in U PROVE k \in T \union {z \in {1} : x = Head(ss)}
    <3>1. CASE k = 1
      BY <1>1, <2>1, <3>1
    <3>2. CASE k # 1
      <4>1. k - 1 \in S /\ k = (k - 1) + 1
        BY <1>1, <2>1, <3>2
      <4> QED
        BY <4>1
    <3> QED
      BY <3>1, <3>2
  <2>2. ASSUME NEW k \in S PROVE k + 1 \in U
    BY <1>1
  <2>3. x = Head(ss) => 1 \in U
    BY <1>1
  <2> QED
    BY <2>1, <2>2, <2>3
<1>3. IsFiniteSet(S) /\ S \subseteq Int /\ 1 \notin T
  <2>1. IsFiniteSet(S)
    BY <1>1, AmongFinite
  <2>2. S \subseteq Int /\ 1 \notin T
    BY <1>1
  <2> QED
    BY <2>1, <2>2
<1>4. IsFiniteSet(T) /\ Cardinality(T) = Cardinality(S)
  <2>1. 1 \in Int
    OBVIOUS
  <2> HIDE DEF S
  <2> QED
    BY <1>3, <2>1, ShiftedSet, Zenon
<1>5. (x = Head(ss)) \in BOOLEAN
  OBVIOUS
<1>6. Cardinality(T \union {z \in {1} : x = Head(ss)}) = Once(x = Head(ss)) + Cardinality(T)
  BY <1>3, <1>4, <1>5, OneMoreOrNot, Zenon
<1> QED
  BY <1>2, <1>4, <1>6 DEF TimesAmong, rest

\* Sorting keeps each line as often as it was there.
LEMMA AmongArranged ==
  ASSUME NEW ss \in Seq(Line), NEW t \in Arrangements(ss)
  PROVE  /\ t \in Seq(Line)
         /\ \A x : TimesAmong(x, t) = TimesAmong(x, ss)
<1>1. PICK p \in Bijection(DOMAIN ss, DOMAIN ss) : t = [k \in DOMAIN ss |-> ss[p[k]]]
  BY DEF Arrangements
<1>2. /\ p \in [DOMAIN ss -> DOMAIN ss]
      /\ \A j, k \in DOMAIN ss : p[j] = p[k] => j = k
      /\ \A k \in DOMAIN ss : \E j \in DOMAIN ss : p[j] = k
  BY DEF Bijection, Injection, Surjection, IsInjective
<1>3. Len(ss) \in Nat /\ DOMAIN ss = 1..Len(ss) /\ \A k \in DOMAIN ss : ss[k] \in Line
  BY LenProperties, ElementOfSeq
<1>4. t \in [1..Len(ss) -> Line]
  BY <1>1, <1>2, <1>3
<1>5. t \in Seq(Line)
  BY <1>3, <1>4, SeqDef
<1>6. ASSUME NEW x PROVE TimesAmong(x, t) = TimesAmong(x, ss)
  <2> DEFINE S == {k \in DOMAIN t : t[k] = x}
             T == {k \in DOMAIN ss : ss[k] = x}
             move == [k \in S |-> p[k]]
  <2>1. move \in Bijection(S, T)
    <3>1. move \in [S -> T] /\ (\A k \in T : \E j \in S : move[j] = k)
      BY <1>1, <1>2, <1>3
    <3>2. \A j, k \in S : move[j] = move[k] => j = k
      BY <1>1, <1>2
    <3> QED
      BY <3>1, <3>2 DEF Bijection, Injection, Surjection, IsInjective
  <2>2. ExistsBijection(S, T)
    BY <2>1 DEF ExistsBijection
  <2>3. IsFiniteSet(S)
    BY <1>5, AmongFinite
  <2> QED
    BY <2>2, <2>3, FS_SameCardinalityBij, FS_Bijection DEF TimesAmong
<1> QED
  BY <1>5, <1>6

---------------------------------------------------------------------------
(* externalsort: the steps.                                                *)

LEMMA PendingText ==
  ASSUME SortTypes, NEW f \in SortFiles
  PROVE  /\ reader[f].buf \in Text /\ reader[f].rest \in Text
         /\ Unread(f) \in Text /\ Pending(f) \in Text
         /\ (f # sortAt \/ sb = << >> => Pending(f) = Unread(f))
<1>1. reader[f].buf \in Text /\ reader[f].rest \in Text /\ sb \in Text
  BY LineIsText DEF SortTypes, LineReader
<1>2. Unread(f) \in Text
  BY <1>1, ConcatProperties DEF Unread, Text
<1>3. sb \o Unread(f) \in Text /\ << >> \o Unread(f) = Unread(f)
  BY <1>1, <1>2, ConcatProperties, ConcatEmptySeq DEF Text
<1> QED
  BY <1>1, <1>2, <1>3 DEF Pending

\* A reader that has not been asked for anything.
LEMMA FreshReader ==
  ASSUME NEW text \in Text
  PROVE  /\ NewReader(text) \in LineReader
         /\ NewReader(text).buf \o NewReader(text).rest = text
BY EmptyText, ConcatEmptySeq DEF NewReader, LineReader, Text

LEMMA SortStarts == SortInit => SortInv
<1> SUFFICES ASSUME SortInit PROVE SortInv
  OBVIOUS
<1>1. original \in [SortFiles -> Text]
  <2>1. BoundedSeq(Letters \union {NL}, MaxFile) \subseteq Text
    BY SortAssumption, SeqDef DEF BoundedSeq, SeqOf, Text
  <2> QED
    BY <2>1 DEF SortInit
<1>2. << >> \in Line /\ << >> \in Seq(Line)
  BY EmptyText, EmptySeq
<1>3. reader \in [SortFiles -> LineReader]
  BY <1>1, FreshReader DEF SortInit
<1>4. NumFiles \in Nat /\ SortFiles = 1..NumFiles
  BY SortAssumption DEF SortFiles
<1>5. SortTypes
  BY <1>1, <1>2, <1>3, <1>4 DEF SortInit, SortTypes, Loading, Reading
<1>6. ASSUME NEW f \in SortFiles PROVE Pending(f) = original[f]
  <2>1. Unread(f) = original[f]
    BY <1>1, FreshReader DEF SortInit, Unread
  <2>2. sb = << >>
    BY DEF SortInit
  <2> QED
    BY <1>5, <2>1, <2>2, PendingText
<1>7. CASE NumFiles = 0
  <2>1. SortFiles = {} /\ sorting = "pop" /\ strheap = {} /\ sortOut = << >>
    BY <1>4, <1>7 DEF SortInit
  <2>2. \A fun : SumFunctionOnSet(fun, SortFiles) = 0
    BY <2>1, SumFirst, FS_EmptySet
  <2>3. OutOK
    BY <2>1, <2>2, EmptyText DEF OutOK, Ordered
  <2>4. HeapOK
    BY <2>1 DEF HeapOK
  <2> QED
    BY <1>5, <2>1, <2>3, <2>4 DEF SortInv, LoadOK, MergeOK, Loading
<1>8. CASE NumFiles # 0
  <2>1. sorting = "load" /\ sortAt = 1 /\ 1 \in SortFiles
    BY <1>4, <1>8 DEF SortInit
  <2>2. file = original /\ sortLines = << >> /\ strheap = {} /\ sortOut = << >>
    BY DEF SortInit
  <2>3. \A line \in Line : TimesAmong(line, sortLines) + TimesIn(line, Pending(sortAt))
                             = TimesIn(line, original[sortAt])
    <3> SUFFICES ASSUME NEW line \in Line
                 PROVE  0 + TimesIn(line, original[1]) = TimesIn(line, original[1])
      BY <1>6, <2>1, <2>2, EmptyText
    <3>1. original[1] \in Text
      BY <1>1, <2>1
    <3>2. TimesIn(line, original[1]) \in Nat
      BY <3>1, StandsFinite
    <3> QED
      BY <3>2
  <2>4. LoadOK /\ MergeOK
    BY <2>1, <2>2, <2>3 DEF LoadOK, MergeOK, Merging
  <2>5. ASSUME NEW f \in SortFiles PROVE FileOK(f)
    <3>1. ~(f < 1)
      BY <1>4
    <3> QED
      BY <1>6, <2>1, <2>2, <3>1 DEF FileOK, Merging, Loading
  <2> QED
    BY <1>5, <2>4, <2>5 DEF SortInv
<1> QED
  BY <1>7, <1>8

\* What a read adds to the buffer, or the buffer to the line, is pending still.
LEMMA ReadKeeps ==
  ASSUME SortInv, Reading, sb' \in Line, reader' \in [SortFiles -> LineReader],
         UNCHANGED <<original, file, sortAt, sorting, sortLines, strheap, sortOut>>,
         \A f \in SortFiles : Pending(f)' = Pending(f)
  PROVE  SortInv'
<1>1. SortTypes'
  BY DEF SortInv, SortTypes, Loading, Reading
<1>2. sortAt \in SortFiles /\ sortAt' = sortAt
  BY DEF SortInv, SortTypes
<1>3. ASSUME NEW f \in SortFiles PROVE FileOK(f)'
  <2>1. Pending(f)' = Pending(f) /\ FileOK(f)
    BY DEF SortInv
  <2> QED
    BY <2>1 DEF FileOK, Loading, Merging
<1>4. LoadOK'
  <2>1. Pending(sortAt)' = Pending(sortAt)
    BY <1>2
  <2> QED
    BY <2>1 DEF SortInv, LoadOK, Loading
<1>5. ASSUME Merging PROVE MergeOK'
  <2>1. \A f \in SortFiles : LinesInOrder(Pending(f)')
    BY <1>5 DEF SortInv, MergeOK
  <2>2. \A n \in strheap : n.ind \in SortFiles
    BY DEF SortInv, SortTypes, HeapNode
  <2>3. HeapOK'
    BY <1>5, <2>2 DEF SortInv, MergeOK, HeapOK, Asked
  <2>4. \A line : LeftOf(line)' = LeftOf(line) /\ TimesInFiles(line)' = TimesInFiles(line)
    BY DEF LeftOf, InHeap, TimesInFiles
  <2>5. OutOK'
    BY <1>5, <2>4 DEF SortInv, MergeOK, OutOK
  <2> QED
    BY <2>1, <2>3, <2>5 DEF MergeOK
<1>6. MergeOK'
  BY <1>5 DEF MergeOK, Merging
<1> QED
  BY <1>1, <1>3, <1>4, <1>6 DEF SortInv

\* After the delivery of a line the reader has one line less to give, and the
\* others have what they had.
LEMMA DeliverPending ==
  ASSUME SortInv, Reading, sb' = << >>, reader' \in [SortFiles -> LineReader],
         \A f \in SortFiles \ {sortAt} : Unread(f)' = Unread(f)
  PROVE  \A f \in SortFiles : /\ Pending(f)' = Unread(f)' /\ Pending(f)' \in Text
                              /\ f # sortAt => Pending(f)' = Pending(f)
<1> SUFFICES ASSUME NEW f \in SortFiles
             PROVE  /\ Pending(f)' = Unread(f)' /\ Pending(f)' \in Text
                    /\ f # sortAt => Pending(f)' = Pending(f)
  OBVIOUS
<1>1. SortTypes
  BY DEF SortInv
<1>2. reader'[f].buf \in Text /\ reader'[f].rest \in Text
  BY DEF LineReader
<1>3. Unread(f)' \in Text
  BY <1>2, ConcatProperties DEF Unread, Text
<1>4. << >> \o Unread(f)' = Unread(f)'
  BY <1>3, ConcatEmptySeq DEF Text
<1>5. Pending(f)' = Unread(f)'
  BY <1>4 DEF Pending
<1>6. f # sortAt => Pending(f) = Unread(f)
  BY <1>1, PendingText
<1> QED
  BY <1>3, <1>5, <1>6

\* Sort collects a line, or knows that it has them all and sorts them.
LEMMA LoadKeeps ==
  ASSUME SortInv, NEW i \in SortFiles, i = sortAt, sorting = "load", NEW line \in Line, NEW eof \in BOOLEAN, Deliver(line, eof),
         UNCHANGED <<original, file, sortOut>>, reader' \in [SortFiles -> LineReader],
         \A f \in SortFiles \ {sortAt} : Unread(f)' = Unread(f),
         IF eof /\ line = << >> THEN Pending(sortAt) = << >>
                                ELSE Takes(Pending(sortAt), line, Unread(i)')
  PROVE  SortInv'
<1> DEFINE end == eof /\ line = << >>
<1>1. /\ SortTypes /\ Reading /\ Loading /\ ~Merging /\ sortAt \in SortFiles
      /\ LoadOK /\ \A f \in SortFiles : FileOK(f)
  BY DEF SortInv, SortTypes, Reading, Loading, Merging
<1>2. /\ sb' = << >> /\ UNCHANGED <<strheap, sortAt>>
      /\ sorting' = IF end THEN "truncate" ELSE "load"
      /\ end => sortLines' \in Arrangements(sortLines) /\ Ordered(sortLines')
      /\ ~end => sortLines' = Append(sortLines, line)
  BY DEF Deliver
<1>3. \A f \in SortFiles : /\ Pending(f)' = Unread(f)' /\ Pending(f)' \in Text
                           /\ f # sortAt => Pending(f)' = Pending(f)
  BY <1>1, <1>2, DeliverPending
<1>4. Loading' /\ ~Merging' /\ sorting' # "write" /\ sorting' # "failed"
  BY <1>2 DEF Loading, Merging
<1>5. /\ sortLines' \in Seq(Line)
      /\ end => \A x \in Line : TimesAmong(x, sortLines') = TimesAmong(x, sortLines)
      /\ ~end => \A x \in Line : TimesAmong(x, sortLines') = Once(x = line) + TimesAmong(x, sortLines)
  <2>1. sortLines \in Seq(Line)
    BY <1>1 DEF SortTypes
  <2>2. CASE end
    BY <1>2, <2>1, <2>2, AmongArranged
  <2>3. CASE ~end
    <3>1. sortLines' = Append(sortLines, line)
      BY <1>2, <2>3
    <3>2. Append(sortLines, line) \in Seq(Line)
      BY <2>1, AppendProperties
    <3>3. \A x : TimesAmong(x, Append(sortLines, line)) = Once(x = line) + TimesAmong(x, sortLines)
      BY <2>1, AmongAppended, Zenon
    <3> QED
      BY <2>3, <3>1, <3>2, <3>3
  <2> QED
    BY <2>2, <2>3
<1>6. SortTypes'
  BY <1>1, <1>2, <1>4, <1>5, EmptyText DEF SortTypes, Loading, Reading
<1>7. ASSUME NEW f \in SortFiles PROVE FileOK(f)'
  <2>1. f \in Nat /\ sortAt \in Nat
    BY SortAssumption, <1>1 DEF SortFiles
  <2>2. f # sortAt => Pending(f)' = Pending(f)
    BY <1>3
  <2> QED
    BY <1>1, <1>2, <1>4, <2>1, <2>2 DEF FileOK
<1>8. LoadOK'
  <2>1. \A x \in Line : /\ TimesAmong(x, sortLines) \in Nat
                        /\ TimesIn(x, Pending(i)') \in Nat
                        /\ TimesAmong(x, sortLines) + TimesIn(x, Pending(sortAt)) = TimesIn(x, original[sortAt])
    BY <1>1, <1>3, AmongFinite, StandsFinite DEF SortTypes, LoadOK
  <2>2. CASE end
    <3>1. \A x \in Line : TimesIn(x, Pending(sortAt)) = 0
      BY <2>2, EmptyText
    <3> QED
      BY <1>1, <1>2, <1>5, <2>1, <2>2, <3>1 DEF LoadOK
  <2>3. CASE ~end
    <3>1. \A x \in Line : TimesIn(x, Pending(sortAt)) = Once(x = line) + TimesIn(x, Pending(i)')
      BY <1>1, <1>3, <2>3 DEF Takes
    <3>3. ASSUME NEW x \in Line
          PROVE  TimesAmong(x, sortLines') + TimesIn(x, Pending(i)') = TimesIn(x, original[sortAt])
      <4> DEFINE was == TimesAmong(x, sortLines)
                 left == TimesIn(x, Pending(i)')
      <4>1. Once(x = line) \in Nat /\ was \in Nat /\ left \in Nat
        BY <2>1 DEF Once
      <4>2. /\ TimesAmong(x, sortLines') = Once(x = line) + was
            /\ TimesIn(x, Pending(sortAt)) = Once(x = line) + left
            /\ was + TimesIn(x, Pending(sortAt)) = TimesIn(x, original[sortAt])
        BY <1>5, <2>1, <2>3, <3>1
      <4> HIDE DEF was, left
      <4>3. TimesAmong(x, sortLines') + left = TimesIn(x, original[sortAt])
        BY <4>1, <4>2
      <4> QED
        BY <4>3 DEF left
    <3> QED
      BY <1>1, <1>2, <2>3, <3>3 DEF LoadOK
  <2> QED
    BY <2>2, <2>3
<1>9. MergeOK'
  BY <1>4 DEF MergeOK
<1> QED
  BY <1>6, <1>7, <1>8, <1>9 DEF SortInv

\* Merge pushes a line, or knows that the reader has no more.
LEMMA PushKeeps ==
  ASSUME SortInv, NEW i \in SortFiles, i = sortAt, sorting \in {"first", "merge"}, NEW line \in Line, NEW eof \in BOOLEAN,
         Deliver(line, eof),
         UNCHANGED <<original, file, sortOut>>, reader' \in [SortFiles -> LineReader],
         \A f \in SortFiles \ {sortAt} : Unread(f)' = Unread(f),
         IF eof /\ line = << >> THEN Pending(sortAt) = << >> /\ Unread(i)' = << >>
                                ELSE Takes(Pending(sortAt), line, Unread(i)')
  PROVE  SortInv'
<1> DEFINE end == eof /\ line = << >>
           node == [str |-> line, ind |-> sortAt]
           more == sorting = "first" /\ sortAt < NumFiles
<1>1. /\ SortTypes /\ Reading /\ ~Loading /\ Merging /\ sortAt \in SortFiles
      /\ MergeOK /\ \A f \in SortFiles : FileOK(f)
  BY DEF SortInv, SortTypes, Reading, Loading, Merging
<1>2. /\ sb' = << >> /\ UNCHANGED sortLines
      /\ strheap' = IF end THEN strheap ELSE strheap \union {node}
      /\ sorting' = IF more THEN "first" ELSE "pop"
      /\ sortAt' = IF more THEN sortAt + 1 ELSE sortAt
  BY DEF Deliver
<1>3. \A f \in SortFiles : /\ Pending(f)' = Unread(f)' /\ Pending(f)' \in Text
                           /\ f # sortAt => Pending(f)' = Pending(f)
  BY <1>1, <1>2, DeliverPending
<1>4. /\ ~Loading' /\ Merging' /\ sorting' \notin {"load", "truncate", "write", "merge", "done", "failed"}
      /\ NumFiles \in Nat /\ SortFiles = 1..NumFiles /\ sortAt' \in SortFiles
  BY SortAssumption, <1>1, <1>2 DEF Loading, Merging, SortFiles
<1>5. node \in HeapNode
  BY <1>1 DEF HeapNode
<1>6. SortTypes'
  BY <1>1, <1>2, <1>4, <1>5, EmptyText DEF SortTypes, Loading, Reading, SortFiles
<1>7. \A f \in SortFiles : FileOK(f)'
  BY <1>1, <1>4 DEF FileOK
<1>8. LoadOK'
  BY <1>4 DEF LoadOK
<1>9. /\ \A n \in strheap : n \in HeapNode /\ n.ind \in SortFiles /\ n.str \in Line /\ n.ind # sortAt
      /\ node.str = line /\ node.ind = sortAt
      /\ \A m, n \in strheap : m.ind = n.ind => m = n
  <2>1. Asked(sortAt)
    BY <1>1, <1>4 DEF Asked
  <2> QED
    BY <1>1, <2>1 DEF SortTypes, HeapNode, MergeOK, HeapOK
<1>10. \A f \in SortFiles : /\ Asked(f)' => Asked(f) /\ f # sortAt
                            /\ Asked(f) /\ f # sortAt => Asked(f)'
  BY <1>1, <1>2, <1>4 DEF Asked
<1>11. ASSUME NEW f \in SortFiles PROVE LinesInOrder(Pending(f)')
  <2>1. LinesInOrder(Pending(f))
    BY <1>1 DEF MergeOK
  <2>2. CASE f # sortAt
    BY <1>3, <2>1, <2>2
  <2>3. CASE f = sortAt
    BY <1>3, <2>1, <2>3, EmptyText DEF Takes
  <2> QED
    BY <2>2, <2>3
<1>12. HeapOK'
  <2>1. \A m, n \in strheap' : m.ind = n.ind => m = n
    BY <1>2, <1>9
  <2>2. ASSUME NEW n \in strheap' PROVE ~Asked(n.ind)' /\ Below(n.str, Pending(n.ind)')
    <3>1. CASE n \in strheap
      <4>1. ~Asked(n.ind) /\ Below(n.str, Pending(n.ind)) /\ n.ind # sortAt /\ n.ind \in SortFiles
        BY <1>1, <1>9, <3>1 DEF MergeOK, HeapOK
      <4> QED
        BY <1>3, <1>10, <4>1
    <3>2. CASE n = node /\ ~end
      <4>1. LinesInOrder(Pending(sortAt))
        BY <1>1 DEF MergeOK
      <4>2. Below(line, Pending(i)')
        BY <1>1, <1>3, <3>2, <4>1 DEF Takes
      <4> QED
        BY <1>1, <1>9, <1>10, <3>2, <4>2
    <3> QED
      BY <1>2, <2>2, <3>1, <3>2
  <2>3. ASSUME NEW f \in SortFiles
        PROVE  Asked(f)' \/ Pending(f)' = << >> \/ \E n \in strheap' : n.ind = f
    <3>1. CASE f # sortAt
      <4>1. Asked(f) \/ Pending(f) = << >> \/ \E n \in strheap : n.ind = f
        BY <1>1 DEF MergeOK, HeapOK
      <4> QED
        BY <1>2, <1>3, <1>10, <3>1, <4>1
    <3>2. CASE f = sortAt
      BY <1>2, <1>3, <1>9, <3>2
    <3> QED
      BY <3>1, <3>2
  <2> QED
    BY <1>4, <2>1, <2>2, <2>3 DEF HeapOK
<1>13. ASSUME NEW k \in DOMAIN sortOut
       PROVE  /\ \A n \in strheap' : LessOrEqual(sortOut[k], n.str)
              /\ \A f \in SortFiles : Below(sortOut[k], Pending(f)')
  <2>1. sortOut[k] \in Line
    BY <1>1, ElementOfSeq, LenProperties DEF SortTypes
  <2>2. /\ \A n \in strheap : LessOrEqual(sortOut[k], n.str)
        /\ \A f \in SortFiles : Below(sortOut[k], Pending(f))
    BY <1>1 DEF MergeOK, OutOK
  <2>3. ~end => LessOrEqual(sortOut[k], line) /\ Below(sortOut[k], Pending(i)')
    BY <1>1, <1>3, <2>1, <2>2 DEF Takes
  <2>4. end => Below(sortOut[k], Pending(i)')
    BY <1>1, <1>3, EmptyText
  <2> QED
    BY <1>2, <1>3, <1>9, <2>2, <2>3, <2>4
<1>14. ASSUME NEW x \in Line PROVE LeftOf(x)' = LeftOf(x)
  <2>1. ASSUME NEW f \in SortFiles
        PROVE  InHeap(x, f)' + TimesIn(x, Pending(f)') = InHeap(x, f) + TimesIn(x, Pending(f))
    <3>1. CASE f # sortAt
      <4>1. [str |-> x, ind |-> f] # node
        BY <3>1
      <4>2. InHeap(x, f)' = InHeap(x, f)
        BY <1>2, <4>1 DEF InHeap
      <4> QED
        BY <1>3, <3>1, <4>2
    <3>2. CASE f = sortAt
      <4>1. InHeap(x, f) = 0
        <5>1. [str |-> x, ind |-> f] \notin strheap
          BY <1>9, <3>2
        <5> QED
          BY <5>1 DEF InHeap
      <4>2. TimesIn(x, Pending(f)') \in Nat
        BY <1>3, StandsFinite
      <4>3. CASE end
        BY <1>2, <1>3, <3>2, <4>1, <4>3 DEF InHeap
      <4>4. CASE ~end
        <5>1. InHeap(x, f)' = Once(x = line)
          <6>1. [str |-> x, ind |-> f] \in strheap' <=> x = line
            BY <1>2, <1>9, <3>2, <4>4
          <6> QED
            BY <6>1 DEF InHeap, Once
        <5>2. TimesIn(x, Pending(f)) = Once(x = line) + TimesIn(x, Pending(f)')
          BY <1>1, <1>3, <3>2, <4>4 DEF Takes
        <5>3. Once(x = line) \in Nat
          BY DEF Once
        <5> QED
          BY <4>1, <4>2, <5>1, <5>2, <5>3
      <4> QED
        BY <4>3, <4>4
    <3> QED
      BY <3>1, <3>2
  <2> QED
    BY <2>1 DEF LeftOf
<1>15. OutOK'
  <2>1. \A x \in Line : TimesInFiles(x)' = TimesInFiles(x)
    BY DEF TimesInFiles
  <2> QED
    BY <1>1, <1>13, <1>14, <2>1 DEF MergeOK, OutOK
<1>16. MergeOK'
  BY <1>11, <1>12, <1>15 DEF MergeOK
<1> QED
  BY <1>6, <1>7, <1>8, <1>16 DEF SortInv

\* A text is its first n characters and what is behind them.
LEMMA SplitText ==
  ASSUME NEW text \in Text, NEW n \in 0..Len(text)
  PROVE  SubSeq(text, 1, n) \o SubSeq(text, n + 1, Len(text)) = text
<1>1. text \in Seq(Letters \union {NL}) /\ Len(text) \in Nat
  BY TextFacts DEF Text
<1>2. 1 \in 1..(Len(text) + 1) /\ n \in (1 - 1)..Len(text) /\ Len(text) \in n..Len(text)
  BY <1>1
<1>3. SubSeq(text, 1, n) \o SubSeq(text, n + 1, Len(text)) = SubSeq(text, 1, Len(text))
  BY <1>1, <1>2, ConcatAdjacentSubSeq
<1> QED
  BY <1>1, <1>3, SubSeqFull

\* Read fills an empty buffer, or says that the file is at its end.
LEMMA FillBufferStep == SortInv /\ FillBuffer => SortInv'
<1> SUFFICES ASSUME SortInv, FillBuffer PROVE SortInv'
  OBVIOUS
<1>1. PICK i \in SortFiles : i = sortAt
  BY DEF SortInv, SortTypes, FillBuffer
<1>2. /\ SortTypes /\ Reading /\ reader[i].buf = << >>
      /\ UNCHANGED <<original, file, sortOut>>
      /\ reader \in [SortFiles -> LineReader] /\ sb \in Line
  BY <1>1 DEF SortInv, SortTypes, FillBuffer
<1> DEFINE rest == reader[i].rest
           n == IF Len(rest) < BufLen THEN Len(rest) ELSE BufLen
<1>3. /\ rest \in Text /\ Len(rest) \in Nat /\ BufLen \in Nat \ {0}
      /\ n \in 0..Len(rest) /\ (n = 0 => rest = << >>)
  <2>1. rest \in Text
    BY <1>2, PendingText
  <2>2. Len(rest) \in Nat /\ BufLen \in Nat \ {0} /\ (Len(rest) = 0 => rest = << >>)
    BY <2>1, SortAssumption, LenProperties, EmptySeq DEF Text
  <2> QED
    BY <2>1, <2>2
<1>4. Unread(i) = rest
  BY <1>2, <1>3, ConcatEmptySeq DEF Unread, Text
<1>5. CASE n = 0
  <2>1. Deliver(sb, TRUE) /\ reader' = reader
    BY <1>1, <1>5 DEF FillBuffer
  <2>2. Unread(i)' = << >> /\ Unread(i) = << >>
    BY <1>3, <1>4, <1>5, <2>1 DEF Unread
  <2>3. Pending(sortAt) = sb
    BY <1>1, <1>2, <2>2, ConcatEmptySeq DEF Pending, Line
  <2>4. \A f \in SortFiles \ {sortAt} : Unread(f)' = Unread(f)
    BY <2>1 DEF Unread
  <2>5. IF TRUE /\ sb = << >> THEN Pending(sortAt) = << >> /\ Unread(i)' = << >>
                              ELSE Takes(Pending(sortAt), sb, Unread(i)')
    BY <1>2, <2>2, <2>3, TakesLast
  <2>6. CASE sorting = "load"
    <3>1. IF TRUE /\ sb = << >> THEN Pending(sortAt) = << >>
                                ELSE Takes(Pending(sortAt), sb, Unread(i)')
      BY <2>5
    <3> QED
      BY <1>1, <1>2, <2>1, <2>4, <2>6, <3>1, LoadKeeps
  <2>7. CASE sorting \in {"first", "merge"}
    BY <1>1, <1>2, <2>1, <2>4, <2>5, <2>7, PushKeeps
  <2> QED
    BY <1>2, <2>6, <2>7 DEF Reading
<1>6. CASE n # 0
  <2> DEFINE new == [buf |-> SubSeq(rest, 1, n), rest |-> SubSeq(rest, n + 1, Len(rest))]
  <2>1. /\ reader' = [reader EXCEPT ![i] = new]
        /\ UNCHANGED <<sb, sortAt, sorting, sortLines, strheap>>
    BY <1>1, <1>6 DEF FillBuffer
  <2>2. /\ SubSeq(rest, 1, n) \in Text /\ SubSeq(rest, n + 1, Len(rest)) \in Text
        /\ SubSeq(rest, 1, n) \o SubSeq(rest, n + 1, Len(rest)) = rest
    <3>1. \A k \in 1..Len(rest) : rest[k] \in Letters \union {NL}
      BY <1>3, ElementOfSeq DEF Text
    <3>2. \A k \in 1..n : rest[k] \in Letters \union {NL}
      BY <1>3, <3>1
    <3>3. \A k \in (n + 1)..Len(rest) : rest[k] \in Letters \union {NL}
      BY <1>3, <3>1
    <3>4. SubSeq(rest, 1, n) \in Text
      BY <1>3, <3>2, SubSeqProperties DEF Text
    <3>5. SubSeq(rest, n + 1, Len(rest)) \in Text
      BY <1>3, <3>3, SubSeqProperties DEF Text
    <3>6. SubSeq(rest, 1, n) \o SubSeq(rest, n + 1, Len(rest)) = rest
      BY <1>3, SplitText
    <3> QED
      BY <3>4, <3>5, <3>6
  <2> HIDE DEF n, rest
  <2>3. new \in LineReader /\ new.buf \o new.rest = rest
    BY <2>2 DEF LineReader
  <2> HIDE DEF new
  <2>4. reader' \in [SortFiles -> LineReader]
    BY <1>2, <2>1, <2>3
  <2>5. \A f \in SortFiles : Unread(f)' = Unread(f)
    BY <1>2, <1>4, <2>1, <2>3 DEF Unread
  <2>6. \A f \in SortFiles : Pending(f)' = Pending(f)
    BY <2>1, <2>5 DEF Pending
  <2> QED
    BY <1>2, <2>1, <2>4, <2>6, ReadKeeps
<1> QED
  BY <1>5, <1>6

\* The characters before the first newline of the buffer are part of a line.
LEMMA BeforeNewline ==
  ASSUME NEW buf \in Text, NEW n \in 0..Len(buf), UpToNewline(buf, n)
  PROVE  /\ SubSeq(buf, 1, n) \in Line /\ Len(SubSeq(buf, 1, n)) = n
         /\ \A k \in 1..n : SubSeq(buf, 1, n)[k] = buf[k]
         /\ n = Len(buf) => SubSeq(buf, 1, n) = buf
<1>1. Len(buf) \in Nat /\ n \in Nat
  BY TextFacts
<1>2. \A k \in 1..n : buf[k] \in Letters
  <2>1. \A k \in 1..Len(buf) : buf[k] \in Letters \union {NL}
    BY ElementOfSeq DEF Text
  <2> QED
    BY <1>1, <2>1 DEF UpToNewline
<1>3. /\ SubSeq(buf, 1, n) \in Line
      /\ Len(SubSeq(buf, 1, n)) = IF 1 <= n THEN n - 1 + 1 ELSE 0
      /\ \A k \in 1..(n - 1 + 1) : SubSeq(buf, 1, n)[k] = buf[1 + k - 1]
  BY <1>1, <1>2, SubSeqProperties DEF Line
<1>4. n = Len(buf) => SubSeq(buf, 1, n) = buf
  BY SubSeqFull DEF Text
<1> QED
  BY <1>1, <1>3, <1>4

\* A line leads a text still when the text goes on, or the line begins earlier.
LEMMA LeadsOn ==
  ASSUME NEW line \in Line, NEW behind \in Text, NEW buf \in Text, NEW rest \in Text,
         Leads(line, behind, buf)
  PROVE  Leads(line, behind \o rest, buf \o rest)
<1>1. /\ Len(line) \in Nat /\ Len(behind) \in Nat /\ Len(buf) \in Nat /\ Len(rest) \in Nat
      /\ DOMAIN line = 1..Len(line) /\ DOMAIN behind = 1..Len(behind)
  BY LineIsText, TextFacts
<1> DEFINE left == behind \o rest
           whole == buf \o rest
<1>2. /\ left \in Text /\ Len(left) = Len(behind) + Len(rest) /\ DOMAIN left = 1..Len(left)
      /\ \A k \in 1..(Len(behind) + Len(rest)) :
           left[k] = IF k <= Len(behind) THEN behind[k] ELSE rest[k - Len(behind)]
  BY ConcatProperties, TextFacts DEF Text
<1>3. /\ Len(whole) = Len(buf) + Len(rest)
      /\ \A k \in 1..(Len(buf) + Len(rest)) :
           whole[k] = IF k <= Len(buf) THEN buf[k] ELSE rest[k - Len(buf)]
  BY ConcatProperties DEF Text
<1> HIDE DEF left, whole
<1>4. /\ Len(buf) = Len(line) + 1 + Len(behind)
      /\ \A k \in DOMAIN line : buf[k] = line[k]
      /\ buf[Len(line) + 1] = NL
      /\ \A k \in DOMAIN behind : buf[Len(line) + 1 + k] = behind[k]
  BY DEF Leads
<1>5. Len(whole) = Len(line) + 1 + Len(left)
  BY <1>1, <1>2, <1>3, <1>4
<1>6. ASSUME NEW k \in DOMAIN line PROVE whole[k] = line[k]
  <2>1. k \in 1..(Len(buf) + Len(rest)) /\ k <= Len(buf)
    BY <1>1, <1>4
  <2> QED
    BY <1>3, <1>4, <2>1
<1>7. whole[Len(line) + 1] = NL
  <2>1. Len(line) + 1 \in 1..(Len(buf) + Len(rest)) /\ Len(line) + 1 <= Len(buf)
    BY <1>1, <1>4
  <2> QED
    BY <1>3, <1>4, <2>1
<1>8. ASSUME NEW k \in DOMAIN left PROVE whole[Len(line) + 1 + k] = left[k]
  <2>1. PICK j : j = Len(line) + 1 + k
    OBVIOUS
  <2>2. k \in 1..(Len(behind) + Len(rest)) /\ j \in 1..(Len(buf) + Len(rest))
    BY <1>1, <1>2, <1>4, <2>1
  <2>3. CASE k <= Len(behind)
    <3>1. j <= Len(buf) /\ k \in DOMAIN behind
      BY <1>1, <1>4, <2>1, <2>2, <2>3
    <3>2. buf[j] = behind[k]
      BY <1>4, <2>1, <3>1
    <3> QED
      BY <1>2, <1>3, <2>1, <2>2, <2>3, <3>1, <3>2
  <2>4. CASE ~(k <= Len(behind))
    <3>1. ~(j <= Len(buf)) /\ j - Len(buf) = k - Len(behind)
      BY <1>1, <1>4, <2>1, <2>2, <2>4
    <3> QED
      BY <1>2, <1>3, <2>1, <2>2, <2>4, <3>1
  <2> QED
    BY <2>3, <2>4
<1>9. Leads(line, left, whole)
  BY <1>5, <1>6, <1>7, <1>8 DEF Leads
<1> QED
  BY <1>9 DEF left, whole

LEMMA LeadsLater ==
  ASSUME NEW s \in Line, NEW part \in Line, NEW rest \in Text, NEW text \in Text,
         Leads(part, rest, text)
  PROVE  s \o part \in Line /\ s \o text \in Text /\ Leads(s \o part, rest, s \o text)
<1>1. /\ Len(s) \in Nat /\ Len(part) \in Nat /\ Len(rest) \in Nat /\ Len(text) \in Nat
      /\ DOMAIN part = 1..Len(part) /\ DOMAIN rest = 1..Len(rest) /\ s \in Text
  BY LineIsText, TextFacts
<1> DEFINE line == s \o part
           whole == s \o text
<1>2. /\ line \in Line /\ Len(line) = Len(s) + Len(part) /\ DOMAIN line = 1..Len(line)
      /\ \A k \in 1..(Len(s) + Len(part)) : line[k] = IF k <= Len(s) THEN s[k] ELSE part[k - Len(s)]
  <2>1. /\ line \in Seq(Letters) /\ Len(line) = Len(s) + Len(part)
        /\ \A k \in 1..(Len(s) + Len(part)) : line[k] = IF k <= Len(s) THEN s[k] ELSE part[k - Len(s)]
    BY ConcatProperties DEF Line
  <2> QED
    BY <2>1, LenProperties DEF Line
<1>3. /\ whole \in Text /\ Len(whole) = Len(s) + Len(text)
      /\ \A k \in 1..(Len(s) + Len(text)) : whole[k] = IF k <= Len(s) THEN s[k] ELSE text[k - Len(s)]
  BY <1>1, ConcatProperties DEF Text
<1> HIDE DEF line, whole
<1>4. /\ Len(text) = Len(part) + 1 + Len(rest)
      /\ \A k \in DOMAIN part : text[k] = part[k]
      /\ text[Len(part) + 1] = NL
      /\ \A k \in DOMAIN rest : text[Len(part) + 1 + k] = rest[k]
  BY DEF Leads
<1>5. Len(whole) = Len(line) + 1 + Len(rest)
  BY <1>1, <1>2, <1>3, <1>4
<1>6. ASSUME NEW k \in DOMAIN line PROVE whole[k] = line[k]
  <2>1. k \in 1..(Len(s) + Len(part)) /\ k \in 1..(Len(s) + Len(text))
    BY <1>1, <1>2, <1>4
  <2>2. CASE k <= Len(s)
    BY <1>2, <1>3, <2>1, <2>2
  <2>3. CASE ~(k <= Len(s))
    <3>1. k - Len(s) \in DOMAIN part
      BY <1>1, <2>1, <2>3
    <3> QED
      BY <1>2, <1>3, <1>4, <2>1, <2>3, <3>1
  <2> QED
    BY <2>2, <2>3
<1>7. ASSUME NEW k \in 1..(1 + Len(rest)) PROVE whole[Len(line) + k] = text[Len(part) + k]
  <2>1. PICK j : j = Len(line) + k
    OBVIOUS
  <2>2. j \in 1..(Len(s) + Len(text)) /\ ~(j <= Len(s)) /\ j - Len(s) = Len(part) + k
    BY <1>1, <1>2, <1>4, <2>1
  <2> QED
    BY <1>3, <2>1, <2>2
<1>8. whole[Len(line) + 1] = NL
  <2>1. 1 \in 1..(1 + Len(rest))
    BY <1>1
  <2> QED
    BY <1>4, <1>7, <2>1
<1>9. ASSUME NEW k \in DOMAIN rest PROVE whole[Len(line) + 1 + k] = rest[k]
  <2>1. 1 + k \in 1..(1 + Len(rest)) /\ Len(line) \in Nat
    BY <1>1, <1>2
  <2>2. Len(line) + (1 + k) = Len(line) + 1 + k /\ Len(part) + (1 + k) = Len(part) + 1 + k
    <3>1. Len(line) \in Nat /\ Len(part) \in Nat /\ k \in Int
      BY <1>1, <2>1
    <3> QED
      BY <3>1, SMTT(30)
  <2>3. whole[Len(line) + (1 + k)] = text[Len(part) + (1 + k)]
    BY <1>7, <2>1
  <2>4. text[Len(part) + 1 + k] = rest[k]
    BY <1>4
  <2> QED
    BY <2>2, <2>3, <2>4
<1>10. Leads(line, rest, whole)
  BY <1>5, <1>6, <1>8, <1>9 DEF Leads
<1> QED
  BY <1>2, <1>3, <1>10 DEF line, whole

\* The buffer is its first line, the newline, and what is behind it.
LEMMA BufferLeads ==
  ASSUME NEW buf \in Text, NEW n \in 0..Len(buf), UpToNewline(buf, n)
  PROVE  /\ SubSeq(buf, n + 2, Len(buf)) \in Text
         /\ n = Len(buf) => SubSeq(buf, n + 2, Len(buf)) = << >>
         /\ n # Len(buf) => Leads(SubSeq(buf, 1, n), SubSeq(buf, n + 2, Len(buf)), buf)
<1> DEFINE behind == SubSeq(buf, n + 2, Len(buf))
           part == SubSeq(buf, 1, n)
<1>1. Len(buf) \in Nat /\ n \in Nat /\ n <= Len(buf)
  BY TextFacts
<1>2. /\ part \in Line /\ Len(part) = n /\ (\A k \in 1..n : part[k] = buf[k])
  BY BeforeNewline
<1>3. /\ behind \in Text
      /\ Len(behind) = IF n + 2 <= Len(buf) THEN Len(buf) - (n + 2) + 1 ELSE 0
      /\ \A k \in 1..(Len(buf) - (n + 2) + 1) : behind[k] = buf[(n + 2) + k - 1]
  <2>1. \A k \in (n + 2)..Len(buf) : buf[k] \in Letters \union {NL}
    BY <1>1, ElementOfSeq DEF Text
  <2>2. n + 2 \in Int /\ Len(buf) \in Int
    BY <1>1
  <2> QED
    BY <1>1, <2>1, <2>2, SubSeqProperties DEF Text
<1> HIDE DEF behind, part
<1>4. ASSUME n # Len(buf) PROVE Leads(part, behind, buf)
  <2>1. Len(behind) = Len(buf) - n - 1 /\ Len(buf) = n + 1 + Len(behind)
    <3>1. PICK b, c : b = Len(buf) /\ c = Len(behind)
      OBVIOUS
    <3>2. b \in Nat /\ n \in Nat /\ n <= b /\ n # b
      BY <1>1, <1>4, <3>1
    <3>3. c = IF n + 2 <= b THEN b - (n + 2) + 1 ELSE 0
      BY <1>3, <3>1
    <3>4. c = b - n - 1 /\ b = n + 1 + c
      BY <3>2, <3>3
    <3> QED
      BY <3>1, <3>4
  <2>2. buf[n + 1] = NL
    BY <1>1, <1>4 DEF UpToNewline
  <2>3. ASSUME NEW k \in DOMAIN behind PROVE buf[n + 1 + k] = behind[k]
    <3>1. k \in 1..Len(behind)
      BY <1>3, TextFacts
    <3>2. k \in 1..(Len(buf) - (n + 2) + 1) /\ (n + 2) + k - 1 = n + 1 + k
      BY <1>1, <2>1, <3>1
    <3> QED
      BY <1>3, <3>2
  <2>4. DOMAIN part = 1..n
    BY <1>2, LineIsText
  <2> QED
    BY <1>2, <2>1, <2>2, <2>3, <2>4 DEF Leads
<1>5. n = Len(buf) => behind = << >>
  <2> SUFFICES ASSUME n = Len(buf) PROVE behind = << >>
    OBVIOUS
  <2>1. Len(behind) = 0
    BY <1>1, <1>3
  <2> QED
    BY <1>3, <2>1, EmptySeq DEF Text
<1> QED
  BY <1>3, <1>4, <1>5 DEF behind, part

\* What follows the newline stays in the buffer.
LEMMA ParseLineStep == SortInv /\ ParseLine => SortInv'
<1> SUFFICES ASSUME SortInv, ParseLine PROVE SortInv'
  OBVIOUS
<1>1. PICK i \in SortFiles : i = sortAt
  BY DEF SortInv, SortTypes, ParseLine
<1>2. PICK buf, rest : buf = reader[i].buf /\ rest = reader[i].rest
  OBVIOUS
<1>3. PICK n \in 0..Len(buf) :
        /\ UpToNewline(buf, n)
        /\ reader' = [reader EXCEPT ![i].buf = SubSeq(buf, n + 2, Len(buf))]
        /\ IF n = Len(buf) THEN sb' = sb \o buf /\ UNCHANGED <<sortAt, sorting, sortLines, strheap>>
                           ELSE Deliver(sb \o SubSeq(buf, 1, n), FALSE)
  BY <1>1, <1>2 DEF ParseLine
<1>4. /\ SortTypes /\ Reading /\ UNCHANGED <<original, file, sortOut>>
      /\ reader \in [SortFiles -> LineReader] /\ sb \in Line /\ sb \in Text
      /\ buf \in Text /\ rest \in Text /\ Unread(i) = buf \o rest
  BY <1>2, PendingText, LineIsText DEF SortInv, SortTypes, ParseLine, Unread
<1>5. PICK behind, part : behind = SubSeq(buf, n + 2, Len(buf)) /\ part = SubSeq(buf, 1, n)
  OBVIOUS
<1>6. /\ part \in Line /\ behind \in Text
      /\ n = Len(buf) => part = buf /\ behind = << >>
      /\ n # Len(buf) => Leads(part, behind, buf)
  BY <1>3, <1>4, <1>5, BeforeNewline, BufferLeads
<1>7. /\ reader' \in [SortFiles -> LineReader]
      /\ Unread(i)' = behind \o rest
      /\ \A f \in SortFiles \ {sortAt} : Unread(f)' = Unread(f)
  <2>1. PICK new : new = [buf |-> behind, rest |-> rest]
    OBVIOUS
  <2>2. new \in LineReader /\ new.buf = behind /\ new.rest = rest
    BY <1>4, <1>6, <2>1 DEF LineReader
  <2>3. reader[i] \in LineReader
    BY <1>4
  <2>4. [reader[i] EXCEPT !.buf = behind] = new
    BY <1>2, <2>1, <2>3 DEF LineReader
  <2>5. reader' = [reader EXCEPT ![i] = new]
    BY <1>3, <1>5, <2>4
  <2> QED
    BY <1>1, <1>4, <2>2, <2>5 DEF Unread
<1>8. Pending(sortAt) = sb \o (buf \o rest)
  BY <1>1, <1>4 DEF Pending
<1>9. CASE n = Len(buf)
  <2>1. sb' = sb \o buf /\ UNCHANGED <<sortAt, sorting, sortLines, strheap>>
    BY <1>3, <1>9
  <2>2. sb' \in Line
    BY <1>4, <1>6, <1>9, <2>1, ConcatProperties DEF Line
  <2>3. sb \in Seq(Letters \union {NL}) /\ buf \in Seq(Letters \union {NL}) /\ rest \in Seq(Letters \union {NL})
    BY <1>4 DEF Text
  <2>4. (sb \o buf) \o rest = sb \o (buf \o rest)
    BY <2>3, ConcatAssociative
  <2>5. Unread(i)' = rest
    <3>1. << >> \o rest = rest
      BY <2>3, ConcatEmptySeq
    <3>2. behind = << >>
      BY <1>6, <1>9, Zenon
    <3> QED
      BY <1>7, <3>1, <3>2, Zenon
  <2>6. \A f \in SortFiles : Pending(f)' = Pending(f)
    <3> SUFFICES ASSUME NEW f \in SortFiles PROVE Pending(f)' = Pending(f)
      OBVIOUS
    <3>1. CASE f = i
      BY <1>1, <1>8, <2>1, <2>4, <2>5, <3>1 DEF Pending
    <3>2. CASE f # i
      BY <1>1, <1>7, <2>1, <3>2 DEF Pending
    <3> QED
      BY <3>1, <3>2
  <2> QED
    BY <1>4, <1>7, <2>1, <2>2, <2>6, ReadKeeps
<1>10. CASE n # Len(buf)
  <2>1. PICK line, left, text : line = sb \o part /\ left = behind \o rest /\ text = sb \o (buf \o rest)
    OBVIOUS
  <2>2. Leads(part, left, buf \o rest) /\ left \in Text /\ buf \o rest \in Text
    <3>1. Leads(part, left, buf \o rest)
      BY <1>4, <1>6, <1>10, <2>1, LeadsOn
    <3> QED
      BY <1>4, <1>6, <2>1, <3>1, ConcatProperties DEF Text
  <2>3. line \in Line /\ text \in Text /\ Leads(line, left, text)
    BY <1>4, <1>6, <2>1, <2>2, LeadsLater
  <2>4. Takes(Pending(sortAt), line, Unread(i)')
    BY <1>7, <1>8, <2>1, <2>2, <2>3, TakesLead
  <2>5. Deliver(line, FALSE)
    BY <1>3, <1>5, <1>10, <2>1
  <2>6. IF FALSE /\ line = << >> THEN Pending(sortAt) = << >> /\ Unread(i)' = << >>
                                 ELSE Takes(Pending(sortAt), line, Unread(i)')
    BY <2>4
  <2>7. CASE sorting = "load"
    <3>1. IF FALSE /\ line = << >> THEN Pending(sortAt) = << >>
                                   ELSE Takes(Pending(sortAt), line, Unread(i)')
      BY <2>4
    <3> QED
      BY <1>1, <1>4, <1>7, <2>3, <2>5, <2>7, <3>1, LoadKeeps
  <2>8. CASE sorting \in {"first", "merge"}
    BY <1>1, <1>4, <1>7, <2>3, <2>5, <2>6, <2>8, PushKeeps
  <2> QED
    BY <1>4, <2>7, <2>8 DEF Reading
<1> QED
  BY <1>9, <1>10

\* Truncate leaves a text of no lines.
LEMMA TruncateStep == SortInv /\ Truncate => SortInv'
<1> SUFFICES ASSUME SortInv, Truncate PROVE SortInv'
  OBVIOUS
<1>1. /\ SortTypes /\ Loading /\ ~Merging /\ ~Reading /\ sortAt \in SortFiles /\ sorting = "truncate"
      /\ LoadOK /\ \A f \in SortFiles : FileOK(f)
  BY DEF SortInv, SortTypes, Reading, Loading, Merging, Truncate
<1>2. /\ file' = [file EXCEPT ![sortAt] = << >>] /\ sorting' = "write"
      /\ UNCHANGED <<original, reader, sb, sortAt, sortLines, strheap, sortOut>>
  BY DEF Truncate
<1>3. Loading' /\ ~Merging' /\ ~Reading'
  BY <1>2 DEF Loading, Merging, Reading
<1>4. /\ file' \in [SortFiles -> Text] /\ file'[sortAt'] = << >>
      /\ \A f \in SortFiles : f # sortAt => file'[f] = file[f]
  BY <1>1, <1>2, EmptyText DEF SortTypes
<1>5. \A f \in SortFiles : Pending(f)' = Pending(f)
  BY <1>2 DEF Pending, Unread
<1>6. SortTypes'
  BY <1>1, <1>2, <1>3, <1>4 DEF SortTypes
<1>7. ASSUME NEW f \in SortFiles PROVE FileOK(f)'
  <2>1. FileOK(f) /\ f \in Int /\ sortAt \in Int
    BY <1>1, SortAssumption DEF SortFiles
  <2>2. f > sortAt \/ f < sortAt => file'[f] = file[f] /\ Pending(f)' = Pending(f)
    BY <1>4, <1>5, <2>1
  <2> QED
    BY <1>1, <1>2, <1>3, <2>1, <2>2 DEF FileOK
<1>8. LoadOK'
  <2>1. \A x \in Line : /\ TimesAmong(x, sortLines) = TimesIn(x, original[sortAt])
                        /\ TimesAmong(x, sortLines) \in Nat
    BY <1>1, AmongFinite DEF LoadOK, SortTypes
  <2>2. \A x \in Line : TimesAmong(x, sortLines) + 0 = TimesIn(x, original[sortAt])
    BY <2>1
  <2>3. \A x \in Line : TimesAmong(x, sortLines) + TimesIn(x, file'[sortAt']) = TimesIn(x, original[sortAt])
    BY <1>4, <2>2, EmptyText
  <2>4. LinesInOrder(file'[sortAt']) /\ EndsWithNewline(file'[sortAt']) /\ DOMAIN (file'[sortAt']) = {}
    BY <1>4, EmptyText
  <2>5. Ordered(sortLines) /\ strheap = {} /\ sortOut = << >>
    BY <1>1 DEF LoadOK
  <2> QED
    BY <1>2, <2>3, <2>4, <2>5 DEF LoadOK
<1>9. MergeOK'
  BY <1>3 DEF MergeOK
<1> QED
  BY <1>6, <1>7, <1>8, <1>9 DEF SortInv

LEMMA FollowsAppended ==
  ASSUME NEW text \in Text, NEW line \in Line
  PROVE  /\ text \o WithNewline(line) \in Text
         /\ Follows(text, line, text \o WithNewline(line))
         /\ EndsWithNewline(text \o WithNewline(line))
<1> DEFINE last == WithNewline(line)
           new == text \o last
<1>1. /\ Len(text) \in Nat /\ DOMAIN text = 1..Len(text)
      /\ Len(line) \in Nat /\ DOMAIN line = 1..Len(line) /\ line \in Text
  BY LineIsText, TextFacts
<1>2. /\ <<NL>> \in Text /\ Len(<<NL>>) = 1 /\ <<NL>>[1] = NL
  BY DEF Text
<1>3. /\ last \in Text /\ Len(last) = Len(line) + 1
      /\ \A k \in 1..(Len(line) + 1) : last[k] = IF k <= Len(line) THEN line[k] ELSE <<NL>>[k - Len(line)]
  <2>1. /\ line \o <<NL>> \in Text /\ Len(line \o <<NL>>) = Len(line) + Len(<<NL>>)
        /\ \A k \in 1..(Len(line) + Len(<<NL>>)) :
             (line \o <<NL>>)[k] = IF k <= Len(line) THEN line[k] ELSE <<NL>>[k - Len(line)]
    BY <1>1, <1>2, ConcatProperties DEF Text
  <2> QED
    BY <1>2, <2>1 DEF WithNewline
<1> HIDE DEF last
<1>4. /\ new \in Text /\ Len(new) = Len(text) + Len(last)
      /\ \A k \in 1..(Len(text) + Len(last)) : new[k] = IF k <= Len(text) THEN text[k] ELSE last[k - Len(text)]
  <2>1. text \in Seq(Letters \union {NL}) /\ last \in Seq(Letters \union {NL})
    BY <1>3 DEF Text
  <2>2. /\ new \in Seq(Letters \union {NL}) /\ Len(new) = Len(text) + Len(last)
        /\ \A k \in 1..(Len(text) + Len(last)) : new[k] = IF k <= Len(text) THEN text[k] ELSE last[k - Len(text)]
    BY <2>1, ConcatProperties
  <2> QED
    BY <2>2 DEF Text
<1> HIDE DEF new
<1>5. Len(new) = Len(text) + Len(line) + 1
  BY <1>1, <1>3, <1>4
<1>6. ASSUME NEW k \in DOMAIN text PROVE new[k] = text[k]
  <2>1. k \in 1..(Len(text) + Len(last)) /\ k <= Len(text)
    BY <1>1, <1>3
  <2> QED
    BY <1>4, <2>1
<1>7. ASSUME NEW k \in 1..(Len(line) + 1) PROVE new[Len(text) + k] = last[k]
  <2>1. PICK j : j = Len(text) + k
    OBVIOUS
  <2>2. j \in 1..(Len(text) + Len(last)) /\ ~(j <= Len(text)) /\ j - Len(text) = k
    BY <1>1, <1>3, <2>1
  <2> QED
    BY <1>4, <2>1, <2>2
<1>8. ASSUME NEW k \in DOMAIN line PROVE new[Len(text) + k] = line[k]
  <2>1. k \in 1..(Len(line) + 1) /\ k <= Len(line)
    BY <1>1
  <2> QED
    BY <1>3, <1>7, <2>1
<1>9. new[Len(text) + Len(line) + 1] = NL
  <2>1. /\ Len(line) + 1 \in 1..(Len(line) + 1) /\ ~(Len(line) + 1 <= Len(line))
        /\ Len(line) + 1 - Len(line) = 1 /\ Len(text) + (Len(line) + 1) = Len(text) + Len(line) + 1
    BY <1>1
  <2>2. new[Len(text) + (Len(line) + 1)] = last[Len(line) + 1]
    BY <1>7, <2>1
  <2>3. last[Len(line) + 1] = NL
    BY <1>2, <1>3, <2>1
  <2> QED
    BY <2>1, <2>2, <2>3
<1>10. Follows(text, line, new)
  BY <1>5, <1>6, <1>8, <1>9 DEF Follows
<1>11. EndsWithNewline(new)
  BY <1>5, <1>9 DEF EndsWithNewline
<1>12. new \in Text
  BY <1>4
<1> QED
  BY <1>10, <1>11, <1>12 DEF new, last

\* The lines in memory without the first.
LEMMA RestOfLines ==
  ASSUME NEW ss \in Seq(Line), ss # << >>
  PROVE  /\ Head(ss) \in Line /\ Head(ss) = ss[1] /\ 1 \in DOMAIN ss /\ Tail(ss) \in Seq(Line)
         /\ \A k \in DOMAIN Tail(ss) : k + 1 \in DOMAIN ss /\ Tail(ss)[k] = ss[k + 1] /\ 1 < k + 1
         /\ Ordered(ss) => Ordered(Tail(ss))
<1>1. /\ Head(ss) \in Line /\ Head(ss) = ss[1] /\ Tail(ss) \in Seq(Line)
      /\ Len(Tail(ss)) = Len(ss) - 1 /\ DOMAIN Tail(ss) = 1..Len(Tail(ss))
      /\ DOMAIN ss = 1..Len(ss) /\ Len(ss) \in Nat /\ Len(ss) # 0
      /\ \A k \in 1..Len(Tail(ss)) : Tail(ss)[k] = ss[k + 1]
  BY HeadTailProperties, LenProperties, EmptySeq
<1>2. 1 \in DOMAIN ss
  BY <1>1
<1>3. \A k \in DOMAIN Tail(ss) : k + 1 \in DOMAIN ss /\ 1 < k + 1 /\ k \in Nat
  BY <1>1
<1>4. ASSUME Ordered(ss) PROVE Ordered(Tail(ss))
  <2> SUFFICES ASSUME NEW i \in DOMAIN Tail(ss), NEW j \in DOMAIN Tail(ss), i < j
               PROVE  LessOrEqual(Tail(ss)[i], Tail(ss)[j])
    BY DEF Ordered
  <2>1. i + 1 < j + 1 /\ i + 1 \in DOMAIN ss /\ j + 1 \in DOMAIN ss
    BY <1>3
  <2>2. LessOrEqual(ss[i + 1], ss[j + 1])
    BY <1>4, <2>1 DEF Ordered
  <2> QED
    BY <1>1, <2>2
<1> QED
  BY <1>1, <1>2, <1>3, <1>4

\* Writing back: the file and what is left in memory are its lines, in order.
LEMMA WriteLine == SortInv /\ WriteBack /\ sortLines # << >> => SortInv'
<1> SUFFICES ASSUME SortInv, WriteBack, sortLines # << >> PROVE SortInv'
  OBVIOUS
<1>1. /\ SortTypes /\ Loading /\ ~Merging /\ ~Reading /\ sortAt \in SortFiles /\ sorting = "write"
      /\ LoadOK /\ \A f \in SortFiles : FileOK(f)
  BY DEF SortInv, SortTypes, Reading, Loading, Merging, WriteBack
<1>2. PICK text, line, new, more :
        text = file[sortAt] /\ line = Head(sortLines) /\ new = text \o WithNewline(line) /\ more = Tail(sortLines)
  OBVIOUS
<1>3. /\ file' = [file EXCEPT ![sortAt] = new] /\ sortLines' = more
      /\ UNCHANGED <<original, reader, sb, sortAt, sorting, strheap, sortOut>>
  BY <1>2 DEF WriteBack
<1>4. text \in Text /\ sortLines \in Seq(Line) /\ file \in [SortFiles -> Text]
  BY <1>1, <1>2 DEF SortTypes
<1>5. /\ line \in Line /\ line = sortLines[1] /\ 1 \in DOMAIN sortLines /\ more \in Seq(Line)
      /\ \A k \in DOMAIN more : k + 1 \in DOMAIN sortLines /\ more[k] = sortLines[k + 1] /\ 1 < k + 1
      /\ Ordered(sortLines) => Ordered(more)
  BY <1>2, <1>4, RestOfLines
<1>6. new \in Text /\ Follows(text, line, new) /\ EndsWithNewline(new)
  BY <1>2, <1>4, <1>5, FollowsAppended
<1>7. /\ Ordered(sortLines) /\ LinesInOrder(text) /\ EndsWithNewline(text)
      /\ \A x \in Line : TimesAmong(x, sortLines) + TimesIn(x, text) = TimesIn(x, original[sortAt])
      /\ \A k \in DOMAIN sortLines, p \in DOMAIN text, x \in Line :
           StandsAt(x, text, p) => LessOrEqual(x, sortLines[k])
      /\ strheap = {} /\ sortOut = << >>
  BY <1>1, <1>2 DEF LoadOK
<1>8. /\ file' \in [SortFiles -> Text] /\ file'[sortAt] = new
      /\ \A f \in SortFiles : f # sortAt => file'[f] = file[f]
  BY <1>1, <1>3, <1>4, <1>6
<1>9. \A f \in SortFiles : Pending(f)' = Pending(f)
  BY <1>3 DEF Pending, Unread
<1>10. Loading' /\ ~Merging' /\ ~Reading'
  BY <1>1, <1>3 DEF Loading, Merging, Reading
<1>11. SortTypes'
  BY <1>1, <1>3, <1>5, <1>8, <1>10 DEF SortTypes
<1>12. ASSUME NEW f \in SortFiles PROVE FileOK(f)'
  <2>1. FileOK(f) /\ f \in Int /\ sortAt \in Int
    BY <1>1, SortAssumption DEF SortFiles
  <2>2. f > sortAt \/ f < sortAt => file'[f] = file[f] /\ Pending(f)' = Pending(f)
    BY <1>8, <1>9, <2>1
  <2> QED
    BY <1>1, <1>3, <1>10, <2>1, <2>2 DEF FileOK
<1>13. /\ LinesInOrder(new)
       /\ \A p \in DOMAIN new, x \in Line : StandsAt(x, new, p) =>
            x = line \/ \E q \in DOMAIN text : StandsAt(x, text, q)
  <2>1. \A p \in DOMAIN text, x \in Line : StandsAt(x, text, p) => LessOrEqual(x, line)
    BY <1>5, <1>7
  <2> QED
    BY <1>4, <1>5, <1>6, <1>7, <2>1, OrderFollows
<1>14. ASSUME NEW x \in Line
       PROVE  TimesAmong(x, more) + TimesIn(x, new) = TimesIn(x, original[sortAt])
  <2>1. TimesIn(x, new) = Once(x = line) + TimesIn(x, text)
    BY <1>4, <1>5, <1>6, <1>7, TimesInFollows
  <2>2. TimesAmong(x, sortLines) = Once(x = line) + TimesAmong(x, more)
    BY <1>2, <1>4, AmongTail
  <2>3. TimesIn(x, text) \in Nat /\ TimesAmong(x, more) \in Nat /\ Once(x = line) \in Nat
    BY <1>4, <1>5, StandsFinite, AmongFinite DEF Once
  <2>4. TimesAmong(x, sortLines) + TimesIn(x, text) = TimesIn(x, original[sortAt])
    BY <1>7
  <2> QED
    BY <2>1, <2>2, <2>3, <2>4
<1>15. ASSUME NEW k \in DOMAIN more, NEW p \in DOMAIN new, NEW x \in Line, StandsAt(x, new, p)
       PROVE  LessOrEqual(x, more[k])
  <2>1. CASE x = line
    BY <1>5, <1>7, <2>1 DEF Ordered
  <2>2. CASE \E q \in DOMAIN text : StandsAt(x, text, q)
    BY <1>5, <1>7, <2>2
  <2> QED
    BY <1>13, <1>15, <2>1, <2>2
<1>16. LoadOK'
  BY <1>1, <1>3, <1>5, <1>6, <1>7, <1>8, <1>13, <1>14, <1>15 DEF LoadOK
<1>17. MergeOK'
  BY <1>10 DEF MergeOK
<1> QED
  BY <1>11, <1>12, <1>16, <1>17 DEF SortInv

\* The file is written: its reader begins anew, and the next file or the merge.
LEMMA FileWritten == SortInv /\ WriteBack /\ sortLines = << >> => SortInv'
<1> SUFFICES ASSUME SortInv, WriteBack, sortLines = << >> PROVE SortInv'
  OBVIOUS
<1>1. /\ SortTypes /\ Loading /\ ~Merging /\ ~Reading /\ sortAt \in SortFiles /\ sorting = "write"
      /\ LoadOK /\ \A f \in SortFiles : FileOK(f)
  BY DEF SortInv, SortTypes, Reading, Loading, Merging, WriteBack
<1>2. /\ reader' = [reader EXCEPT ![sortAt] = NewReader(file[sortAt])]
      /\ sortAt' = IF sortAt < NumFiles THEN sortAt + 1 ELSE 1
      /\ sorting' = IF sortAt < NumFiles THEN "load" ELSE "first"
      /\ UNCHANGED <<original, file, sb, sortLines, strheap, sortOut>>
  BY DEF WriteBack
<1>3. /\ reader \in [SortFiles -> LineReader] /\ file \in [SortFiles -> Text]
      /\ original \in [SortFiles -> Text] /\ sb = << >>
  BY <1>1 DEF SortTypes
<1>4. /\ NumFiles \in Nat /\ SortFiles = 1..NumFiles /\ sortAt' \in SortFiles
      /\ \A f \in SortFiles : f \in Nat
  BY <1>1, <1>2, SortAssumption DEF SortFiles
<1>5. reader' \in [SortFiles -> LineReader]
  <2>1. NewReader(file[sortAt]) \in LineReader
    BY <1>1, <1>3, FreshReader
  <2> QED
    BY <1>2, <1>3, <2>1
<1>6. SortTypes'
  BY <1>1, <1>2, <1>3, <1>4, <1>5 DEF SortTypes, Loading, Reading
<1>7. \A f \in SortFiles : Pending(f)' = IF f = sortAt THEN file[f] ELSE Pending(f)
  <2> SUFFICES ASSUME NEW f \in SortFiles
               PROVE  Pending(f)' = IF f = sortAt THEN file[f] ELSE Pending(f)
    OBVIOUS
  <2>1. Pending(f) = Unread(f)
    BY <1>1, <1>3, PendingText
  <2>2. Unread(f)' = IF f = sortAt THEN file[f] ELSE Unread(f)
    <3>1. CASE f = sortAt
      <4>1. reader'[f] = NewReader(file[f])
        BY <1>1, <1>2, <1>3, <3>1
      <4>2. NewReader(file[f]).buf \o NewReader(file[f]).rest = file[f]
        BY <1>3, FreshReader
      <4> QED
        BY <3>1, <4>1, <4>2 DEF Unread
    <3>2. CASE f # sortAt
      BY <1>2, <1>3, <3>2 DEF Unread
    <3> QED
      BY <3>1, <3>2
  <2>3. Pending(f)' = Unread(f)'
    <3>1. reader'[f].buf \in Text /\ reader'[f].rest \in Text
      BY <1>5 DEF LineReader
    <3>2. Unread(f)' \in Text
      BY <3>1, ConcatProperties DEF Unread, Text
    <3>3. << >> \o Unread(f)' = Unread(f)'
      BY <3>2, ConcatEmptySeq DEF Text
    <3> QED
      BY <1>2, <1>3, <3>3 DEF Pending
  <2> QED
    BY <2>1, <2>2, <2>3
<1>8. AlikeIn(file[sortAt], original[sortAt]) /\ LinesInOrder(file[sortAt])
  <2>1. \A x \in Line : 0 + TimesIn(x, file[sortAt]) = TimesIn(x, original[sortAt])
    BY <1>1, EmptyText DEF LoadOK
  <2>2. \A x \in Line : TimesIn(x, file[sortAt]) \in Nat
    BY <1>1, <1>3, StandsFinite
  <2>3. \A x \in Line : TimesIn(x, file[sortAt]) = TimesIn(x, original[sortAt])
    BY <2>1, <2>2
  <2> QED
    BY <1>1, <2>3 DEF LoadOK, AlikeIn
<1>9. strheap = {} /\ sortOut = << >>
  BY <1>1 DEF LoadOK
<1>10. CASE sortAt < NumFiles
  <2>1. sorting' = "load" /\ sortAt' = sortAt + 1 /\ Loading' /\ ~Merging'
    BY <1>2, <1>10 DEF Loading, Merging
  <2>2. ASSUME NEW f \in SortFiles PROVE FileOK(f)'
    <3>1. FileOK(f) /\ f \in Int /\ sortAt \in Int
      BY <1>1, <1>4
    <3>2. CASE f > sortAt
      <4>1. file[f] = original[f] /\ Pending(f) = original[f] /\ f # sortAt /\ ~(f < sortAt + 1)
        BY <1>1, <3>1, <3>2 DEF FileOK
      <4> QED
        BY <1>2, <1>7, <2>1, <4>1 DEF FileOK
    <3>3. CASE f = sortAt
      <4>1. ~(f > sortAt + 1) /\ f # sortAt + 1
        BY <3>1, <3>3
      <4> QED
        BY <1>2, <1>7, <1>8, <2>1, <3>3, <4>1 DEF FileOK
    <3>4. CASE f < sortAt
      <4>1. AlikeIn(file[f], original[f]) /\ Pending(f) = file[f] /\ LinesInOrder(file[f]) /\ f # sortAt
        BY <1>1, <3>1, <3>4 DEF FileOK
      <4>2. ~(f > sortAt + 1) /\ f # sortAt + 1
        BY <3>1, <3>4
      <4> QED
        BY <1>2, <1>7, <2>1, <4>1, <4>2 DEF FileOK
    <3> QED
      BY <3>1, <3>2, <3>3, <3>4
  <2>3. LoadOK'
    <3>1. PICK j \in SortFiles : j = sortAt + 1 /\ j > sortAt /\ j # sortAt
      BY <1>4, <1>10, <1>1
    <3>2. Pending(j)' = original[j]
      BY <1>1, <1>7, <3>1 DEF FileOK
    <3>3. \A x \in Line : TimesIn(x, original[j]) \in Nat
      BY <1>3, StandsFinite
    <3>4. \A x \in Line : 0 + TimesIn(x, Pending(j)') = TimesIn(x, original[j])
      BY <3>2, <3>3
    <3>5. \A x \in Line : TimesAmong(x, sortLines') = 0
      BY <1>2, EmptyText
    <3>6. sortAt' = j
      BY <2>1, <3>1
    <3> QED
      BY <1>2, <1>9, <2>1, <3>4, <3>5, <3>6 DEF LoadOK, Pending
  <2>4. MergeOK'
    BY <2>1 DEF MergeOK
  <2> QED
    BY <1>6, <2>2, <2>3, <2>4 DEF SortInv
<1>11. CASE ~(sortAt < NumFiles)
  <2>1. /\ sorting' = "first" /\ sortAt' = 1 /\ ~Loading' /\ Merging' /\ sortAt = NumFiles
        /\ \A f \in SortFiles : f = sortAt \/ f < sortAt
    BY <1>1, <1>2, <1>4, <1>11 DEF Loading, Merging
  <2>2. \A f \in SortFiles : AlikeIn(file[f], original[f]) /\ LinesInOrder(file[f]) /\ Pending(f)' = file[f]
    BY <1>1, <1>7, <1>8, <2>1 DEF FileOK
  <2>3. \A f \in SortFiles : FileOK(f)'
    BY <1>2, <2>1, <2>2 DEF FileOK
  <2>4. LoadOK'
    BY <2>1 DEF LoadOK
  <2>5. \A f \in SortFiles : Asked(f)'
    BY <1>4, <2>1 DEF Asked
  <2>6. HeapOK'
    BY <1>2, <1>9, <2>1, <2>5 DEF HeapOK
  <2>7. ASSUME NEW x \in Line
        PROVE  SumFunctionOnSet(TimesInFiles(x), SortFiles)
                 = 0 + SumFunctionOnSet(LeftOf(x)', SortFiles)
    <3>1. \A f \in SortFiles : TimesIn(x, original[f]) \in Nat /\ TimesIn(x, file[f]) = TimesIn(x, original[f])
      BY <1>3, <2>2, StandsFinite DEF AlikeIn
    <3>2. \A f \in SortFiles : InHeap(x, f)' + TimesIn(x, Pending(f)') = TimesIn(x, original[f])
      BY <1>2, <1>9, <2>2, <3>1 DEF InHeap
    <3>3. LeftOf(x)' = TimesInFiles(x)
      BY <3>2 DEF LeftOf, TimesInFiles
    <3>4. IsFiniteSet(SortFiles)
      BY <1>4, FS_Interval
    <3>5. \A f \in SortFiles : TimesInFiles(x)[f] \in Nat
      BY <3>1 DEF TimesInFiles
    <3>6. SumFunctionOnSet(TimesInFiles(x), SortFiles) \in Nat
      BY <3>4, <3>5, SumNat
    <3> QED
      BY <3>3, <3>6
  <2>8. OutOK'
    <3>1. sortOut' = << >> /\ Ordered(sortOut') /\ DOMAIN (sortOut') = {}
      BY <1>2, <1>9 DEF Ordered
    <3>2. \A x \in Line : TimesInFiles(x)' = TimesInFiles(x) /\ TimesAmong(x, sortOut') = 0
      BY <1>2, <3>1, EmptyText DEF TimesInFiles
    <3> QED
      BY <2>7, <3>1, <3>2 DEF OutOK
  <2>9. MergeOK'
    BY <2>2, <2>6, <2>8 DEF MergeOK
  <2> QED
    BY <1>6, <2>3, <2>4, <2>9 DEF SortInv
<1> QED
  BY <1>10, <1>11

\* The merge is over when no reader has anything left.
LEMMA MergeEnds == SortInv /\ PopAndWrite /\ strheap = {} => SortInv'
<1> SUFFICES ASSUME SortInv, PopAndWrite, strheap = {} PROVE SortInv'
  OBVIOUS
<1>1. /\ SortTypes /\ Merging /\ ~Loading /\ sorting = "pop" /\ MergeOK
      /\ \A f \in SortFiles : FileOK(f)
  BY DEF SortInv, SortTypes, Reading, Loading, Merging, PopAndWrite
<1>2. sorting' = "done" /\ UNCHANGED <<original, file, reader, sb, sortAt, sortLines, strheap, sortOut>>
  BY DEF PopAndWrite
<1>3. Merging' /\ ~Loading' /\ ~Reading'
  BY <1>2 DEF Merging, Loading, Reading
<1>4. \A f \in SortFiles : Pending(f)' = Pending(f)
  BY <1>2 DEF Pending, Unread
<1>5. SortTypes'
  BY <1>1, <1>2, <1>3 DEF SortTypes, Reading
<1>6. \A f \in SortFiles : FileOK(f)'
  BY <1>1, <1>2, <1>3 DEF FileOK
<1>7. LoadOK'
  BY <1>2, <1>3 DEF LoadOK
<1>8. HeapOK'
  <2>1. \A f \in SortFiles : Pending(f)' = << >>
    BY <1>1, <1>4 DEF MergeOK, HeapOK, Asked
  <2> QED
    BY <1>2, <2>1 DEF HeapOK
<1>9. OutOK'
  <2>1. \A x \in Line : LeftOf(x)' = LeftOf(x) /\ TimesInFiles(x)' = TimesInFiles(x)
    BY <1>2, <1>4 DEF LeftOf, TimesInFiles, InHeap
  <2> QED
    BY <1>1, <1>2, <1>4, <2>1 DEF MergeOK, OutOK
<1>10. MergeOK'
  BY <1>1, <1>4, <1>8, <1>9 DEF MergeOK
<1> QED
  BY <1>5, <1>6, <1>7, <1>10 DEF SortInv

\* The smallest line of the heap is the smallest of all that are left.
LEMMA PopKeeps == SortInv /\ PopAndWrite /\ strheap # {} => SortInv'
<1> SUFFICES ASSUME SortInv, PopAndWrite, strheap # {} PROVE SortInv'
  OBVIOUS
<1>1. /\ SortTypes /\ Merging /\ ~Loading /\ ~Reading /\ sorting = "pop" /\ MergeOK
      /\ \A f \in SortFiles : FileOK(f)
  BY DEF SortInv, SortTypes, Reading, Loading, Merging, PopAndWrite
<1>2. PICK top \in strheap :
        /\ \A node \in strheap : LessOrEqual(top.str, node.str)
        /\ strheap' = strheap \ {top}
        /\ sortOut' = Append(sortOut, top.str)
        /\ sortAt' = top.ind
        /\ sorting' = "merge"
  BY DEF PopAndWrite
<1>3. UNCHANGED <<original, file, reader, sb, sortLines>>
  BY DEF PopAndWrite
<1>4. PICK i, str : i = top.ind /\ str = top.str
  OBVIOUS
<1>5. /\ i \in SortFiles /\ str \in Line /\ top = [str |-> str, ind |-> i]
      /\ \A n \in strheap : n \in HeapNode /\ n.ind \in SortFiles /\ n.str \in Line
      /\ sortOut \in Seq(Line) /\ sb = << >>
  BY <1>1, <1>4 DEF SortTypes, HeapNode
<1>6. Merging' /\ ~Loading' /\ Reading' /\ sorting' # "failed"
  BY <1>2 DEF Merging, Loading, Reading
<1>7. \A f \in SortFiles : Pending(f)' = Pending(f) /\ Pending(f) \in Text
  BY <1>1, <1>3, <1>5, PendingText DEF Pending, Unread
<1>8. /\ sortOut' \in Seq(Line) /\ DOMAIN sortOut' = 1..(Len(sortOut) + 1)
      /\ \A k \in 1..Len(sortOut) : sortOut'[k] = sortOut[k]
      /\ sortOut'[Len(sortOut) + 1] = str
      /\ DOMAIN sortOut = 1..Len(sortOut) /\ Len(sortOut) \in Nat
  BY <1>2, <1>4, <1>5, AppendProperties, LenProperties
<1>9. SortTypes'
  <2>1. i \in Nat
    BY <1>5, SortAssumption DEF SortFiles
  <2> QED
    BY <1>1, <1>2, <1>3, <1>4, <1>5, <1>6, <1>8, <2>1 DEF SortTypes
<1>10. \A f \in SortFiles : FileOK(f)'
  BY <1>1, <1>3, <1>6 DEF FileOK
<1>11. LoadOK'
  BY <1>2, <1>6 DEF LoadOK
<1>12. /\ \A m, n \in strheap : m.ind = n.ind => m = n
       /\ \A n \in strheap : Below(n.str, Pending(n.ind))
       /\ \A f \in SortFiles : Pending(f) = << >> \/ \E n \in strheap : n.ind = f
  BY <1>1 DEF MergeOK, HeapOK, Asked
<1>13. HeapOK'
  <2>1. \A f \in SortFiles : Asked(f)' <=> f = i
    BY <1>2, <1>4 DEF Asked
  <2>2. \A n \in strheap' : n \in strheap /\ n.ind # i
    BY <1>2, <1>4, <1>12
  <2>3. \A m, n \in strheap' : m.ind = n.ind => m = n
    BY <1>2, <1>12
  <2>4. \A n \in strheap' : ~Asked(n.ind)' /\ Below(n.str, Pending(n.ind)')
    BY <1>5, <1>7, <1>12, <2>1, <2>2
  <2>5. \A f \in SortFiles : Asked(f)' \/ Pending(f)' = << >> \/ \E n \in strheap' : n.ind = f
    BY <1>2, <1>4, <1>7, <1>12, <2>1
  <2> QED
    BY <1>2, <2>3, <2>4, <2>5 DEF HeapOK
<1>14. /\ Ordered(sortOut)
       /\ \A k \in DOMAIN sortOut : /\ \A n \in strheap : LessOrEqual(sortOut[k], n.str)
                                    /\ \A f \in SortFiles : Below(sortOut[k], Pending(f))
  BY <1>1 DEF MergeOK, OutOK
<1>15. \A f \in SortFiles : Below(str, Pending(f))
  <2> SUFFICES ASSUME NEW f \in SortFiles PROVE Below(str, Pending(f))
    OBVIOUS
  <2>1. CASE Pending(f) = << >>
    BY <2>1, EmptyText
  <2>2. CASE \E n \in strheap : n.ind = f
    <3>1. PICK n \in strheap : n.ind = f
      BY <2>2
    <3>2. Below(n.str, Pending(f)) /\ LessOrEqual(str, n.str) /\ n.str \in Line
      BY <1>2, <1>4, <1>5, <1>12, <3>1
    <3> QED
      BY <1>5, <3>2, BelowTransitive
  <2> QED
    BY <1>12, <2>1, <2>2
<1>16. Ordered(sortOut')
  <2> SUFFICES ASSUME NEW k \in DOMAIN sortOut', NEW m \in DOMAIN sortOut', k < m
               PROVE  LessOrEqual(sortOut'[k], sortOut'[m])
    BY DEF Ordered
  <2>1. k \in 1..Len(sortOut)
    BY <1>8
  <2>2. CASE m \in 1..Len(sortOut)
    BY <1>8, <1>14, <2>1, <2>2 DEF Ordered
  <2>3. CASE m = Len(sortOut) + 1
    BY <1>4, <1>8, <1>14, <2>1, <2>3
  <2> QED
    BY <1>8, <2>2, <2>3
<1>17. ASSUME NEW k \in DOMAIN sortOut'
       PROVE  /\ \A n \in strheap' : LessOrEqual(sortOut'[k], n.str)
              /\ \A f \in SortFiles : Below(sortOut'[k], Pending(f)')
  <2>1. CASE k \in 1..Len(sortOut)
    BY <1>2, <1>7, <1>8, <1>14, <2>1
  <2>2. CASE k = Len(sortOut) + 1
    BY <1>2, <1>4, <1>7, <1>8, <1>15, <2>2
  <2> QED
    BY <1>8, <2>1, <2>2
<1>18. ASSUME NEW x \in Line
       PROVE  SumFunctionOnSet(TimesInFiles(x)', SortFiles)
                = TimesAmong(x, sortOut') + SumFunctionOnSet(LeftOf(x)', SortFiles)
  <2>1. TimesInFiles(x)' = TimesInFiles(x)
    BY <1>3 DEF TimesInFiles
  <2>2. SumFunctionOnSet(TimesInFiles(x), SortFiles)
          = TimesAmong(x, sortOut) + SumFunctionOnSet(LeftOf(x), SortFiles)
    BY <1>1 DEF MergeOK, OutOK
  <2>3. TimesAmong(x, sortOut') = Once(x = str) + TimesAmong(x, sortOut) /\ TimesAmong(x, sortOut) \in Nat
    <3>1. sortOut' = Append(sortOut, str)
      BY <1>2, <1>4
    <3>2. TimesAmong(x, Append(sortOut, str)) = Once(x = str) + TimesAmong(x, sortOut)
      <4>1. sortOut \in Seq(Line) /\ str \in Line
        BY <1>5
      <4>2. \A z : TimesAmong(z, Append(sortOut, str)) = Once(z = str) + TimesAmong(z, sortOut)
        BY <4>1, AmongAppended, Zenon
      <4> QED
        BY <4>2
    <3>3. TimesAmong(x, sortOut) \in Nat
      BY <1>5, AmongFinite
    <3> QED
      BY <3>1, <3>2, <3>3
  <2>4. \A f \in SortFiles : TimesIn(x, Pending(f)) \in Nat
    BY <1>7, StandsFinite
  <2>5. LeftOf(x) \in [SortFiles -> Int] /\ LeftOf(x)' \in [SortFiles -> Int]
    <3>1. \A f \in SortFiles : InHeap(x, f) \in {0, 1} /\ InHeap(x, f)' \in {0, 1}
      BY DEF InHeap
    <3>2. \A f \in SortFiles : /\ InHeap(x, f) + TimesIn(x, Pending(f)) \in Int
                               /\ InHeap(x, f)' + TimesIn(x, Pending(f)') \in Int
      BY <1>7, <2>4, <3>1
    <3> QED
      BY <3>2 DEF LeftOf
  <2>6. \A f \in SortFiles : f # i => LeftOf(x)[f] = LeftOf(x)'[f]
    <3> SUFFICES ASSUME NEW f \in SortFiles, f # i PROVE LeftOf(x)[f] = LeftOf(x)'[f]
      OBVIOUS
    <3>1. [str |-> x, ind |-> f] # top
      BY <1>4
    <3>2. InHeap(x, f)' = InHeap(x, f)
      BY <1>2, <3>1 DEF InHeap
    <3> QED
      BY <1>7, <3>2 DEF LeftOf
  <2>7. InHeap(x, i) = Once(x = str) /\ InHeap(x, i)' = 0
    <3>1. [str |-> x, ind |-> i] \in strheap => x = str
      <4>1. [str |-> x, ind |-> i].ind = top.ind /\ [str |-> x, ind |-> i].str = x
        BY <1>4
      <4> QED
        BY <1>4, <1>12, <4>1
    <3>2. x = str => [str |-> x, ind |-> i] = top /\ [str |-> x, ind |-> i] \in strheap
      BY <1>5
    <3>3. [str |-> x, ind |-> i] \notin strheap'
      BY <1>2, <3>1, <3>2
    <3>4. [str |-> x, ind |-> i] \in strheap <=> x = str
      BY <3>1, <3>2
    <3>5. InHeap(x, i) = Once(x = str)
      BY <3>4 DEF InHeap, Once
    <3> QED
      BY <3>3, <3>5 DEF InHeap
  <2>8. LeftOf(x)'[i] = TimesIn(x, Pending(i)) /\ LeftOf(x)[i] = Once(x = str) + TimesIn(x, Pending(i))
    <3>1. LeftOf(x)'[i] = 0 + TimesIn(x, Pending(i))
      BY <1>5, <1>7, <2>7 DEF LeftOf
    <3>2. TimesIn(x, Pending(i)) \in Nat
      BY <1>5, <2>4
    <3> QED
      BY <1>5, <2>7, <3>1, <3>2 DEF LeftOf
  <2>9. IsFiniteSet(SortFiles)
    BY SortAssumption, FS_Interval DEF SortFiles
  <2>10. SumFunctionOnSet(LeftOf(x)', SortFiles)
           = SumFunctionOnSet(LeftOf(x), SortFiles) + LeftOf(x)'[i] - LeftOf(x)[i]
    <3>1. PICK f, g : f = LeftOf(x) /\ g = LeftOf(x)'
      OBVIOUS
    <3>2. /\ f \in [SortFiles -> Int] /\ g \in [SortFiles -> Int] /\ i \in SortFiles
          /\ \A n \in SortFiles : n # i => f[n] = g[n]
      BY <1>5, <2>5, <2>6, <3>1
    <3>3. SumFunctionOnSet(g, SortFiles) = SumFunctionOnSet(f, SortFiles) + g[i] - f[i]
      BY <2>9, <3>2, SumChange, SMTT(30)
    <3> QED
      BY <3>1, <3>3
  <2>11. SumFunctionOnSet(LeftOf(x), SortFiles) \in Int
    BY <2>5, <2>9, SumInt
  <2>12. ASSUME NEW all, NEW out, NEW was \in Int, NEW now, NEW among \in Nat, NEW one \in Nat, NEW left \in Nat,
                all = among + was, now = was + left - (one + left), out = one + among
         PROVE  all = out + now
    BY <2>12
  <2>13. Once(x = str) \in Nat /\ TimesIn(x, Pending(i)) \in Nat
    BY <1>5, <2>4 DEF Once
  <2> QED
    BY <2>1, <2>2, <2>3, <2>8, <2>10, <2>11, <2>12, <2>13
<1>19. OutOK'
  BY <1>16, <1>17, <1>18 DEF OutOK
<1>20. MergeOK'
  BY <1>1, <1>7, <1>13, <1>19 DEF MergeOK
<1> QED
  BY <1>9, <1>10, <1>11, <1>20 DEF SortInv

\* An error leaves the files as they are.
LEMMA FailureKeeps == SortInv /\ IOFails => SortInv'
<1> SUFFICES ASSUME SortInv, IOFails PROVE SortInv'
  OBVIOUS
<1>1. /\ SortTypes /\ sorting # "failed" /\ (Loading \/ Merging)
      /\ \A f \in SortFiles : FileOK(f)
  BY DEF SortInv, SortTypes, Loading, Merging, IOFails
<1>2. sorting' = "failed" /\ UNCHANGED <<original, file, reader, sb, sortAt, sortLines, strheap, sortOut>>
  BY DEF IOFails
<1>3. ~Merging' /\ ~Loading' /\ ~Reading'
  BY <1>2 DEF Merging, Loading, Reading
<1>4. SortTypes'
  BY <1>1, <1>2, <1>3 DEF SortTypes
<1>5. ASSUME NEW f \in SortFiles PROVE FileOK(f)'
  <2>1. FileOK(f) /\ f \in Int
    BY <1>1, SortAssumption DEF SortFiles
  <2>2. f # sortAt => AlikeIn(file[f], original[f])
    <3> SUFFICES ASSUME f # sortAt PROVE AlikeIn(file[f], original[f])
      OBVIOUS
    <3>1. CASE Merging
      BY <2>1, <3>1 DEF FileOK
    <3>2. CASE Loading
      <4>1. sortAt \in Int /\ (f < sortAt \/ f > sortAt)
        BY <1>1, <2>1 DEF SortTypes
      <4>2. CASE f < sortAt
        BY <2>1, <3>2, <4>2 DEF FileOK
      <4>3. CASE f > sortAt
        BY <2>1, <3>2, <4>3 DEF FileOK, AlikeIn
      <4> QED
        BY <4>1, <4>2, <4>3
    <3> QED
      BY <1>1, <3>1, <3>2
  <2> QED
    BY <1>2, <1>3, <2>2 DEF FileOK
<1>6. LoadOK' /\ MergeOK'
  BY <1>2, <1>3 DEF LoadOK, MergeOK
<1> QED
  BY <1>4, <1>5, <1>6 DEF SortInv

LEMMA SortStutters == SortInv /\ UNCHANGED sortVars => SortInv'
<1> SUFFICES ASSUME SortInv, UNCHANGED sortVars PROVE SortInv'
  OBVIOUS
<1>1. UNCHANGED <<original, file, reader, sb, sortAt, sorting, sortLines, strheap, sortOut>>
  BY DEF sortVars
<1>2. SortTypes' /\ Loading' = Loading /\ Merging' = Merging
  BY <1>1 DEF SortInv, SortTypes, Loading, Merging, Reading
<1>3. \A f \in SortFiles : Pending(f)' = Pending(f) /\ (Asked(f)' <=> Asked(f))
  BY <1>1 DEF Pending, Unread, Asked
<1>4. Pending(sortAt)' = Pending(sortAt)
  BY <1>1 DEF Pending, Unread
<1>5. \A f \in SortFiles : FileOK(f)'
  BY <1>1, <1>2, <1>3 DEF SortInv, FileOK
<1>6. LoadOK'
  BY <1>1, <1>2, <1>4 DEF SortInv, LoadOK
<1>7. ASSUME MergeOK, Merging PROVE HeapOK' /\ OutOK'
  <2>1. \A x \in Line : LeftOf(x)' = LeftOf(x) /\ TimesInFiles(x)' = TimesInFiles(x)
    BY <1>1, <1>3 DEF LeftOf, TimesInFiles, InHeap
  <2>2. \A n \in strheap : n.ind \in SortFiles
    BY DEF SortInv, SortTypes, HeapNode
  <2>3. HeapOK'
    BY <1>1, <1>3, <1>7, <2>2 DEF MergeOK, HeapOK
  <2> QED
    BY <1>1, <1>3, <1>7, <2>1, <2>3 DEF MergeOK, OutOK
<1>8. MergeOK'
  BY <1>2, <1>3, <1>7 DEF SortInv, MergeOK
<1> QED
  BY <1>2, <1>5, <1>6, <1>8 DEF SortInv

\* SortInv is inductive.
LEMMA SortStep == SortInv /\ [SortNext]_sortVars => SortInv'
<1> SUFFICES ASSUME SortInv, [SortNext]_sortVars PROVE SortInv'
  OBVIOUS
<1>1. CASE FillBuffer
  BY <1>1, FillBufferStep
<1>2. CASE ParseLine
  BY <1>2, ParseLineStep
<1>3. CASE Truncate
  BY <1>3, TruncateStep
<1>4. CASE WriteBack
  BY <1>4, WriteLine, FileWritten
<1>5. CASE PopAndWrite
  BY <1>5, MergeEnds, PopKeeps
<1>6. CASE IOFails
  BY <1>6, FailureKeeps
<1>7. CASE UNCHANGED sortVars
  BY <1>7, SortStutters
<1> QED
  BY <1>1, <1>2, <1>3, <1>4, <1>5, <1>6, <1>7 DEF SortNext

LEMMA SortInvSuffices == SortInv => SortIsRight
<1> SUFFICES ASSUME SortInv PROVE SortIsRight
  OBVIOUS
<1>1. SortTypes /\ LoadOK /\ MergeOK /\ \A f \in SortFiles : FileOK(f)
  BY DEF SortInv
<1>2. SortableLines \subseteq Line
  BY SortAssumption, SeqDef DEF SortableLines, BoundedSeq, SeqOf, Line
<1>3. ASSUME sorting = "done"
      PROVE  /\ Ordered(sortOut)
             /\ \A line \in SortableLines \union Range(sortOut) :
                  TimesAmong(line, sortOut) = TimesInAll(line, original)
  <2>1. HeapOK /\ OutOK /\ strheap = {}
    BY <1>1, <1>3 DEF MergeOK, HeapOK, Merging
  <2>2. \A f \in SortFiles : Pending(f) = << >>
    BY <1>3, <2>1 DEF HeapOK, Asked
  <2>3. sortOut \in Seq(Line)
    BY <1>1 DEF SortTypes
  <2>4. Range(sortOut) \subseteq Line
    BY <2>3, LenProperties DEF Range
  <2>5. ASSUME NEW line \in SortableLines \union Range(sortOut)
        PROVE  TimesAmong(line, sortOut) = TimesInAll(line, original)
    <3>1. line \in Line
      BY <1>2, <2>4
    <3>2. \A f \in SortFiles : LeftOf(line)[f] = 0
      <4>1. \A f \in SortFiles : InHeap(line, f) = 0 /\ TimesIn(line, Pending(f)) = 0
        BY <2>1, <2>2, EmptyText DEF InHeap
      <4>2. \A f \in SortFiles : InHeap(line, f) + TimesIn(line, Pending(f)) = 0
        BY <4>1
      <4> QED
        BY <4>2 DEF LeftOf
    <3>3. IsFiniteSet(SortFiles)
      BY SortAssumption, FS_Interval DEF SortFiles
    <3>4. SumFunctionOnSet(LeftOf(line), SortFiles) = 0
      BY <3>2, <3>3, SumZero
    <3>5. SumFunctionOnSet(TimesInFiles(line), SortFiles) = TimesAmong(line, sortOut) + 0
      BY <2>1, <3>1, <3>4 DEF OutOK
    <3>6. TimesAmong(line, sortOut) \in Nat
      BY <2>3, AmongFinite
    <3>7. TimesInAll(line, original) = SumFunctionOnSet(TimesInFiles(line), SortFiles)
      BY DEF TimesInAll, TimesInFiles
    <3> QED
      BY <3>5, <3>6, <3>7
  <2> QED
    BY <2>1, <2>5 DEF OutOK
<1>4. ASSUME NEW f \in SortFiles
      PROVE  SameLines(file[f], original[f]) \/ (f = sortAt /\ sorting \in {"write", "failed"})
  <2>1. FileOK(f) /\ f \in Int /\ sortAt \in Int
    BY <1>1, SortAssumption DEF SortFiles, SortTypes
  <2>2. AlikeIn(file[f], original[f]) => SameLines(file[f], original[f])
    BY <1>2 DEF AlikeIn, SameLines
  <2>3. CASE Merging
    BY <2>1, <2>2, <2>3 DEF FileOK
  <2>4. CASE Loading
    <3>1. CASE f < sortAt
      BY <2>1, <2>2, <2>4, <3>1 DEF FileOK
    <3>2. CASE f > sortAt \/ (f = sortAt /\ sorting # "write")
      BY <2>1, <2>4, <3>2 DEF FileOK, SameLines
    <3> QED
      BY <2>1, <3>1, <3>2
  <2>5. CASE sorting = "failed"
    BY <2>1, <2>2, <2>5 DEF FileOK
  <2>6. Merging \/ Loading \/ sorting = "failed"
    BY <1>1 DEF Merging, Loading, SortTypes
  <2> QED
    BY <2>3, <2>4, <2>5, <2>6
<1> QED
  BY <1>3, <1>4 DEF SortIsRight

\* SortIsRight, for files of any number and length, any letters and any buffer:
\* the merge gives all lines in order, and only the file that is written may
\* have lost lines.
THEOREM SortIsAlwaysRight == SortSpec => []SortIsRight
<1>1. SortInv /\ [SortNext]_sortVars => SortInv'
  BY SortStep
<1> QED
  BY SortStarts, <1>1, SortInvSuffices, PTL DEF SortSpec


---------------------------------------------------------------------------
(* lrucache: the inductive invariant.                                      *)

\* The last use of key k is the p-th.
IsLastUse(k, p) == /\ p \in DOMAIN uses /\ uses[p].key = k
                   /\ \A j \in DOMAIN uses : p < j => uses[j].key # k

LruTypes == /\ cap \in Nat /\ queue \in Seq(LruKeys)
            /\ uses \in Seq([key : LruKeys, value : LruValues])
            /\ DOMAIN elements = Range(queue)
            /\ Len(queue) <= cap

\* The list holds no key twice, in the order of the last uses, with the
\* values of these uses; what is not in it was used before all that is, and
\* only a full list lets a key go.
QueueOK ==
  /\ \A i \in DOMAIN queue : \E p : IsLastUse(queue[i], p) /\ uses[p].value = elements[queue[i]]
  /\ \A i, j \in DOMAIN queue : i < j =>
       \A p, q : IsLastUse(queue[i], p) /\ IsLastUse(queue[j], q) => p < q
  /\ \A k, p : IsLastUse(k, p) /\ k \notin Range(queue) =>
       /\ Len(queue) = cap
       /\ \A j \in DOMAIN queue : \A q : IsLastUse(queue[j], q) => p < q

LruInv == LruTypes /\ QueueOK

\* A key has one last use.
LEMMA OneLastUse ==
  ASSUME LruTypes, NEW k, NEW p, NEW q, IsLastUse(k, p), IsLastUse(k, q)
  PROVE  p = q
<1>1. DOMAIN uses = 1..Len(uses) /\ Len(uses) \in Nat
  BY LenProperties DEF LruTypes
<1> QED
  BY <1>1 DEF IsLastUse

\* Appending a use makes it the last one of its key, and no other changes.
LEMMA LastUsesAfter ==
  ASSUME LruTypes, NEW k \in LruKeys, NEW v \in LruValues,
         uses' = Append(uses, [key |-> k, value |-> v])
  PROVE  /\ uses' \in Seq([key : LruKeys, value : LruValues])
         /\ Len(uses) \in Nat
         /\ \A x, p : IsLastUse(x, p)' <=> IF x = k THEN p = Len(uses) + 1 ELSE IsLastUse(x, p)
         /\ \A x, p : IsLastUse(x, p) => p \in 1..Len(uses) /\ uses'[p] = uses[p]
         /\ uses'[Len(uses) + 1] = [key |-> k, value |-> v]
<1> DEFINE n == Len(uses)
<1>1. uses \in Seq([key : LruKeys, value : LruValues]) /\ [key |-> k, value |-> v] \in [key : LruKeys, value : LruValues]
  BY DEF LruTypes
<1>2. /\ uses' \in Seq([key : LruKeys, value : LruValues])
      /\ Len(uses') = n + 1
      /\ \A j \in 1..n : uses'[j] = uses[j]
      /\ uses'[n + 1] = [key |-> k, value |-> v]
  BY <1>1, AppendProperties
<1>3. DOMAIN uses = 1..n /\ n \in Nat /\ DOMAIN uses' = 1..(n + 1)
  BY <1>1, <1>2, LenProperties
<1>4. uses'[n + 1].key = k
  BY <1>2
<1>5. ASSUME NEW x, NEW p
      PROVE  IsLastUse(x, p)' <=> IF x = k THEN p = n + 1 ELSE IsLastUse(x, p)
  <2> HIDE DEF n
  <2>1. CASE x = k
    BY <1>3, <1>4, <2>1 DEF IsLastUse
  <2>2. CASE x # k
    BY <1>2, <1>3, <1>4, <2>2 DEF IsLastUse
  <2> QED
    BY <2>1, <2>2
<1> QED
  BY <1>2, <1>3, <1>5 DEF IsLastUse

---------------------------------------------------------------------------
(* lrucache: the list after a use.                                         *)

\* What MoveToBack leaves: the others where they were, or one place before.
LEMMA MovedToBack ==
  ASSUME NEW s \in Seq(LruKeys), NEW i \in DOMAIN s
  PROVE  /\ Append(RemoveAt(s, i), s[i]) \in Seq(LruKeys)
         /\ Len(Append(RemoveAt(s, i), s[i])) = Len(s)
         /\ \A j \in 1..(Len(s) - 1) : Append(RemoveAt(s, i), s[i])[j] = s[IF j < i THEN j ELSE j + 1]
         /\ Append(RemoveAt(s, i), s[i])[Len(s)] = s[i]
<1> DEFINE n == Len(s)
           front == SubSeq(s, 1, i - 1)
           back == SubSeq(s, i + 1, n)
<1>1. n \in Nat /\ i \in 1..n /\ s[i] \in LruKeys /\ \A j \in 1..n : s[j] \in LruKeys
  BY LenProperties, ElementOfSeq
<1>2. front \in Seq(LruKeys) /\ Len(front) = i - 1 /\ \A j \in 1..(i - 1) : front[j] = s[j]
  <2>1. 1 \in Int /\ i - 1 \in Int /\ \A j \in 1..(i - 1) : s[j] \in LruKeys
    BY <1>1
  <2>2. /\ front \in Seq(LruKeys)
        /\ Len(front) = IF 1 <= i - 1 THEN (i - 1) - 1 + 1 ELSE 0
        /\ \A j \in 1..((i - 1) - 1 + 1) : front[j] = s[1 + j - 1]
    BY <2>1, SubSeqProperties
  <2> HIDE DEF front, n
  <2> QED
    BY <1>1, <2>2
<1>3. back \in Seq(LruKeys) /\ Len(back) = n - i /\ \A j \in 1..(n - i) : back[j] = s[i + j]
  <2>1. i + 1 \in Int /\ n \in Int /\ \A j \in (i + 1)..n : s[j] \in LruKeys
    BY <1>1
  <2>2. /\ back \in Seq(LruKeys)
        /\ Len(back) = IF i + 1 <= n THEN n - (i + 1) + 1 ELSE 0
        /\ \A j \in 1..(n - (i + 1) + 1) : back[j] = s[(i + 1) + j - 1]
    BY <2>1, SubSeqProperties
  <2> HIDE DEF back, n
  <2> QED
    BY <1>1, <2>2
<1>4. RemoveAt(s, i) = front \o back
  BY DEF RemoveAt
<1> HIDE DEF front, back, n
<1>5. /\ RemoveAt(s, i) \in Seq(LruKeys)
      /\ Len(RemoveAt(s, i)) = n - 1
      /\ \A j \in 1..(n - 1) : RemoveAt(s, i)[j] = s[IF j < i THEN j ELSE j + 1]
  <2>1. /\ front \o back \in Seq(LruKeys)
        /\ Len(front \o back) = Len(front) + Len(back)
        /\ \A j \in 1..(Len(front) + Len(back)) :
             (front \o back)[j] = IF j <= Len(front) THEN front[j] ELSE back[j - Len(front)]
    BY <1>2, <1>3, ConcatProperties
  <2>2. Len(front) + Len(back) = n - 1
    BY <1>1, <1>2, <1>3
  <2>3. ASSUME NEW j \in 1..(n - 1)
        PROVE  (front \o back)[j] = s[IF j < i THEN j ELSE j + 1]
    <3>1. CASE j < i
      BY <1>1, <1>2, <2>1, <2>2, <3>1
    <3>2. CASE ~ (j < i)
      <4>1. j - Len(front) \in 1..(n - i) /\ i + (j - Len(front)) = j + 1
        BY <1>1, <1>2, <3>2
      <4>2. (front \o back)[j] = back[j - Len(front)]
        <5>1. j \in 1..(Len(front) + Len(back))
          BY <2>2
        <5>2. ~ (j <= Len(front))
          BY <1>1, <1>2, <3>2
        <5> QED
          BY <2>1, <5>1, <5>2
      <4>3. back[j - Len(front)] = s[i + (j - Len(front))]
        BY <1>3, <4>1
      <4> QED
        BY <3>2, <4>1, <4>2, <4>3
    <3> QED
      BY <3>1, <3>2
  <2> QED
    BY <1>4, <2>1, <2>2, <2>3
<1>6. /\ Append(RemoveAt(s, i), s[i]) \in Seq(LruKeys)
      /\ Len(Append(RemoveAt(s, i), s[i])) = Len(RemoveAt(s, i)) + 1
      /\ \A j \in 1..Len(RemoveAt(s, i)) : Append(RemoveAt(s, i), s[i])[j] = RemoveAt(s, i)[j]
      /\ Append(RemoveAt(s, i), s[i])[Len(RemoveAt(s, i)) + 1] = s[i]
  BY <1>1, <1>5, AppendProperties
<1>7. n - 1 + 1 = n
  BY <1>1
<1> QED
  BY <1>5, <1>6, <1>7 DEF n

\* No key is in the list twice.
LEMMA NoKeyTwice ==
  ASSUME LruInv, NEW i \in DOMAIN queue, NEW j \in DOMAIN queue, queue[i] = queue[j]
  PROVE  i = j
<1>1. i \in Nat /\ j \in Nat
  <2>1. DOMAIN queue = 1..Len(queue) /\ Len(queue) \in Nat
    BY LenProperties DEF LruInv, LruTypes
  <2> QED
    BY <2>1
<1>2. PICK p : IsLastUse(queue[i], p)
  BY DEF LruInv, QueueOK
<1>3. p \in Nat
  <2>1. DOMAIN uses = 1..Len(uses) /\ Len(uses) \in Nat
    BY LenProperties DEF LruInv, LruTypes
  <2> QED
    BY <1>2, <2>1 DEF IsLastUse
<1>4. ~ (i < j) /\ ~ (j < i)
  <2>1. ~ (p < p)
    BY <1>3
  <2> QED
    BY <1>2, <2>1 DEF LruInv, QueueOK
<1> QED
  BY <1>1, <1>4

\* Where the j-th of the list came from when the one at gone went.
From(j, gone) == IF j < gone THEN j ELSE j + 1

\* A use of k that takes k, or the front of a full list, out of the list and
\* puts k at its end; gone is past the end if none goes.
Uses(k, v, gone) ==
  /\ uses' = Append(uses, [key |-> k, value |-> v]) /\ cap' = cap
  /\ queue' \in Seq(LruKeys) /\ Len(queue') <= cap
  /\ Len(queue') = IF gone <= Len(queue) THEN Len(queue) ELSE Len(queue) + 1
  /\ \A j \in 1..(Len(queue') - 1) : queue'[j] = queue[From(j, gone)]
  /\ queue'[Len(queue')] = k
  /\ \A i \in DOMAIN queue : i # gone => queue[i] # k
  /\ gone \in DOMAIN queue /\ queue[gone] # k => gone = 1 /\ Len(queue) = cap
  /\ DOMAIN elements' = {queue[i] : i \in DOMAIN queue \ {gone}} \union {k}
  /\ elements'[k] = v
  /\ \A i \in DOMAIN queue : i # gone => elements'[queue[i]] = elements[queue[i]]

\* Such a use keeps the invariant.
LEMMA UseKeepsOrder ==
  ASSUME LruInv, NEW k \in LruKeys, NEW v \in LruValues, NEW gone \in 1..(Len(queue) + 1),
         Uses(k, v, gone)
  PROVE  LruInv'
<1>a. PICK n : n = Len(uses)
  OBVIOUS
<1>b. PICK size : size = Len(queue')
  OBVIOUS
<1>1. LruTypes /\ QueueOK /\ cap \in Nat /\ queue \in Seq(LruKeys)
  BY DEF LruInv, LruTypes
<1>c. /\ uses' = Append(uses, [key |-> k, value |-> v]) /\ cap' = cap
      /\ queue' \in Seq(LruKeys)
  BY DEF Uses
<1>g. /\ size <= cap /\ gone \in 1..(Len(queue) + 1)
      /\ gone <= Len(queue) => size = Len(queue)
      /\ ~ (gone <= Len(queue)) => size = Len(queue) + 1
  BY <1>b DEF Uses
<1>d. /\ \A j \in 1..(size - 1) : queue'[j] = queue[From(j, gone)]
      /\ queue'[size] = k
      /\ \A i \in DOMAIN queue : i # gone => queue[i] # k
  BY <1>b DEF Uses
<1>e. gone \in DOMAIN queue /\ queue[gone] # k => gone = 1 /\ Len(queue) = cap
  BY DEF Uses
<1>f. /\ DOMAIN elements' = {queue[i] : i \in DOMAIN queue \ {gone}} \union {k}
      /\ elements'[k] = v
      /\ \A i \in DOMAIN queue : i # gone => elements'[queue[i]] = elements[queue[i]]
  BY DEF Uses
<1>2. DOMAIN queue = 1..Len(queue) /\ Len(queue) \in Nat /\ DOMAIN queue' = 1..size /\ size \in Nat /\ size > 0
  <2>2. DOMAIN queue = 1..Len(queue) /\ Len(queue) \in Nat /\ DOMAIN queue' = 1..size /\ size \in Nat
    BY <1>1, <1>b, <1>c, LenProperties
  <2>3. Len(queue) \in Nat /\ size \in Nat
    BY <2>2
  <2>4. size > 0
    BY <1>g, <2>3
  <2> QED
    BY <2>2, <2>4
<1>h. DOMAIN queue = 1..Len(queue)
  BY <1>2
<1>i. Len(queue) \in Nat /\ size \in Nat /\ size > 0
  BY <1>2
<1>3. /\ uses' \in Seq([key : LruKeys, value : LruValues])
      /\ n \in Nat
      /\ \A x, p : IsLastUse(x, p)' <=> IF x = k THEN p = n + 1 ELSE IsLastUse(x, p)
      /\ \A x, p : IsLastUse(x, p) => p \in 1..n /\ uses'[p] = uses[p]
      /\ uses'[n + 1] = [key |-> k, value |-> v]
  BY <1>1, <1>a, <1>c, LastUsesAfter
<1>4. \A j \in 1..(size - 1) : /\ From(j, gone) \in DOMAIN queue \ {gone}
                              /\ queue'[j] = queue[From(j, gone)]
                              /\ queue'[j] # k
  <2> SUFFICES ASSUME NEW j \in 1..(size - 1)
               PROVE  From(j, gone) \in DOMAIN queue \ {gone}
    BY <1>d
  <2>1. From(j, gone) \in 1..Len(queue) /\ From(j, gone) # gone
    BY <1>g, <1>i DEF From
  <2> QED
    BY <1>h, <2>1
<1>5. \A i \in DOMAIN queue : i # gone => \E j \in 1..(size - 1) : From(j, gone) = i
  <2> SUFFICES ASSUME NEW i \in DOMAIN queue, i # gone
               PROVE  \E j \in 1..(size - 1) : From(j, gone) = i
    OBVIOUS
  <2>3. i \in 1..Len(queue)
    BY <1>h
  <2>1. CASE i < gone
    <3>1. i \in 1..(size - 1) /\ From(i, gone) = i
      BY <1>g, <1>i, <2>3, <2>1 DEF From
    <3> QED
      BY <3>1
  <2>2. CASE ~ (i < gone)
    <3>1. i - 1 \in 1..(size - 1) /\ From(i - 1, gone) = i
      BY <1>g, <1>i, <2>3, <2>2 DEF From
    <3> QED
      BY <3>1
  <2> QED
    BY <2>1, <2>2
<1>6. queue'[size] = k
  BY <1>d
<1>7. LruTypes'
  <2>1. Range(queue') = {queue[i] : i \in DOMAIN queue \ {gone}} \union {k}
    <3>1. ASSUME NEW x \in Range(queue')
          PROVE  x \in {queue[i] : i \in DOMAIN queue \ {gone}} \union {k}
      <4>1. PICK j \in 1..size : x = queue'[j]
        BY <1>2 DEF Range
      <4>2. j = size \/ j \in 1..(size - 1)
        BY <1>2
      <4> QED
        BY <1>4, <1>6, <4>1, <4>2
    <3>2. ASSUME NEW i \in DOMAIN queue \ {gone}
          PROVE  queue[i] \in Range(queue')
      <4>1. PICK j \in 1..(size - 1) : From(j, gone) = i
        BY <1>5
      <4>2. j \in DOMAIN queue'
        BY <1>2
      <4> QED
        BY <1>4, <4>1, <4>2 DEF Range
    <3>3. k \in Range(queue')
      <4>1. size \in DOMAIN queue'
        BY <1>2
      <4> QED
        BY <1>6, <4>1 DEF Range
    <3> QED
      BY <3>1, <3>2, <3>3
  <2> QED
    BY <1>1, <1>3, <1>b, <1>c, <1>g, <1>f, <2>1 DEF LruTypes
<1>8. ASSUME NEW i \in DOMAIN queue'
      PROVE  \E p : IsLastUse(queue[i], p)' /\ uses'[p].value = elements'[queue'[i]]
  <2>1. i = size \/ i \in 1..(size - 1)
    BY <1>2
  <2>2. CASE i = size
    BY <1>3, <1>6, <1>f, <2>2
  <2>3. CASE i \in 1..(size - 1)
    <3>1. PICK j \in DOMAIN queue \ {gone} : queue'[i] = queue[j] /\ queue'[i] # k
      BY <1>4, <2>3
    <3>2. PICK p : IsLastUse(queue[j], p) /\ uses[p].value = elements[queue[j]]
      BY <1>1 DEF QueueOK
    <3> QED
      BY <1>3, <1>f, <3>1, <3>2
  <2> QED
    BY <2>1, <2>2, <2>3
<1>9. ASSUME NEW i \in DOMAIN queue', NEW j \in DOMAIN queue', i < j,
             NEW p, NEW q, IsLastUse(queue[i], p)', IsLastUse(queue[j], q)'
      PROVE  p < q
  <2>1. i \in 1..(size - 1) /\ (j = size \/ j \in 1..(size - 1))
    BY <1>2, <1>9
  <2>2. From(i, gone) \in DOMAIN queue /\ IsLastUse(queue[From(i, gone)], p)
    BY <1>3, <1>4, <1>9, <2>1
  <2>3. CASE j = size
    <3>1. q = n + 1 /\ p \in 1..n
      BY <1>3, <1>6, <1>9, <2>2, <2>3
    <3> QED
      BY <1>3, <3>1
  <2>4. CASE j \in 1..(size - 1)
    <3>1. From(j, gone) \in DOMAIN queue /\ IsLastUse(queue[From(j, gone)], q)
      BY <1>3, <1>4, <1>9, <2>4
    <3>2. From(i, gone) < From(j, gone)
      BY <1>2, <1>9, <2>1, <2>4 DEF From
    <3> QED
      BY <1>1, <2>2, <3>1, <3>2 DEF QueueOK
  <2> QED
    BY <2>1, <2>3, <2>4
<1>10. ASSUME NEW x, NEW p, IsLastUse(x, p)', x \notin Range(queue')
       PROVE  /\ size = cap
              /\ \A j \in DOMAIN queue' : \A q : IsLastUse(queue[j], q)' => p < q
  <2>1. x # k /\ IsLastUse(x, p) /\ p \in 1..n
    <3>1. size \in DOMAIN queue'
      BY <1>2
    <3>2. x # k
      BY <1>6, <1>10, <3>1 DEF Range
    <3> QED
      BY <1>3, <1>10, <3>2
  <2>2. \/ x \notin Range(queue)
        \/ gone \in DOMAIN queue /\ x = queue[gone]
    <3> SUFFICES ASSUME NEW i \in DOMAIN queue, x = queue[i], i # gone PROVE FALSE
      BY DEF Range
    <3>1. PICK j \in 1..(size - 1) : From(j, gone) = i
      BY <1>5
    <3>2. j \in DOMAIN queue'
      BY <1>2
    <3> QED
      BY <1>4, <1>10, <3>1, <3>2 DEF Range
  <2>3. Len(queue) = cap /\ \A i \in DOMAIN queue \ {gone} : \A q : IsLastUse(queue[i], q) => p < q
    <3>1. CASE x \notin Range(queue)
      BY <1>1, <2>1, <3>1 DEF QueueOK
    <3>2. CASE gone \in DOMAIN queue /\ x = queue[gone]
      <4>1. gone = 1 /\ Len(queue) = cap
        BY <1>e, <2>1, <3>2
      <4>2. \A i \in DOMAIN queue \ {gone} : gone < i
        BY <1>2, <4>1
      <4> QED
        BY <1>1, <2>1, <3>2, <4>1, <4>2 DEF QueueOK
    <3> QED
      BY <2>2, <3>1, <3>2
  <2>4. size = cap
    BY <1>2, <1>g, <2>3
  <2>5. ASSUME NEW j \in DOMAIN queue', NEW q, IsLastUse(queue[j], q)'
        PROVE  p < q
    <3>1. j = size \/ j \in 1..(size - 1)
      BY <1>2
    <3>2. CASE j = size
      <4>1. q = n + 1
        BY <1>3, <1>6, <2>5, <3>2
      <4> QED
        BY <1>3, <2>1, <4>1
    <3>3. CASE j \in 1..(size - 1)
      BY <1>3, <1>4, <2>3, <2>5, <3>3
    <3> QED
      BY <3>1, <3>2, <3>3
  <2> QED
    BY <2>4, <2>5
<1>11. QueueOK'
  BY <1>8, <1>9, <1>10, <1>b, <1>c DEF QueueOK
<1> QED
  BY <1>7, <1>11 DEF LruInv

\* MoveToBack is such a use, with any value.
LEMMA MoveIsUse ==
  ASSUME LruInv, NEW k \in LruKeys, NEW v, MoveToBack(k), cap' = cap,
         uses' = Append(uses, [key |-> k, value |-> v]),
         DOMAIN elements' = DOMAIN elements, elements'[k] = v,
         \A x \in DOMAIN elements : x # k => elements'[x] = elements[x]
  PROVE  \E gone \in 1..(Len(queue) + 1) : Uses(k, v, gone)
<1>1. PICK i \in DOMAIN queue : queue[i] = k /\ queue' = Append(RemoveAt(queue, i), k)
  BY DEF MoveToBack
<1>2. queue \in Seq(LruKeys) /\ Len(queue) <= cap /\ DOMAIN elements = Range(queue)
  BY DEF LruInv, LruTypes
<1>3. DOMAIN queue = 1..Len(queue) /\ Len(queue) \in Nat
  BY <1>2, LenProperties
<1>4. /\ queue' \in Seq(LruKeys) /\ Len(queue') = Len(queue)
      /\ \A j \in 1..(Len(queue) - 1) : queue'[j] = queue[IF j < i THEN j ELSE j + 1]
      /\ queue'[Len(queue)] = k
  BY <1>1, <1>2, MovedToBack
<1>5. i \in 1..Len(queue)
  BY <1>1, <1>3
<1>6. i \in 1..(Len(queue) + 1) /\ i <= Len(queue)
  BY <1>3, <1>5
<1>7. \A j \in DOMAIN queue : j # i => queue[j] # k
  BY <1>1, NoKeyTwice
<1>8. DOMAIN elements' = {queue[j] : j \in DOMAIN queue \ {i}} \union {k}
  BY <1>1, <1>2 DEF Range
<1>9. \A j \in DOMAIN queue : j # i => elements'[queue[j]] = elements[queue[j]]
  BY <1>2, <1>7 DEF Range
<1>10. Uses(k, v, i)
  <2>1. /\ queue' \in Seq(LruKeys) /\ Len(queue') <= cap
        /\ Len(queue') = IF i <= Len(queue) THEN Len(queue) ELSE Len(queue) + 1
        /\ \A j \in 1..(Len(queue') - 1) : queue'[j] = queue[From(j, i)]
        /\ queue'[Len(queue')] = k
    BY <1>2, <1>4, <1>6 DEF From
  <2> QED
    BY <1>1, <1>7, <1>8, <1>9, <2>1 DEF Uses
<1> QED
  BY <1>6, <1>10

LEMMA LruGetStep == ASSUME LruInv, NEW k \in LruKeys, LruGet(k) PROVE LruInv'
<1>1. /\ k \in DOMAIN elements /\ MoveToBack(k) /\ cap' = cap /\ elements' = elements
      /\ uses' = Append(uses, [key |-> k, value |-> elements[k]])
  BY DEF LruGet
<1>2. PICK i \in DOMAIN queue : queue[i] = k
  BY <1>1 DEF MoveToBack
<1>3. PICK p : IsLastUse(k, p) /\ uses[p].value = elements[k]
  BY <1>2 DEF LruInv, QueueOK
<1>4. elements[k] \in LruValues
  <2>1. uses \in Seq([key : LruKeys, value : LruValues])
    BY DEF LruInv, LruTypes
  <2>2. p \in 1..Len(uses)
    BY <1>3, <2>1, LenProperties DEF IsLastUse
  <2>3. uses[p] \in [key : LruKeys, value : LruValues]
    BY <2>1, <2>2, ElementOfSeq
  <2> QED
    BY <1>3, <2>3
<1>5. PICK gone \in 1..(Len(queue) + 1) : Uses(k, elements[k], gone)
  BY <1>1, MoveIsUse
<1> QED
  BY <1>4, <1>5, UseKeepsOrder

LEMMA LruSetStep ==
  ASSUME LruInv, NEW k \in LruKeys, NEW v \in LruValues, LruSet(k, v)
  PROVE  LruInv'
<1>1. cap > 0 /\ uses' = Append(uses, [key |-> k, value |-> v]) /\ cap' = cap
  BY DEF LruSet
<1>2. queue \in Seq(LruKeys) /\ Len(queue) <= cap /\ DOMAIN elements = Range(queue) /\ cap \in Nat
  BY DEF LruInv, LruTypes
<1>3. DOMAIN queue = 1..Len(queue)
  BY <1>2, LenProperties
<1>4. Len(queue) \in Nat
  BY <1>2, LenProperties
<1>5. CASE k \in DOMAIN elements /\ MoveToBack(k) /\ elements' = Holding(k, v, {})
  <2>1. /\ DOMAIN elements' = DOMAIN elements /\ elements'[k] = v
        /\ \A x \in DOMAIN elements : x # k => elements'[x] = elements[x]
    BY <1>5 DEF Holding
  <2>2. PICK gone \in 1..(Len(queue) + 1) : Uses(k, v, gone)
    BY <1>1, <1>5, <2>1, MoveIsUse
  <2> QED
    BY <2>2, UseKeepsOrder
<1>6. CASE /\ k \notin DOMAIN elements /\ cap <= Len(queue)
           /\ queue' = Append(Tail(queue), k) /\ elements' = Holding(k, v, {Head(queue)})
  <2>1. Len(queue) = cap /\ Len(queue) > 0
    BY <1>1, <1>2, <1>4, <1>6
  <2>2. queue # << >>
    BY <1>2, <2>1, EmptySeq
  <2>3. /\ Tail(queue) \in Seq(LruKeys) /\ Len(Tail(queue)) = Len(queue) - 1
        /\ \A j \in 1..Len(Tail(queue)) : Tail(queue)[j] = queue[j + 1]
    BY <1>2, <2>2, HeadTailProperties
  <2>4. /\ queue' \in Seq(LruKeys) /\ Len(queue') = Len(Tail(queue)) + 1
        /\ \A j \in 1..Len(Tail(queue)) : queue'[j] = Tail(queue)[j]
        /\ queue'[Len(Tail(queue)) + 1] = k
    BY <1>6, <2>3, AppendProperties
  <2>5. Len(queue') = Len(queue)
    BY <1>4, <2>3, <2>4
  <2>6. \A j \in 1..(Len(queue') - 1) : queue'[j] = queue[From(j, 1)]
    <3> SUFFICES ASSUME NEW j \in 1..(Len(queue) - 1) PROVE queue'[j] = queue[From(j, 1)]
      BY <2>5
    <3>1. From(j, 1) = j + 1
      BY <1>4 DEF From
    <3>2. j \in 1..Len(Tail(queue))
      BY <2>3
    <3> QED
      BY <2>3, <2>4, <3>1, <3>2
  <2>7. queue'[Len(queue')] = k
    BY <2>4
  <2>8. \A i \in DOMAIN queue : queue[i] # k
    BY <1>2, <1>6 DEF Range
  <2>9. Head(queue) = queue[1]
    OBVIOUS
  <2>10. DOMAIN elements' = {queue[i] : i \in DOMAIN queue \ {1}} \union {k}
    <3>1. DOMAIN elements' = (Range(queue) \ {queue[1]}) \union {k}
      BY <1>2, <1>6, <2>9 DEF Holding
    <3>2. 1 \in DOMAIN queue
      BY <1>3, <1>4, <2>1
    <3>3. \A i \in DOMAIN queue : i # 1 => queue[i] # queue[1]
      BY <3>2, NoKeyTwice
    <3> QED
      BY <3>1, <3>3 DEF Range
  <2>11. elements'[k] = v /\ \A i \in DOMAIN queue : i # 1 => elements'[queue[i]] = elements[queue[i]]
    <3>1. elements' = [x \in (DOMAIN elements \ {Head(queue)}) \union {k} |-> IF x = k THEN v ELSE elements[x]]
      BY <1>6 DEF Holding
    <3>2. \A i \in DOMAIN queue : i # 1 => queue[i] \in DOMAIN elements'
      BY <2>10
    <3> QED
      BY <2>8, <3>1, <3>2
  <2>12. 1 \in 1..(Len(queue) + 1) /\ 1 <= Len(queue)
    BY <1>4, <2>1
  <2>13. Uses(k, v, 1)
    <3>1. /\ queue' \in Seq(LruKeys) /\ Len(queue') <= cap
          /\ Len(queue') = IF 1 <= Len(queue) THEN Len(queue) ELSE Len(queue) + 1
      BY <1>2, <2>4, <2>5, <2>12
    <3> QED
      BY <1>1, <2>1, <2>6, <2>7, <2>8, <2>10, <2>11, <3>1 DEF Uses
  <2> QED
    BY <2>12, <2>13, UseKeepsOrder
<1>7. CASE /\ k \notin DOMAIN elements /\ cap > Len(queue)
           /\ queue' = Append(queue, k) /\ elements' = Holding(k, v, {})
  <2>1. PICK gone : gone = Len(queue) + 1
    OBVIOUS
  <2>2. gone \in 1..(Len(queue) + 1) /\ ~ (gone <= Len(queue)) /\ gone \in Nat
    BY <1>4, <2>1
  <2>3. gone \notin DOMAIN queue
    BY <1>3, <1>4, <2>1
  <2>4. /\ queue' \in Seq(LruKeys) /\ Len(queue') = Len(queue) + 1
        /\ \A j \in 1..Len(queue) : queue'[j] = queue[j]
        /\ queue'[Len(queue) + 1] = k
    BY <1>2, <1>7, AppendProperties
  <2>5. \A j \in 1..(Len(queue') - 1) : queue'[j] = queue[From(j, gone)]
    <3> SUFFICES ASSUME NEW j \in 1..Len(queue) PROVE queue'[j] = queue[From(j, gone)]
      BY <1>4, <2>4
    <3>1. From(j, gone) = j
      BY <1>4, <2>1 DEF From
    <3> QED
      BY <2>4, <3>1
  <2>6. \A i \in DOMAIN queue : queue[i] # k
    BY <1>2, <1>7 DEF Range
  <2>7. DOMAIN elements' = {queue[i] : i \in DOMAIN queue \ {gone}} \union {k}
    <3>1. DOMAIN elements' = Range(queue) \union {k}
      BY <1>2, <1>7 DEF Holding
    <3> QED
      BY <2>3, <3>1 DEF Range
  <2>8. elements'[k] = v /\ \A i \in DOMAIN queue : i # gone => elements'[queue[i]] = elements[queue[i]]
    <3>1. elements' = [x \in (DOMAIN elements \ {}) \union {k} |-> IF x = k THEN v ELSE elements[x]]
      BY <1>7 DEF Holding
    <3>2. \A i \in DOMAIN queue : i # gone => queue[i] \in DOMAIN elements'
      BY <2>7
    <3> QED
      BY <2>6, <3>1, <3>2
  <2>9. Uses(k, v, gone)
    <3>1. /\ queue' \in Seq(LruKeys) /\ Len(queue') <= cap
          /\ Len(queue') = IF gone <= Len(queue) THEN Len(queue) ELSE Len(queue) + 1
      BY <1>2, <1>4, <1>7, <2>2, <2>4
    <3>2. queue'[Len(queue')] = k
      BY <2>4
    <3> QED
      BY <1>1, <2>3, <2>5, <2>6, <2>7, <2>8, <3>1, <3>2 DEF Uses
  <2> QED
    BY <2>2, <2>9, UseKeepsOrder
<1> QED
  BY <1>5, <1>6, <1>7 DEF LruSet

LEMMA LruStarts == LruInit => LruInv
<1> SUFFICES ASSUME LruInit PROVE LruInv
  OBVIOUS
<1>1. cap \in Nat /\ queue = << >> /\ elements = << >> /\ uses = << >>
  BY LruAssumption DEF LruInit
<1> QED
  BY <1>1, EmptySeq DEF LruInv, LruTypes, QueueOK, IsLastUse, Range

LEMMA LruStep == ASSUME LruInv, [LruNext]_lruVars PROVE LruInv'
<1>1. CASE LruClear
  <2>1. cap' \in Nat /\ queue' = << >> /\ elements' = << >> /\ uses' = << >>
    BY <1>1 DEF LruClear, LruInv, LruTypes
  <2> QED
    BY <2>1, EmptySeq DEF LruInv, LruTypes, QueueOK, IsLastUse, Range
<1>2. CASE UNCHANGED lruVars
  BY <1>2 DEF lruVars, LruInv, LruTypes, QueueOK, IsLastUse
<1> QED
  BY <1>1, <1>2, LruGetStep, LruSetStep DEF LruNext

---------------------------------------------------------------------------
(* lrucache: the property.                                                 *)

\* Positions that only grow name as many positions as they are.
LEMMA AsManyPlaces ==
  ASSUME NEW n \in Nat, NEW at \in [1..n -> Nat], NEW a \in 1..(n + 1), NEW b \in 0..n, a <= b + 1,
         \A i, j \in 1..n : i < j => at[i] < at[j]
  PROVE  /\ IsFiniteSet({at[i] : i \in a..b})
         /\ Cardinality({at[i] : i \in a..b}) = b - a + 1
<1> DEFINE S == a..b
           T == {at[i] : i \in S}
           f == [i \in S |-> at[i]]
<1>1. IsFiniteSet(S) /\ Cardinality(S) = b - a + 1
  <2>1. a \in Int /\ b \in Int /\ (a > b => b - a + 1 = 0)
    OBVIOUS
  <2>2. IsFiniteSet(a..b) /\ Cardinality(a..b) = IF a > b THEN 0 ELSE b - a + 1
    BY <2>1, FS_Interval
  <2> QED
    BY <2>1, <2>2
<1>2. S \subseteq 1..n
  OBVIOUS
<1>3. \A i, j \in S : at[i] = at[j] => i = j
  <2> SUFFICES ASSUME NEW i \in S, NEW j \in S, at[i] = at[j] PROVE i = j
    OBVIOUS
  <2>1. i \in 1..n /\ j \in 1..n /\ at[i] \in Nat /\ at[j] \in Nat
    BY <1>2
  <2>2. ~ (at[i] < at[j]) /\ ~ (at[j] < at[i])
    BY <2>1
  <2>3. ~ (i < j) /\ ~ (j < i)
    BY <2>1, <2>2
  <2> QED
    BY <2>1, <2>3
<1> HIDE DEF S
<1>4. f \in Bijection(S, T)
  <2>1. f \in [S -> T] /\ \A t \in T : \E i \in S : f[i] = t
    OBVIOUS
  <2>2. \A i, j \in S : f[i] = f[j] => i = j
    BY <1>3
  <2> QED
    BY <2>1, <2>2 DEF Bijection, Injection, Surjection, IsInjective
<1>5. ExistsBijection(S, T)
  BY <1>4 DEF ExistsBijection
<1> QED
  BY <1>1, <1>5, FS_Bijection DEF S

\* What Range hands out is the last use of each of the cap keys used last.
LEMMA LruInvSuffices == LruInv => KeepsTheLastUsed
<1> SUFFICES ASSUME LruInv PROVE KeepsTheLastUsed
  OBVIOUS
<1>1. PICK n : n = Len(queue)
  OBVIOUS
<1>2. /\ n \in Nat /\ DOMAIN queue = 1..n /\ cap \in Nat /\ n <= cap
      /\ DOMAIN elements = {queue[i] : i \in 1..n}
  BY <1>1, LenProperties DEF LruInv, LruTypes, Range
<1>3. DOMAIN uses = 1..Len(uses) /\ Len(uses) \in Nat
  BY LenProperties DEF LruInv, LruTypes
<1>4. PICK at : at = [i \in 1..n |-> CHOOSE p : IsLastUse(queue[i], p) /\ uses[p].value = elements[queue[i]]]
  OBVIOUS
<1>5. \A i \in 1..n : IsLastUse(queue[i], at[i]) /\ uses[at[i]].value = elements[queue[i]]
  BY <1>2, <1>4 DEF LruInv, QueueOK
<1>6. \A i \in 1..n : at[i] \in 1..Len(uses) /\ at[i] \in Nat
  BY <1>3, <1>5 DEF IsLastUse
<1>7. at \in [1..n -> Nat]
  BY <1>4, <1>6
<1>8. \A i, j \in 1..n : i < j => at[i] < at[j]
  BY <1>2, <1>5 DEF LruInv, QueueOK
<1>p. ASSUME NEW a \in 1..(n + 1), NEW b \in 0..n, a <= b + 1
      PROVE  Cardinality({at[i] : i \in a..b}) = b - a + 1
  BY <1>2, <1>7, <1>8, <1>p, AsManyPlaces, ZenonT(30)
<1>9. \A i \in 1..n : uses[at[i]] = [key |-> queue[i], value |-> elements[queue[i]]]
  <2> SUFFICES ASSUME NEW i \in 1..n
               PROVE  uses[at[i]] = [key |-> queue[i], value |-> elements[queue[i]]]
    OBVIOUS
  <2>1. uses[at[i]] \in [key : LruKeys, value : LruValues]
    BY <1>6, ElementOfSeq DEF LruInv, LruTypes
  <2>2. uses[at[i]].key = queue[i]
    BY <1>5 DEF IsLastUse
  <2> QED
    BY <1>5, <2>1, <2>2
<1> DEFINE lastUses == {i \in DOMAIN uses : \A j \in (i + 1)..Len(uses) : uses[j].key # uses[i].key}
           after(l) == {j \in lastUses : j > l}
           kept == {i \in lastUses : Cardinality(after(i)) < cap}
<1>10. \A l : l \in lastUses <=> IsLastUse(uses[l].key, l)
  BY <1>3 DEF IsLastUse
<1>11. lastUses \subseteq 1..Len(uses)
  BY <1>3
<1>12. \A i \in 1..n : at[i] \in lastUses
  BY <1>5, <1>10 DEF IsLastUse
<1>13. ASSUME NEW l \in lastUses
       PROVE  \/ \E i \in 1..n : l = at[i]
              \/ n = cap /\ \A j \in 1..n : l < at[j]
  <2>1. IsLastUse(uses[l].key, l)
    BY <1>10
  <2>2. CASE uses[l].key \in Range(queue)
    <3>1. PICK i \in 1..n : uses[l].key = queue[i]
      BY <1>2, <2>2 DEF Range
    <3>2. l = at[i]
      BY <1>5, <2>1, <3>1, OneLastUse DEF LruInv
    <3> QED
      BY <3>1, <3>2
  <2>3. CASE uses[l].key \notin Range(queue)
    BY <1>1, <1>2, <1>5, <2>1, <2>3 DEF LruInv, QueueOK
  <2> QED
    BY <2>2, <2>3
<1> HIDE DEF lastUses
<1>14. ASSUME NEW i \in 1..n
       PROVE  at[i] \in kept
  <2>1. after(at[i]) = {at[j] : j \in (i + 1)..n}
    <3>1. ASSUME NEW l \in lastUses, l > at[i]
          PROVE  \E j \in (i + 1)..n : l = at[j]
      <4>1. l \in Nat /\ at[i] \in Nat
        BY <1>6, <1>11
      <4>2. PICK j \in 1..n : l = at[j]
        BY <1>13, <3>1, <4>1
      <4>3. i # j /\ ~ (j < i)
        BY <1>8, <3>1, <4>1, <4>2
      <4>4. j \in (i + 1)..n
        BY <1>2, <4>2, <4>3
      <4> QED
        BY <4>2, <4>4
    <3>2. ASSUME NEW j \in (i + 1)..n
          PROVE  at[j] \in lastUses /\ at[j] > at[i]
      <4>1. j \in 1..n /\ i < j
        BY <1>2
      <4>2. at[i] < at[j] /\ at[i] \in Nat /\ at[j] \in Nat
        BY <1>6, <1>8, <4>1
      <4> QED
        BY <1>12, <4>1, <4>2
    <3> QED
      BY <3>1, <3>2
  <2>2. i + 1 \in 1..(n + 1) /\ n \in 0..n /\ i + 1 <= n + 1
    BY <1>2
  <2>3. Cardinality({at[j] : j \in (i + 1)..n}) = n - (i + 1) + 1
    BY <1>p, <2>2
  <2>4. n - (i + 1) + 1 < cap
    BY <1>2
  <2> QED
    BY <1>12, <2>1, <2>3, <2>4
<1>15. ASSUME NEW l \in kept
       PROVE  \E i \in 1..n : l = at[i]
  <2> SUFFICES ASSUME n = cap, \A j \in 1..n : l < at[j]
               PROVE  FALSE
    BY <1>13
  <2>1. {at[j] : j \in 1..n} \subseteq after(l)
    <3>1. l \in Nat
      BY <1>11
    <3> QED
      BY <1>6, <1>12, <3>1
  <2>2. 1 \in 1..(n + 1) /\ n \in 0..n /\ 1 <= n + 1
    BY <1>2
  <2>3. Cardinality({at[j] : j \in 1..n}) = n - 1 + 1
    BY <1>p, <2>2
  <2>4. IsFiniteSet(after(l))
    <3>1. after(l) \in SUBSET (1..Len(uses))
      BY <1>11
    <3>2. 1 \in Int /\ Len(uses) \in Int
      BY <1>3
    <3>3. IsFiniteSet(1..Len(uses))
      BY <3>2, FS_Interval
    <3> HIDE DEF after
    <3> QED
      BY <3>1, <3>3, FS_Subset
  <2>5. Cardinality({at[j] : j \in 1..n}) <= Cardinality(after(l)) /\ Cardinality(after(l)) \in Nat
    BY <2>1, <2>4, FS_Subset, FS_CardinalityType
  <2>6. Cardinality(after(l)) < cap
    OBVIOUS
  <2> QED
    BY <1>2, <2>3, <2>5, <2>6
<1>16. kept = {at[i] : i \in 1..n}
  <2> HIDE DEF kept
  <2> QED
    BY <1>14, <1>15
<1>17. DOMAIN elements = {uses[i].key : i \in kept}
  <2>1. \A i \in 1..n : uses[at[i]].key = queue[i]
    BY <1>5 DEF IsLastUse
  <2> HIDE DEF kept
  <2> QED
    BY <1>2, <1>16, <2>1
<1>18. Len(queue) = Cardinality(kept)
  <2>1. 1 \in 1..(n + 1) /\ n \in 0..n /\ 1 <= n + 1
    BY <1>2
  <2>2. Cardinality({at[j] : j \in 1..n}) = n - 1 + 1
    BY <1>p, <2>1
  <2>3. n - 1 + 1 = n
    BY <1>2
  <2> QED
    BY <1>1, <1>16, <2>2, <2>3
<1>19. ASSUME NEW l \in kept
       PROVE  RangeAll[Cardinality({j \in kept : j <= l})] = uses[l]
  <2>1. PICK i \in 1..n : l = at[i]
    BY <1>16
  <2>2. {j \in kept : j <= l} = {at[j] : j \in 1..i}
    <3> HIDE DEF kept
    <3>1. ASSUME NEW j \in 1..n
          PROVE  at[j] <= at[i] <=> j <= i
      <4>1. at[i] \in Nat /\ at[j] \in Nat
        BY <1>6
      <4>2. (i < j => at[i] < at[j]) /\ (j < i => at[j] < at[i])
        BY <1>8
      <4> QED
        BY <4>1, <4>2
    <3>2. \A j : j \in 1..i <=> j \in 1..n /\ j <= i
      BY <1>2
    <3> QED
      BY <1>16, <2>1, <3>1, <3>2
  <2>3. 1 \in 1..(n + 1) /\ i \in 0..n /\ 1 <= i + 1
    BY <1>2
  <2>4. Cardinality({at[j] : j \in 1..i}) = i - 1 + 1
    BY <1>p, <2>3
  <2>5. i - 1 + 1 = i
    OBVIOUS
  <2>6. Cardinality({j \in kept : j <= l}) = i
    BY <2>2, <2>4, <2>5
  <2>7. RangeAll[i] = [key |-> queue[i], value |-> elements[queue[i]]]
    BY <1>2 DEF RangeAll
  <2> QED
    BY <1>9, <2>1, <2>6, <2>7
<1> QED
  BY <1>17, <1>18, <1>19 DEF KeepsTheLastUsed, lastUses

\* For any capacity and any calls.
THEOREM LruKeepsTheLastUsed == LruSpec => []KeepsTheLastUsed
<1>1. LruInv /\ [LruNext]_lruVars => LruInv'
  BY LruStep
<1> QED
  BY LruStarts, LruInvSuffices, <1>1, PTL DEF LruSpec


---------------------------------------------------------------------------
(* gitfame: the inductive invariant.                                       *)

\* The lines of f that are counted, and whether its last commit is instead.
LinesOf(name, f) == {n \in 1..(output[f].line - 1) : NameOf(Blame[f][n]) = name}
EmptyOf(name, f) == /\ blamer[f] = "over" /\ Blame[f] = << >> /\ f \notin unreadable
                    /\ NameOf(LastCommit[f]) = name

FameTypes ==
  /\ opts.useCmtr \in BOOLEAN /\ opts.order \in {"lines", "commits", "files"}
  /\ output \in [GitFiles -> [line : Nat, part : {"hash", "author", "committer", "text"}]]
  /\ curCommit \in [GitFiles -> Commits \union {0}]
  /\ authors \in [GitFiles -> [Commits -> Int]]
  /\ hasLines \in [GitFiles -> BOOLEAN]
  /\ stats \in [Names -> [lines : Nat, commits : SUBSET Commits, files : SUBSET GitFiles]]
  /\ unreadable \in SUBSET GitFiles

\* Where the goroutine of a file is, and the names it has seen of commits.
BlameOK(f) ==
  /\ blamer[f] = "none" <=> f \notin Targets(opts)
  /\ blamer[f] \in {"none", "start"} => output[f] = Top
  /\ blamer[f] = "over" => f \in unreadable \/ AtEnd(f)
  /\ f \in unreadable => blamer[f] = "over" /\ output[f].line = 1
  /\ hasLines[f] <=> output[f].line > 1
  /\ \A n \in 1..(output[f].line - 1) : authors[f][Blame[f][n]] = NameOf(Blame[f][n])
  /\ output[f].part # "hash" => ~ AtEnd(f) /\ curCommit[f] = CommitAt(f)
  /\ output[f].part = "text" \/ (output[f].part = "committer" /\ ~ opts.useCmtr)
       => authors[f][CommitAt(f)] = NameOf(CommitAt(f))

StatsOK(name) ==
  /\ stats[name].lines = SumFunctionOnSet([f \in GitFiles |-> Cardinality(LinesOf(name, f))], GitFiles)
  /\ stats[name].commits =
       {c \in Commits : \E f \in GitFiles : \/ \E n \in LinesOf(name, f) : Blame[f][n] = c
                                            \/ EmptyOf(name, f) /\ LastCommit[f] = c}
  /\ stats[name].files = {f \in GitFiles : LinesOf(name, f) # {} \/ EmptyOf(name, f)}

FameInv == /\ FameTypeOK /\ FameTypes
           /\ \A f \in GitFiles : BlameOK(f)
           /\ \A name \in Names : StatsOK(name)

\* What git says of files and commits.
LEMMA GitFacts ==
  /\ \A f \in GitFiles : /\ Len(Blame[f]) \in Nat /\ DOMAIN Blame[f] = 1..Len(Blame[f])
                         /\ \A n \in 1..Len(Blame[f]) : Blame[f][n] \in Commits
                         /\ (Blame[f] = << >> <=> Len(Blame[f]) = 0) /\ LastCommit[f] \in Commits
  /\ \A c \in Commits : NameOf(c) \in Names /\ NameOf(c) \in Int
  /\ Names \subseteq Int /\ IsFiniteSet(GitFiles)
<1>1. ASSUME NEW f \in GitFiles
      PROVE  /\ Len(Blame[f]) \in Nat /\ DOMAIN Blame[f] = 1..Len(Blame[f])
             /\ \A n \in 1..Len(Blame[f]) : Blame[f][n] \in Commits
             /\ (Blame[f] = << >> <=> Len(Blame[f]) = 0) /\ LastCommit[f] \in Commits
  <2>1. Blame[f] \in Seq(Commits) /\ LastCommit[f] \in Commits
    BY FameAssumption
  <2> QED
    BY <2>1, LenProperties, ElementOfSeq, EmptySeq
<1>2. \A c \in Commits : Author[c] \in Int /\ Committer[c] \in Int
  BY FameAssumption
<1>3. Commits = DOMAIN Committer
  BY FameAssumption
<1> QED
  BY <1>1, <1>2, <1>3, FameAssumption DEF NameOf, Names

\* LinesOf is a finite set of line numbers.
LEMMA LinesFinite ==
  ASSUME FameTypes, NEW name, NEW f \in GitFiles
  PROVE  IsFiniteSet(LinesOf(name, f)) /\ Cardinality(LinesOf(name, f)) \in Nat
<1>1. output[f].line - 1 \in Int
  <2>1. output[f] \in [line : Nat, part : {"hash", "author", "committer", "text"}]
    BY DEF FameTypes
  <2>2. output[f].line \in Nat
    BY <2>1
  <2> QED
    BY <2>2
<1>2. IsFiniteSet(1..(output[f].line - 1))
  BY <1>1, FS_Interval
<1>3. LinesOf(name, f) \subseteq 1..(output[f].line - 1)
  BY DEF LinesOf
<1>4. IsFiniteSet(LinesOf(name, f))
  BY <1>2, <1>3, FS_Subset
<1> QED
  BY <1>4, FS_CardinalityType

LEMMA FameStarts == FameInit => FameInv
<1> SUFFICES ASSUME FameInit PROVE FameInv
  OBVIOUS
<1>1. /\ opts \in Options
      /\ blamer = [f \in GitFiles |-> IF f \in Targets(opts) THEN "start" ELSE "none"]
      /\ output = [f \in GitFiles |-> Top]
      /\ curCommit = [f \in GitFiles |-> 0]
      /\ authors = [f \in GitFiles |-> [c \in Commits |-> 0]]
      /\ hasLines = [f \in GitFiles |-> FALSE]
      /\ stats = [name \in Names |-> NoStats]
      /\ unreadable = {}
  BY DEF FameInit
<1>2. FameTypes
  BY <1>1 DEF FameTypes, Options, Top, NoStats
<1>3. \A f \in GitFiles : output[f].line = 1 /\ output[f].part = "hash"
  BY <1>1 DEF Top
<1>4. FameTypeOK
  <2>1. {f \in GitFiles : blamer[f] = "parse"} = {}
    BY <1>1
  <2>2. Cardinality({f \in GitFiles : blamer[f] = "parse"}) = 0
    BY <2>1, FS_EmptySet
  <2>3. \A f \in GitFiles : output[f].line \in 1..(Len(Blame[f]) + 1)
    BY <1>3, GitFacts
  <2> QED
    BY <1>1, <2>2, <2>3, FameAssumption DEF FameTypeOK, NoStats
<1>5. ASSUME NEW f \in GitFiles PROVE BlameOK(f)
  BY <1>1, <1>3 DEF BlameOK
<1>6. ASSUME NEW name \in Names PROVE StatsOK(name)
  <2>1. \A f \in GitFiles : LinesOf(name, f) = {} /\ ~EmptyOf(name, f)
    BY <1>1, <1>3 DEF LinesOf, EmptyOf
  <2>2. \A f \in GitFiles : Cardinality(LinesOf(name, f)) = 0
    BY <2>1, FS_EmptySet
  <2>3. SumFunctionOnSet([f \in GitFiles |-> Cardinality(LinesOf(name, f))], GitFiles) = 0
    BY <2>2, FameAssumption, SumZero
  <2>4. stats[name].lines = 0 /\ stats[name].commits = {} /\ stats[name].files = {}
    BY <1>1 DEF NoStats
  <2> QED
    BY <2>1, <2>3, <2>4 DEF StatsOK
<1> QED
  BY <1>2, <1>4, <1>5, <1>6 DEF FameInv

\* Statistics and their files stay as they are.
LEMMA StatsKeep ==
  ASSUME FameInv, stats' = stats,
         \A name \in Names, f \in GitFiles : /\ LinesOf(name, f)' = LinesOf(name, f)
                                             /\ EmptyOf(name, f)' <=> EmptyOf(name, f)
  PROVE  \A name \in Names : StatsOK(name)'
<1> SUFFICES ASSUME NEW name \in Names PROVE StatsOK(name)'
  OBVIOUS
<1>1. StatsOK(name)
  BY DEF FameInv
<1>2. /\ [f \in GitFiles |-> Cardinality(LinesOf(name, f)')] = [f \in GitFiles |-> Cardinality(LinesOf(name, f))]
      /\ \A f \in GitFiles : LinesOf(name, f)' = LinesOf(name, f) /\ (EmptyOf(name, f)' <=> EmptyOf(name, f))
  OBVIOUS
<1> QED
  BY <1>1, <1>2 DEF StatsOK

\* One more goroutine past sem, or as many.
LEMMA SemHolds ==
  ASSUME FameInv, NEW f \in GitFiles, NEW s \in {"parse", "over"}, blamer' = Put(blamer, f, s),
         s = "parse" => SemFree, output' = output,
         \A name \in Names : stats'[name].lines \in Nat
  PROVE  FameTypeOK'
<1> DEFINE P == {g \in GitFiles : blamer[g] = "parse"}
           Q == {g \in GitFiles : blamer'[g] = "parse"}
<1>1. blamer \in [GitFiles -> {"none", "start", "parse", "over"}] /\ Cardinality(P) <= SemCap
  BY DEF FameInv, FameTypeOK
<1>2. blamer' \in [GitFiles -> {"none", "start", "parse", "over"}] /\ Q \subseteq P \union {f}
  BY <1>1 DEF Put
<1>3. IsFiniteSet(P) /\ Cardinality(P) \in Nat /\ SemCap \in Nat
  BY FameAssumption, FS_Subset, FS_CardinalityType
<1>4. Cardinality(Q) <= SemCap
  <2>1. CASE s = "over"
    <3>1. Q \subseteq P
      BY <1>1, <2>1 DEF Put
    <3>2. Cardinality(Q) <= Cardinality(P) /\ Cardinality(Q) \in Nat
      BY <1>3, <3>1, FS_Subset, FS_CardinalityType
    <3> QED
      BY <1>1, <1>3, <3>2
  <2>2. CASE s = "parse"
    <3>1. Cardinality(P) < SemCap
      BY <2>2 DEF SemFree
    <3>2. IsFiniteSet(P \union {f}) /\ Cardinality(P \union {f}) \in {Cardinality(P), Cardinality(P) + 1}
      BY <1>3, FS_AddElement
    <3>3. Cardinality(Q) <= Cardinality(P \union {f}) /\ Cardinality(Q) \in Nat
      BY <1>2, <3>2, FS_Subset, FS_CardinalityType
    <3> QED
      BY <1>3, <3>1, <3>2, <3>3
  <2> QED
    BY <2>1, <2>2
<1> QED
  BY <1>2, <1>4 DEF FameInv, FameTypeOK

LEMMA BlameFailsStep == FameInv /\ (\E f \in GitFiles : BlameFails(f)) => FameInv'
<1> SUFFICES ASSUME FameInv, NEW f \in GitFiles, BlameFails(f) PROVE FameInv'
  OBVIOUS
<1>1. /\ blamer[f] = "start" /\ blamer' = Put(blamer, f, "over") /\ unreadable' = unreadable \union {f}
      /\ UNCHANGED <<opts, output, curCommit, authors, hasLines, stats>>
  BY DEF BlameFails
<1>2. FameTypeOK /\ FameTypes /\ \A g \in GitFiles : BlameOK(g)
  BY DEF FameInv
<1>3. /\ blamer'[f] = "over" /\ \A g \in GitFiles : g # f => blamer'[g] = blamer[g]
      /\ output[f].line = 1 /\ output[f].part = "hash"
  BY <1>1, <1>2 DEF Put, FameTypeOK, BlameOK, Top
<1>4. FameTypes'
  BY <1>1, <1>2 DEF FameTypes
<1>5. FameTypeOK'
  BY <1>1, <1>2, SemHolds DEF FameTypeOK
<1>6. ASSUME NEW g \in GitFiles PROVE BlameOK(g)'
  <2>1. BlameOK(g)
    BY <1>2
  <2>2. /\ Targets(opts)' = Targets(opts) /\ (AtEnd(g)' <=> AtEnd(g)) /\ CommitAt(g)' = CommitAt(g)
        /\ \A c : NameOf(c)' = NameOf(c)
    BY <1>1 DEF AtEnd, CommitAt, NameOf
  <2>3. CASE g = f
    BY <1>1, <1>3, <2>1, <2>2, <2>3 DEF BlameOK
  <2>4. CASE g # f
    <3>1. blamer'[g] = blamer[g] /\ (g \in unreadable' <=> g \in unreadable)
      BY <1>1, <1>3, <2>4
    <3> QED
      BY <1>1, <2>1, <2>2, <3>1 DEF BlameOK
  <2> QED
    BY <2>3, <2>4
<1>7. \A name \in Names, g \in GitFiles : /\ LinesOf(name, g)' = LinesOf(name, g)
                                          /\ EmptyOf(name, g)' <=> EmptyOf(name, g)
  <2>1. \A c : NameOf(c)' = NameOf(c)
    BY <1>1 DEF NameOf
  <2> QED
    BY <1>1, <1>3, <2>1 DEF LinesOf, EmptyOf
<1>8. \A name \in Names : StatsOK(name)'
  BY <1>1, <1>7, StatsKeep
<1> QED
  BY <1>4, <1>5, <1>6, <1>8 DEF FameInv

LEMMA ProcessFileStep == FameInv /\ (\E f \in GitFiles : ProcessFile(f)) => FameInv'
<1> SUFFICES ASSUME FameInv, NEW f \in GitFiles, ProcessFile(f) PROVE FameInv'
  OBVIOUS
<1>1. /\ blamer[f] = "start" /\ SemFree /\ blamer' = Put(blamer, f, "parse") /\ output' = Put(output, f, Top)
      /\ UNCHANGED <<opts, curCommit, authors, hasLines, stats, unreadable>>
  BY DEF ProcessFile
<1>2. FameTypeOK /\ FameTypes /\ \A g \in GitFiles : BlameOK(g)
  BY DEF FameInv
<1>3. /\ blamer'[f] = "parse" /\ \A g \in GitFiles : g # f => blamer'[g] = blamer[g]
      /\ output' = output
  <2>1. output[f] = Top /\ output \in [GitFiles -> [line : Nat, part : {"hash", "author", "committer", "text"}]]
    BY <1>1, <1>2 DEF BlameOK, FameTypes
  <2> QED
    BY <1>1, <1>2, <2>1 DEF Put, FameTypeOK
<1>4. FameTypes'
  BY <1>1, <1>2, <1>3 DEF FameTypes
<1>5. FameTypeOK'
  BY <1>1, <1>2, <1>3, SemHolds DEF FameTypeOK
<1>6. ASSUME NEW g \in GitFiles PROVE BlameOK(g)'
  <2>1. BlameOK(g)
    BY <1>2
  <2>2. /\ Targets(opts)' = Targets(opts) /\ (AtEnd(g)' <=> AtEnd(g)) /\ CommitAt(g)' = CommitAt(g)
        /\ \A c : NameOf(c)' = NameOf(c)
    BY <1>1, <1>3 DEF AtEnd, CommitAt, NameOf
  <2>3. CASE g = f
    BY <1>1, <1>3, <2>1, <2>2, <2>3 DEF BlameOK
  <2>4. CASE g # f
    BY <1>1, <1>3, <2>1, <2>2, <2>4 DEF BlameOK
  <2> QED
    BY <2>3, <2>4
<1>7. \A name \in Names, g \in GitFiles : /\ LinesOf(name, g)' = LinesOf(name, g)
                                          /\ EmptyOf(name, g)' <=> EmptyOf(name, g)
  <2>1. \A c : NameOf(c)' = NameOf(c)
    BY <1>1 DEF NameOf
  <2> QED
    BY <1>1, <1>3, <2>1 DEF LinesOf, EmptyOf
<1>8. \A name \in Names : StatsOK(name)'
  BY <1>1, <1>7, StatsKeep
<1> QED
  BY <1>4, <1>5, <1>6, <1>8 DEF FameInv

\* What parsing one line of the output changes, and what it leaves alone.
LEMMA ParseFacts ==
  ASSUME FameInv, NEW f \in GitFiles, ParseBlame(f)
  PROVE  /\ FameTypeOK /\ FameTypes /\ (\A g \in GitFiles : BlameOK(g))
         /\ UNCHANGED <<opts, blamer, unreadable>> /\ output' = Put(output, f, NextOutput(f))
         /\ blamer[f] = "parse" /\ f \notin unreadable
         /\ output[f].line \in 1..Len(Blame[f]) /\ CommitAt(f) \in Commits
         /\ output'[f] = NextOutput(f) /\ \A g \in GitFiles : g # f => output'[g] = output[g]
<1>1. /\ FameTypeOK /\ FameTypes /\ (\A g \in GitFiles : BlameOK(g))
  BY DEF FameInv
<1>2. /\ UNCHANGED <<opts, blamer, unreadable>> /\ output' = Put(output, f, NextOutput(f))
      /\ blamer[f] = "parse" /\ ~ AtEnd(f)
  BY DEF ParseBlame
<1>3. f \notin unreadable
  BY <1>1, <1>2 DEF BlameOK
<1>4. output[f].line \in 1..Len(Blame[f])
  <2>1. output[f].line \in 1..(Len(Blame[f]) + 1) /\ ~(output[f].line > Len(Blame[f]))
    BY <1>1, <1>2 DEF FameTypeOK, AtEnd
  <2>2. Len(Blame[f]) \in Nat
    BY GitFacts
  <2> QED
    BY <2>1, <2>2
<1>5. CommitAt(f) \in Commits
  BY <1>4, GitFacts DEF CommitAt
<1>6. output'[f] = NextOutput(f) /\ \A g \in GitFiles : g # f => output'[g] = output[g]
  BY <1>1, <1>2 DEF Put, FameTypes
<1> QED
  BY <1>1, <1>2, <1>3, <1>4, <1>5, <1>6

\* Files that are not parsed now are where they were.
LEMMA OthersKeep ==
  ASSUME FameInv, NEW g \in GitFiles, UNCHANGED opts,
         output'[g] = output[g], blamer'[g] = blamer[g], curCommit'[g] = curCommit[g],
         authors'[g] = authors[g], hasLines'[g] = hasLines[g], g \in unreadable' <=> g \in unreadable
  PROVE  BlameOK(g)'
<1>1. BlameOK(g)
  BY DEF FameInv
<1>2. /\ Targets(opts)' = Targets(opts) /\ (AtEnd(g)' <=> AtEnd(g)) /\ CommitAt(g)' = CommitAt(g)
      /\ \A c : NameOf(c)' = NameOf(c)
  BY DEF AtEnd, CommitAt, NameOf
<1> QED
  BY <1>1, <1>2 DEF BlameOK

\* The header of a commit: afterwards its name is known, when the text comes.
LEMMA HeaderStep ==
  ASSUME FameInv, NEW f \in GitFiles, ParseBlame(f), output[f].part # "text"
  PROVE  FameInv'
<1>1. /\ FameTypeOK /\ FameTypes /\ (\A g \in GitFiles : BlameOK(g))
      /\ UNCHANGED <<opts, blamer, unreadable>> /\ output' = Put(output, f, NextOutput(f))
      /\ blamer[f] = "parse" /\ f \notin unreadable
      /\ output[f].line \in 1..Len(Blame[f]) /\ CommitAt(f) \in Commits
      /\ output'[f] = NextOutput(f) /\ \A g \in GitFiles : g # f => output'[g] = output[g]
  BY ParseFacts
<1>2. /\ output \in [GitFiles -> [line : Nat, part : {"hash", "author", "committer", "text"}]]
      /\ curCommit \in [GitFiles -> Commits \union {0}]
      /\ authors \in [GitFiles -> [Commits -> Int]] /\ hasLines \in [GitFiles -> BOOLEAN]
      /\ opts.useCmtr \in BOOLEAN
  BY <1>1 DEF FameTypes
<1>3. PICK line, part : line = output[f].line /\ part = output[f].part
  OBVIOUS
<1>4. /\ output[f] = [line |-> line, part |-> part] /\ line \in Nat
      /\ part \in {"hash", "author", "committer"}
  <2>1. output[f] \in [line : Nat, part : {"hash", "author", "committer", "text"}]
    BY <1>2
  <2> QED
    BY <1>3, <2>1
<1>5. /\ output'[f] = [line |-> line, part |-> output'[f].part]
      /\ output'[f].line = line
      /\ part = "hash" => output'[f].part = IF FirstOfItsCommit(f) THEN "author" ELSE "text"
      /\ part = "author" => output'[f].part = "committer"
      /\ part = "committer" => output'[f].part = "text"
      /\ output'[f] \in [line : Nat, part : {"hash", "author", "committer", "text"}]
  BY <1>1, <1>3, <1>4 DEF NextOutput
<1>6. /\ part = "hash" => curCommit' = Put(curCommit, f, CommitAt(f)) /\ authors' = authors
      /\ part # "hash" => curCommit' = curCommit
      /\ part = (IF opts.useCmtr THEN "committer" ELSE "author") =>
           authors' = Put(authors, f, Put(authors[f], curCommit[f], NameOf(CommitAt(f))))
      /\ part = (IF opts.useCmtr THEN "author" ELSE "committer") => authors' = authors
      /\ UNCHANGED <<hasLines, stats>>
  BY <1>2, <1>3, <1>4 DEF ParseBlame
<1>7. /\ part # "hash" => curCommit[f] = CommitAt(f)
      /\ part = "committer" /\ ~ opts.useCmtr => authors[f][CommitAt(f)] = NameOf(CommitAt(f))
      /\ \A n \in 1..(line - 1) : authors[f][Blame[f][n]] = NameOf(Blame[f][n])
      /\ hasLines[f] <=> line > 1
      /\ blamer[f] = "none" <=> f \notin Targets(opts)
  BY <1>1, <1>3 DEF BlameOK
<1>8. /\ curCommit' \in [GitFiles -> Commits \union {0}] /\ authors' \in [GitFiles -> [Commits -> Int]]
      /\ \A g \in GitFiles : g # f => curCommit'[g] = curCommit[g] /\ authors'[g] = authors[g]
      /\ curCommit'[f] = CommitAt(f)
      /\ part = (IF opts.useCmtr THEN "committer" ELSE "author") =>
           /\ authors'[f][CommitAt(f)] = NameOf(CommitAt(f))
           /\ \A c \in Commits : c # CommitAt(f) => authors'[f][c] = authors[f][c]
      /\ part # (IF opts.useCmtr THEN "committer" ELSE "author") => authors'[f] = authors[f]
  <2>1. NameOf(CommitAt(f)) \in Int
    BY <1>1, GitFacts
  <2>2. CASE part = "hash"
    BY <1>1, <1>2, <1>6, <2>2 DEF Put
  <2>3. CASE part = (IF opts.useCmtr THEN "committer" ELSE "author")
    <3>1. curCommit' = curCommit /\ curCommit[f] = CommitAt(f)
      BY <1>2, <1>6, <1>7, <2>3
    <3>2. PICK a : a = [authors[f] EXCEPT ![CommitAt(f)] = NameOf(CommitAt(f))]
      OBVIOUS
    <3>3. a \in [Commits -> Int] /\ a[CommitAt(f)] = NameOf(CommitAt(f)) /\ \A c \in Commits : c # CommitAt(f) => a[c] = authors[f][c]
      <4>1. authors[f] \in [Commits -> Int]
        BY <1>2
      <4> QED
        BY <1>1, <2>1, <3>2, <4>1
    <3>4. authors' = [authors EXCEPT ![f] = a]
      BY <1>6, <2>3, <3>1, <3>2 DEF Put
    <3> QED
      BY <1>2, <2>3, <3>1, <3>3, <3>4
  <2>4. CASE part = (IF opts.useCmtr THEN "author" ELSE "committer")
    BY <1>2, <1>6, <1>7, <2>4
  <2> QED
    BY <1>2, <1>4, <2>2, <2>3, <2>4
<1>9. /\ \A c : NameOf(c)' = NameOf(c)
      /\ \A g \in GitFiles : output'[g].line = output[g].line /\ (AtEnd(g)' <=> AtEnd(g)) /\ CommitAt(g)' = CommitAt(g)
  <2>1. \A g \in GitFiles : output'[g].line = output[g].line
    BY <1>1, <1>3, <1>5
  <2> QED
    BY <1>1, <2>1 DEF NameOf, AtEnd, CommitAt
<1>10. FameTypes'
  <2>1. output' \in [GitFiles -> [line : Nat, part : {"hash", "author", "committer", "text"}]]
    BY <1>1, <1>2, <1>5 DEF Put
  <2> QED
    BY <1>1, <1>6, <1>8, <2>1 DEF FameTypes
<1>11. FameTypeOK'
  BY <1>1, <1>6, <1>9 DEF FameTypeOK
<1>12. ASSUME NEW g \in GitFiles PROVE BlameOK(g)'
  <2>1. CASE g # f
    BY <1>1, <1>6, <1>8, <2>1, OthersKeep
  <2>2. CASE g = f
    <3>1. \A n \in 1..(line - 1) : authors'[f][Blame[f][n]] = NameOf(Blame[f][n])
      <4> SUFFICES ASSUME NEW n \in 1..(line - 1) PROVE authors'[f][Blame[f][n]] = NameOf(Blame[f][n])
        OBVIOUS
      <4>1. Blame[f][n] \in Commits
        <5>1. n \in 1..Len(Blame[f])
          BY <1>1, <1>3, <1>4, GitFacts
        <5> QED
          BY <5>1, GitFacts
      <4> QED
        BY <1>7, <1>8, <4>1
    <3>2. output'[f].part = "text" \/ (output'[f].part = "committer" /\ ~ opts.useCmtr)
            => authors'[f][CommitAt(f)] = NameOf(CommitAt(f))
      <4>1. CASE part = "hash"
        <5> SUFFICES ASSUME ~ FirstOfItsCommit(f) PROVE authors'[f][CommitAt(f)] = NameOf(CommitAt(f))
          BY <1>5, <4>1
        <5>1. PICK m \in 1..(line - 1) : Blame[f][m] = CommitAt(f)
          BY <1>3 DEF FirstOfItsCommit
        <5> QED
          BY <3>1, <5>1
      <4>2. CASE part = "author"
        BY <1>2, <1>5, <1>8, <4>2
      <4>3. CASE part = "committer"
        BY <1>2, <1>5, <1>7, <1>8, <4>3
      <4> QED
        BY <1>4, <4>1, <4>2, <4>3
    <3>3. ~ AtEnd(f)
      BY DEF ParseBlame
    <3> QED
      BY <1>1, <1>3, <1>5, <1>6, <1>7, <1>8, <1>9, <2>2, <3>1, <3>2, <3>3 DEF BlameOK
  <2> QED
    BY <2>1, <2>2
<1>13. \A name \in Names, g \in GitFiles : /\ LinesOf(name, g)' = LinesOf(name, g)
                                           /\ EmptyOf(name, g)' <=> EmptyOf(name, g)
  BY <1>1, <1>9 DEF LinesOf, EmptyOf
<1>14. \A name \in Names : StatsOK(name)'
  BY <1>6, <1>13, StatsKeep
<1> QED
  BY <1>10, <1>11, <1>12, <1>14 DEF FameInv

\* A section under mu for a name that exists.
LEMMA AddStatFacts ==
  ASSUME FameTypes, NEW name \in Names, NEW c \in Commits, NEW f \in GitFiles, NEW b \in BOOLEAN,
         AddStat(name, c, f, b)
  PROVE  /\ stats' \in [Names -> [lines : Nat, commits : SUBSET Commits, files : SUBSET GitFiles]]
         /\ \A other \in Names : other # name => stats'[other] = stats[other]
         /\ stats'[name].lines = stats[name].lines + (IF b THEN 1 ELSE 0)
         /\ stats'[name].commits = stats[name].commits \union {c}
         /\ stats'[name].files = stats[name].files \union {f}
<1>1. stats \in [Names -> [lines : Nat, commits : SUBSET Commits, files : SUBSET GitFiles]]
  BY DEF FameTypes
<1>2. PICK new : new = [lines   |-> stats[name].lines + (IF b THEN 1 ELSE 0),
                        commits |-> stats[name].commits \union {c},
                        files   |-> stats[name].files \union {f}]
  OBVIOUS
<1>3. stats[name] \in [lines : Nat, commits : SUBSET Commits, files : SUBSET GitFiles]
  BY <1>1
<1>4. stats[name].lines + (IF b THEN 1 ELSE 0) \in Nat
  BY <1>3
<1>5. /\ new \in [lines : Nat, commits : SUBSET Commits, files : SUBSET GitFiles]
      /\ new.lines = stats[name].lines + (IF b THEN 1 ELSE 0)
      /\ new.commits = stats[name].commits \union {c} /\ new.files = stats[name].files \union {f}
  BY <1>2, <1>3, <1>4
<1>6. stats' = [stats EXCEPT ![name] = new]
  BY <1>2 DEF AddStat
<1> QED
  BY <1>1, <1>5, <1>6

\* A line of text counts for the name its commit has.
LEMMA TextStep ==
  ASSUME FameInv, NEW f \in GitFiles, ParseBlame(f), output[f].part = "text"
  PROVE  FameInv'
<1>1. /\ FameTypeOK /\ FameTypes /\ (\A g \in GitFiles : BlameOK(g))
      /\ UNCHANGED <<opts, blamer, unreadable>> /\ output' = Put(output, f, NextOutput(f))
      /\ blamer[f] = "parse" /\ f \notin unreadable
      /\ output[f].line \in 1..Len(Blame[f]) /\ CommitAt(f) \in Commits
      /\ output'[f] = NextOutput(f) /\ \A g \in GitFiles : g # f => output'[g] = output[g]
  BY ParseFacts
<1>2. PICK line, commit, name : line = output[f].line /\ commit = CommitAt(f) /\ name = NameOf(commit)
  OBVIOUS
<1>3. /\ commit \in Commits /\ name \in Names /\ line \in 1..Len(Blame[f]) /\ line \in Nat /\ line >= 1
      /\ commit = Blame[f][line] /\ line + 1 - 1 = line
  <2>1. Len(Blame[f]) \in Nat /\ line \in 1..Len(Blame[f])
    BY <1>1, <1>2, GitFacts
  <2> QED
    BY <1>1, <1>2, <2>1, GitFacts DEF CommitAt
<1>4. /\ hasLines' = Put(hasLines, f, TRUE) /\ UNCHANGED <<curCommit, authors>>
      /\ AddStat(authors[f][curCommit[f]], curCommit[f], f, TRUE)
  BY DEF ParseBlame
<1>5. /\ curCommit[f] = commit /\ authors[f][commit] = name
      /\ \A n \in 1..(line - 1) : authors[f][Blame[f][n]] = NameOf(Blame[f][n])
      /\ blamer[f] = "none" <=> f \notin Targets(opts)
  BY <1>1, <1>2 DEF BlameOK
<1>6. AddStat(name, commit, f, TRUE)
  BY <1>4, <1>5
<1>7. /\ stats' \in [Names -> [lines : Nat, commits : SUBSET Commits, files : SUBSET GitFiles]]
      /\ \A other \in Names : other # name => stats'[other] = stats[other]
      /\ stats'[name].lines = stats[name].lines + 1
      /\ stats'[name].commits = stats[name].commits \union {commit}
      /\ stats'[name].files = stats[name].files \union {f}
  BY <1>1, <1>3, <1>6, AddStatFacts
<1>8. output'[f] = [line |-> line + 1, part |-> "hash"] /\ output'[f].line = line + 1 /\ output'[f].part = "hash"
  BY <1>1, <1>2 DEF NextOutput
<1>9. hasLines \in [GitFiles -> BOOLEAN] /\ output \in [GitFiles -> [line : Nat, part : {"hash", "author", "committer", "text"}]]
  BY <1>1 DEF FameTypes
<1>10. /\ hasLines' \in [GitFiles -> BOOLEAN] /\ hasLines'[f] = TRUE
       /\ \A g \in GitFiles : g # f => hasLines'[g] = hasLines[g]
       /\ output' \in [GitFiles -> [line : Nat, part : {"hash", "author", "committer", "text"}]]
  <2>1. output'[f] \in [line : Nat, part : {"hash", "author", "committer", "text"}]
    BY <1>3, <1>8
  <2> QED
    BY <1>1, <1>4, <1>9, <2>1 DEF Put
<1>11. FameTypes'
  BY <1>1, <1>4, <1>7, <1>10 DEF FameTypes
<1>12. FameTypeOK'
  <2>1. \A g \in GitFiles : output'[g].line \in 1..(Len(Blame[g]) + 1)
    <3> SUFFICES ASSUME NEW g \in GitFiles PROVE output'[g].line \in 1..(Len(Blame[g]) + 1)
      OBVIOUS
    <3>1. CASE g = f
      BY <1>3, <1>8, <3>1, GitFacts
    <3>2. CASE g # f
      BY <1>1, <3>2 DEF FameTypeOK
    <3> QED
      BY <3>1, <3>2
  <2>2. \A other \in Names : stats'[other].lines \in Nat
    BY <1>7
  <2> QED
    BY <1>1, <2>1, <2>2 DEF FameTypeOK
<1>13. \A c : NameOf(c)' = NameOf(c)
  BY <1>1 DEF NameOf
<1>14. ASSUME NEW g \in GitFiles PROVE BlameOK(g)'
  <2>1. CASE g # f
    BY <1>1, <1>4, <1>10, <2>1, OthersKeep
  <2>2. CASE g = f
    <3>1. \A n \in 1..line : authors'[f][Blame[f][n]] = NameOf(Blame[f][n])'
      BY <1>2, <1>3, <1>4, <1>5, <1>13
    <3>2. Targets(opts)' = Targets(opts) /\ line + 1 > 1 /\ blamer'[f] = "parse"
      BY <1>1, <1>3
    <3> QED
      BY <1>1, <1>3, <1>5, <1>8, <1>10, <2>2, <3>1, <3>2 DEF BlameOK
  <2> QED
    BY <2>1, <2>2
<1>15. /\ \A other \in Names, g \in GitFiles :
            /\ EmptyOf(other, g)' <=> EmptyOf(other, g)
            /\ g # f \/ other # name => LinesOf(other, g)' = LinesOf(other, g)
       /\ LinesOf(name, f)' = LinesOf(name, f) \union {line} /\ line \notin LinesOf(name, f)
  <2>1. \A other \in Names, g \in GitFiles : EmptyOf(other, g)' <=> EmptyOf(other, g)
    BY <1>1, <1>13 DEF EmptyOf
  <2>2. ASSUME NEW other \in Names, NEW g \in GitFiles, g # f \/ other # name
        PROVE  LinesOf(other, g)' = LinesOf(other, g)
    <3>1. CASE g # f
      BY <1>1, <1>13, <3>1 DEF LinesOf
    <3>2. CASE g = f /\ other # name
      <4>1. LinesOf(other, f)' = {n \in 1..line : NameOf(Blame[f][n]) = other}
        BY <1>3, <1>8, <1>13 DEF LinesOf
      <4>2. LinesOf(other, f) = {n \in 1..(line - 1) : NameOf(Blame[f][n]) = other}
        BY <1>2 DEF LinesOf
      <4>3. NameOf(Blame[f][line]) # other
        BY <1>2, <1>3, <3>2
      <4>4. 1..line = (1..(line - 1)) \union {line}
        BY <1>3
      <4> QED
        BY <3>2, <4>1, <4>2, <4>3, <4>4
    <3> QED
      BY <2>2, <3>1, <3>2
  <2>3. LinesOf(name, f)' = LinesOf(name, f) \union {line} /\ line \notin LinesOf(name, f)
    <3>1. LinesOf(name, f)' = {n \in 1..line : NameOf(Blame[f][n]) = name}
      BY <1>3, <1>8, <1>13 DEF LinesOf
    <3>2. LinesOf(name, f) = {n \in 1..(line - 1) : NameOf(Blame[f][n]) = name}
      BY <1>2 DEF LinesOf
    <3>3. NameOf(Blame[f][line]) = name
      BY <1>2, <1>3
    <3>4. 1..line = (1..(line - 1)) \union {line} /\ line \notin 1..(line - 1)
      BY <1>3
    <3> QED
      BY <3>1, <3>2, <3>3, <3>4
  <2> QED
    BY <2>1, <2>2, <2>3
<1>16. ASSUME NEW other \in Names, other # name PROVE StatsOK(other)'
  <2>1. StatsOK(other) /\ stats'[other] = stats[other]
    BY <1>7, <1>16 DEF FameInv
  <2>2. /\ \A g \in GitFiles : LinesOf(other, g)' = LinesOf(other, g) /\ (EmptyOf(other, g)' <=> EmptyOf(other, g))
        /\ [g \in GitFiles |-> Cardinality(LinesOf(other, g)')] = [g \in GitFiles |-> Cardinality(LinesOf(other, g))]
    BY <1>15, <1>16
  <2> QED
    BY <2>1, <2>2 DEF StatsOK
<1>17. StatsOK(name)'
  <2> DEFINE was == [g \in GitFiles |-> Cardinality(LinesOf(name, g))]
             now == [g \in GitFiles |-> Cardinality(LinesOf(name, g)')]
  <2>0. StatsOK(name)
    BY <1>3 DEF FameInv
  <2>1. stats'[name].lines = SumFunctionOnSet(now, GitFiles)
    <3>1. was \in [GitFiles -> Int]
      <4>1. \A g \in GitFiles : Cardinality(LinesOf(name, g)) \in Int
        BY <1>1, LinesFinite
      <4> QED
        BY <4>1
    <3>2. now[f] = was[f] + 1
      <4>1. IsFiniteSet(LinesOf(name, f))
        BY <1>1, LinesFinite
      <4>2. Cardinality(LinesOf(name, f) \union {line}) = Cardinality(LinesOf(name, f)) + 1
        BY <1>15, <4>1, FS_AddElement
      <4> QED
        BY <1>15, <4>2
    <3>3. \A g \in GitFiles : g # f => was[g] = now[g]
      BY <1>3, <1>15
    <3>4. now \in [GitFiles -> Int]
      <4>1. \A g \in GitFiles : now[g] \in Int
        <5> SUFFICES ASSUME NEW g \in GitFiles PROVE now[g] \in Int
          OBVIOUS
        <5> HIDE DEF was, now
        <5> QED
          BY <3>1, <3>2, <3>3
      <4>2. now = [g \in GitFiles |-> now[g]]
        OBVIOUS
      <4> HIDE DEF now
      <4> QED
        BY <4>1, <4>2
    <3>5. stats[name].lines = SumFunctionOnSet(was, GitFiles)
      BY <2>0 DEF StatsOK
    <3>6. IsFiniteSet(GitFiles)
      BY FameAssumption
    <3> HIDE DEF was, now
    <3>7. SumFunctionOnSet(now, GitFiles) = SumFunctionOnSet(was, GitFiles) + now[f] - was[f]
      BY <3>1, <3>3, <3>4, <3>6, SumChange
    <3>8. SumFunctionOnSet(was, GitFiles) \in Int /\ was[f] \in Int
      BY <3>1, <3>6, SumInt
    <3> QED
      BY <1>7, <3>2, <3>5, <3>7, <3>8
  <2>2. stats'[name].commits =
          {c \in Commits : \E g \in GitFiles : \/ \E n \in LinesOf(name, g)' : Blame[g][n] = c
                                               \/ EmptyOf(name, g)' /\ LastCommit[g] = c}
    <3>1. stats[name].commits =
            {c \in Commits : \E g \in GitFiles : \/ \E n \in LinesOf(name, g) : Blame[g][n] = c
                                                 \/ EmptyOf(name, g) /\ LastCommit[g] = c}
      BY <2>0 DEF StatsOK
    <3>2. ASSUME NEW c \in Commits
          PROVE  (\E g \in GitFiles : (\E n \in LinesOf(name, g)' : Blame[g][n] = c) \/ (EmptyOf(name, g)' /\ LastCommit[g] = c))
                 <=> \/ c = commit
                     \/ \E g \in GitFiles : (\E n \in LinesOf(name, g) : Blame[g][n] = c) \/ (EmptyOf(name, g) /\ LastCommit[g] = c)
      BY <1>3, <1>15
    <3> QED
      BY <1>3, <1>7, <3>1, <3>2
  <2>3. stats'[name].files = {g \in GitFiles : LinesOf(name, g)' # {} \/ EmptyOf(name, g)'}
    <3>1. stats[name].files = {g \in GitFiles : LinesOf(name, g) # {} \/ EmptyOf(name, g)}
      BY <2>0 DEF StatsOK
    <3> QED
      BY <1>3, <1>7, <1>15, <3>1
  <2> QED
    BY <2>1, <2>2, <2>3 DEF StatsOK
<1>18. \A other \in Names : StatsOK(other)'
  BY <1>16, <1>17
<1> QED
  BY <1>11, <1>12, <1>14, <1>18 DEF FameInv

\* A file is over: without lines its last commit counts, if git log tells it.
LEMMA FileOverStep == FameInv /\ (\E f \in GitFiles : FileOver(f)) => FameInv'
<1> SUFFICES ASSUME FameInv, NEW f \in GitFiles, FileOver(f) PROVE FameInv'
  OBVIOUS
<1>1. /\ FameTypeOK /\ FameTypes /\ (\A g \in GitFiles : BlameOK(g))
  BY DEF FameInv
<1>2. PICK c, name : c = LastCommit[f] /\ name = NameOf(c)
  OBVIOUS
<1>3. /\ blamer[f] = "parse" /\ AtEnd(f) /\ blamer' = Put(blamer, f, "over")
      /\ UNCHANGED <<opts, output, curCommit, authors, hasLines>>
      /\ \/ hasLines[f] /\ UNCHANGED <<stats, unreadable>>
         \/ ~ hasLines[f] /\ UNCHANGED unreadable /\ AddStat(name, c, f, FALSE)
         \/ ~ hasLines[f] /\ UNCHANGED stats /\ unreadable' = unreadable \union {f}
  BY <1>2 DEF FileOver
<1>4. c \in Commits /\ name \in Names
  BY <1>2, GitFacts
<1>5. /\ blamer'[f] = "over" /\ (\A g \in GitFiles : g # f => blamer'[g] = blamer[g]) /\ f \notin unreadable
      /\ hasLines[f] <=> output[f].line > 1
  BY <1>1, <1>3 DEF Put, FameTypeOK, BlameOK
<1>6. /\ hasLines[f] => Blame[f] # << >>
      /\ ~ hasLines[f] => Blame[f] = << >> /\ output[f].line = 1
  <2>1. output[f].line \in 1..(Len(Blame[f]) + 1) /\ output[f].line > Len(Blame[f])
    BY <1>1, <1>3 DEF FameTypeOK, AtEnd
  <2>2. Len(Blame[f]) \in Nat /\ (Blame[f] = << >> <=> Len(Blame[f]) = 0)
    BY GitFacts
  <2> QED
    BY <1>5, <2>1, <2>2
<1>7. ~ hasLines[f] /\ AddStat(name, c, f, FALSE) =>
        /\ stats' \in [Names -> [lines : Nat, commits : SUBSET Commits, files : SUBSET GitFiles]]
        /\ \A other \in Names : other # name => stats'[other] = stats[other]
        /\ stats'[name].lines = stats[name].lines
        /\ stats'[name].commits = stats[name].commits \union {c}
        /\ stats'[name].files = stats[name].files \union {f}
  <2> SUFFICES ASSUME AddStat(name, c, f, FALSE)
               PROVE  /\ stats' \in [Names -> [lines : Nat, commits : SUBSET Commits, files : SUBSET GitFiles]]
                      /\ \A other \in Names : other # name => stats'[other] = stats[other]
                      /\ stats'[name].lines = stats[name].lines
                      /\ stats'[name].commits = stats[name].commits \union {c}
                      /\ stats'[name].files = stats[name].files \union {f}
    OBVIOUS
  <2>1. /\ stats' \in [Names -> [lines : Nat, commits : SUBSET Commits, files : SUBSET GitFiles]]
        /\ \A other \in Names : other # name => stats'[other] = stats[other]
        /\ stats'[name].lines = stats[name].lines + 0
        /\ stats'[name].commits = stats[name].commits \union {c}
        /\ stats'[name].files = stats[name].files \union {f}
    BY <1>1, <1>4, AddStatFacts
  <2>2. stats[name].lines \in Nat
    BY <1>1, <1>4 DEF FameTypeOK
  <2> QED
    BY <2>1, <2>2
<1>8. FameTypes'
  BY <1>1, <1>3, <1>7 DEF FameTypes
<1>9. FameTypeOK'
  <2>1. \A other \in Names : stats'[other].lines \in Nat
    BY <1>8 DEF FameTypes
  <2> QED
    BY <1>3, <2>1, SemHolds
<1>10. ASSUME NEW g \in GitFiles PROVE BlameOK(g)'
  <2>1. CASE g # f
    BY <1>3, <1>5, <2>1, OthersKeep
  <2>2. CASE g = f
    <3>1. BlameOK(f)
      BY <1>1
    <3>2. /\ Targets(opts)' = Targets(opts) /\ (AtEnd(f)' <=> AtEnd(f)) /\ CommitAt(f)' = CommitAt(f)
          /\ \A d : NameOf(d)' = NameOf(d)
      BY <1>3 DEF AtEnd, CommitAt, NameOf
    <3> QED
      BY <1>3, <1>5, <1>6, <2>2, <3>1, <3>2 DEF BlameOK
  <2> QED
    BY <2>1, <2>2
<1>11. /\ \A other \in Names, g \in GitFiles : LinesOf(other, g)' = LinesOf(other, g)
       /\ \A other \in Names, g \in GitFiles : g # f => (EmptyOf(other, g)' <=> EmptyOf(other, g))
       /\ \A other \in Names : /\ ~ EmptyOf(other, f)
                               /\ EmptyOf(other, f)' <=> ~ hasLines[f] /\ unreadable' = unreadable /\ other = name
  <2>1. \A d : NameOf(d)' = NameOf(d)
    BY <1>3 DEF NameOf
  <2>2. unreadable' = unreadable <=> f \notin unreadable'
    BY <1>3, <1>5
  <2>3. \A g \in GitFiles : g # f => (g \in unreadable' <=> g \in unreadable)
    BY <1>3
  <2>4. \A other \in Names, g \in GitFiles : LinesOf(other, g)' = LinesOf(other, g)
    BY <1>3, <2>1 DEF LinesOf
  <2>5. \A other \in Names, g \in GitFiles : g # f => (EmptyOf(other, g)' <=> EmptyOf(other, g))
    BY <1>5, <2>1, <2>3 DEF EmptyOf
  <2>6. \A other \in Names : /\ ~ EmptyOf(other, f)
                             /\ EmptyOf(other, f)' <=> ~ hasLines[f] /\ unreadable' = unreadable /\ other = name
    BY <1>2, <1>3, <1>5, <1>6, <2>1, <2>2 DEF EmptyOf
  <2> QED
    BY <2>4, <2>5, <2>6
<1>12. ASSUME NEW other \in Names,
              other # name \/ hasLines[f] \/ (stats' = stats /\ unreadable' # unreadable)
       PROVE  StatsOK(other)'
  <2>1. StatsOK(other) /\ stats'[other] = stats[other]
    BY <1>3, <1>7, <1>12 DEF FameInv
  <2>2. /\ \A g \in GitFiles : LinesOf(other, g)' = LinesOf(other, g) /\ (EmptyOf(other, g)' <=> EmptyOf(other, g))
        /\ [g \in GitFiles |-> Cardinality(LinesOf(other, g)')] = [g \in GitFiles |-> Cardinality(LinesOf(other, g))]
    BY <1>11, <1>12
  <2> QED
    BY <2>1, <2>2 DEF StatsOK
<1>13. ASSUME ~ hasLines[f], UNCHANGED unreadable, AddStat(name, c, f, FALSE)
       PROVE  StatsOK(name)'
  <2>1. StatsOK(name)
    BY <1>4 DEF FameInv
  <2>2. /\ \A g \in GitFiles : LinesOf(name, g)' = LinesOf(name, g)
        /\ [g \in GitFiles |-> Cardinality(LinesOf(name, g)')] = [g \in GitFiles |-> Cardinality(LinesOf(name, g))]
        /\ \A g \in GitFiles : EmptyOf(name, g)' <=> g = f \/ EmptyOf(name, g)
    BY <1>4, <1>11, <1>13
  <2>3. stats'[name].lines = SumFunctionOnSet([g \in GitFiles |-> Cardinality(LinesOf(name, g)')], GitFiles)
    BY <1>7, <1>13, <2>1, <2>2 DEF StatsOK
  <2>4. stats'[name].commits =
          {d \in Commits : \E g \in GitFiles : \/ \E n \in LinesOf(name, g)' : Blame[g][n] = d
                                               \/ EmptyOf(name, g)' /\ LastCommit[g] = d}
    <3>1. stats[name].commits =
            {d \in Commits : \E g \in GitFiles : \/ \E n \in LinesOf(name, g) : Blame[g][n] = d
                                                 \/ EmptyOf(name, g) /\ LastCommit[g] = d}
      BY <2>1 DEF StatsOK
    <3>2. ASSUME NEW d \in Commits
          PROVE  (\E g \in GitFiles : (\E n \in LinesOf(name, g)' : Blame[g][n] = d) \/ (EmptyOf(name, g)' /\ LastCommit[g] = d))
                 <=> \/ d = c
                     \/ \E g \in GitFiles : (\E n \in LinesOf(name, g) : Blame[g][n] = d) \/ (EmptyOf(name, g) /\ LastCommit[g] = d)
      BY <1>2, <2>2
    <3> QED
      BY <1>4, <1>7, <1>13, <3>1, <3>2
  <2>5. stats'[name].files = {g \in GitFiles : LinesOf(name, g)' # {} \/ EmptyOf(name, g)'}
    <3>1. stats[name].files = {g \in GitFiles : LinesOf(name, g) # {} \/ EmptyOf(name, g)}
      BY <2>1 DEF StatsOK
    <3> QED
      BY <1>7, <1>13, <2>2, <3>1
  <2> QED
    BY <2>3, <2>4, <2>5 DEF StatsOK
<1>14. \A other \in Names : StatsOK(other)'
  <2>1. CASE hasLines[f]
    BY <1>12, <2>1
  <2>2. CASE ~ hasLines[f] /\ UNCHANGED unreadable /\ AddStat(name, c, f, FALSE)
    BY <1>12, <1>13, <2>2
  <2>3. CASE ~ hasLines[f] /\ UNCHANGED stats /\ unreadable' = unreadable \union {f}
    <3>1. unreadable' # unreadable
      BY <1>5, <2>3
    <3> QED
      BY <1>12, <2>3, <3>1
  <2> QED
    BY <1>3, <2>1, <2>2, <2>3
<1> QED
  BY <1>8, <1>9, <1>10, <1>14 DEF FameInv

LEMMA FameStutters == FameInv /\ UNCHANGED fameVars => FameInv'
<1> SUFFICES ASSUME FameInv, UNCHANGED fameVars PROVE FameInv'
  OBVIOUS
<1>1. UNCHANGED <<opts, blamer, output, curCommit, authors, hasLines, stats, unreadable>>
  BY DEF fameVars
<1>2. FameTypeOK' /\ FameTypes'
  BY <1>1 DEF FameInv, FameTypeOK, FameTypes
<1>3. \A g \in GitFiles : BlameOK(g)'
  BY <1>1, OthersKeep
<1>4. \A name \in Names, g \in GitFiles : /\ LinesOf(name, g)' = LinesOf(name, g)
                                          /\ EmptyOf(name, g)' <=> EmptyOf(name, g)
  <2>1. \A c : NameOf(c)' = NameOf(c)
    BY <1>1 DEF NameOf
  <2> QED
    BY <1>1, <2>1 DEF LinesOf, EmptyOf
<1>5. \A name \in Names : StatsOK(name)'
  BY <1>1, <1>4, StatsKeep
<1> QED
  BY <1>2, <1>3, <1>5 DEF FameInv

\* FameInv is inductive.
LEMMA FameStep == FameInv /\ [FameNext]_fameVars => FameInv'
<1> SUFFICES ASSUME FameInv, [FameNext]_fameVars PROVE FameInv'
  OBVIOUS
<1>1. ASSUME NEW f \in GitFiles, ParseBlame(f) PROVE FameInv'
  BY <1>1, HeaderStep, TextStep
<1>2. CASE \E f \in GitFiles : BlameFails(f)
  BY <1>2, BlameFailsStep
<1>3. CASE \E f \in GitFiles : ProcessFile(f)
  BY <1>3, ProcessFileStep
<1>4. CASE \E f \in GitFiles : FileOver(f)
  BY <1>4, FileOverStep
<1>5. CASE UNCHANGED fameVars
  BY <1>5, FameStutters
<1> QED
  BY <1>1, <1>2, <1>3, <1>4, <1>5 DEF FameNext

\* What is counted of a file when all goroutines are over.
LEMMA FileCounted ==
  ASSUME FameInv, NEW f \in GitFiles, blamer[f] \in {"none", "over"}, NEW name
  PROVE  /\ f \in Targets(opts) \ unreadable =>
              /\ LinesOf(name, f) = {n \in DOMAIN Blame[f] : NameOf(Blame[f][n]) = name}
              /\ EmptyOf(name, f) <=> Blame[f] = << >> /\ NameOf(LastCommit[f]) = name
         /\ f \notin Targets(opts) \ unreadable => LinesOf(name, f) = {} /\ ~ EmptyOf(name, f)
<1>1. BlameOK(f) /\ output[f].line \in 1..(Len(Blame[f]) + 1) /\ Len(Blame[f]) \in Nat /\ DOMAIN Blame[f] = 1..Len(Blame[f])
  BY GitFacts DEF FameInv, FameTypeOK
<1>2. CASE f \in Targets(opts) \ unreadable
  <2>1. blamer[f] = "over" /\ AtEnd(f)
    BY <1>1, <1>2 DEF BlameOK
  <2>2. output[f].line - 1 = Len(Blame[f])
    BY <1>1, <2>1 DEF AtEnd
  <2> QED
    BY <1>1, <1>2, <2>1, <2>2 DEF LinesOf, EmptyOf
<1>3. CASE f \notin Targets(opts) \ unreadable
  <2>1. output[f].line = 1 /\ (f \in unreadable \/ blamer[f] # "over")
    BY <1>1, <1>3 DEF BlameOK, Top
  <2> QED
    BY <1>3, <2>1 DEF LinesOf, EmptyOf
<1> QED
  BY <1>2, <1>3

\* The order of the result has no ties.
LEMMA NoTies ==
  ASSUME FameInv, NEW a \in Names, NEW b \in Names, a # b
  PROVE  CmpStats(a, b) <=> ~ CmpStats(b, a)
<1>1. ASSUME NEW name \in Names PROVE \E x, y, z \in Nat : Keys(name) = <<x, y, z>>
  <2>1. stats[name] \in [lines : Nat, commits : SUBSET Commits, files : SUBSET GitFiles] /\ IsFiniteSet(Commits) /\ IsFiniteSet(GitFiles)
    BY FameAssumption DEF FameInv, FameTypes
  <2>2. stats[name].lines \in Nat /\ stats[name].commits \subseteq Commits /\ stats[name].files \subseteq GitFiles
    BY <2>1
  <2>3. Cardinality(stats[name].commits) \in Nat /\ Cardinality(stats[name].files) \in Nat
    BY <2>1, <2>2, FS_Subset, FS_CardinalityType
  <2>4. opts.order \in {"lines", "commits", "files"}
    BY DEF FameInv, FameTypes
  <2>5. PICK l, m, n : l = stats[name].lines /\ m = Cardinality(stats[name].commits) /\ n = Cardinality(stats[name].files)
    OBVIOUS
  <2>6. Keys(name) \in {<<l, m, n>>, <<m, l, n>>, <<n, l, m>>}
    BY <2>4, <2>5 DEF Keys
  <2> QED
    BY <2>2, <2>3, <2>5, <2>6
<1>2. PICK x, y, z \in Nat : Keys(a) = <<x, y, z>>
  BY <1>1
<1>3. PICK u, v, w \in Nat : Keys(b) = <<u, v, w>>
  BY <1>1
<1>4. /\ CmpStats(a, b) <=> \/ x = u /\ y = v /\ z = w /\ a < b
                            \/ x > u \/ (x = u /\ y > v) \/ (x = u /\ y = v /\ z > w)
      /\ CmpStats(b, a) <=> \/ x = u /\ y = v /\ z = w /\ b < a
                            \/ u > x \/ (x = u /\ v > y) \/ (x = u /\ y = v /\ w > z)
  <2>1. 1..3 = {1, 2, 3} /\ 1..(1 - 1) = {} /\ 1..(2 - 1) = {1} /\ 1..(3 - 1) = {1, 2}
    OBVIOUS
  <2>2. \A s, t : (\E k \in 1..3 : (\A j \in 1..(k - 1) : s[j] = t[j]) /\ s[k] > t[k])
                    <=> s[1] > t[1] \/ (s[1] = t[1] /\ s[2] > t[2]) \/ (s[1] = t[1] /\ s[2] = t[2] /\ s[3] > t[3])
    BY <2>1
  <2>3. Keys(a) = Keys(b) <=> x = u /\ y = v /\ z = w
    BY <1>2, <1>3
  <2> QED
    BY <1>2, <1>3, <2>2, <2>3 DEF CmpStats
<1>5. a \in Int /\ b \in Int
  BY GitFacts
<1> QED
  BY <1>4, <1>5

LEMMA FameInvSuffices == FameInv => StatsAreRight
<1> SUFFICES ASSUME FameInv, \A f \in GitFiles : blamer[f] \in {"none", "over"} PROVE StatsAreRight
  BY DEF StatsAreRight
<1> DEFINE read == Targets(opts) \ unreadable
<1>1. ASSUME NEW name \in Names
      PROVE  /\ stats[name].lines = SumFunctionOnSet([f \in GitFiles |-> ShareOf(name, f).lines], read)
             /\ stats[name].commits = UNION {ShareOf(name, f).commits : f \in read}
             /\ stats[name].files = {f \in read : ShareOf(name, f).touched}
  <2>1. StatsOK(name) /\ FameTypes
    BY DEF FameInv
  <2>2. read \subseteq GitFiles /\ IsFiniteSet(GitFiles)
    BY FameAssumption DEF Targets
  <2>3. \A f \in GitFiles :
           /\ ShareOf(name, f).lines = Cardinality({n \in DOMAIN Blame[f] : NameOf(Blame[f][n]) = name})
           /\ ShareOf(name, f).touched <=> \/ {n \in DOMAIN Blame[f] : NameOf(Blame[f][n]) = name} # {}
                                           \/ Blame[f] = << >> /\ NameOf(LastCommit[f]) = name
           /\ \A c : c \in ShareOf(name, f).commits <=>
                       \/ \E n \in {n \in DOMAIN Blame[f] : NameOf(Blame[f][n]) = name} : Blame[f][n] = c
                       \/ Blame[f] = << >> /\ NameOf(LastCommit[f]) = name /\ LastCommit[f] = c
    BY DEF ShareOf
  <2>4. \A f \in read : /\ ShareOf(name, f).lines = Cardinality(LinesOf(name, f))
                        /\ ShareOf(name, f).touched <=> LinesOf(name, f) # {} \/ EmptyOf(name, f)
                        /\ \A c : c \in ShareOf(name, f).commits <=>
                                    \/ \E n \in LinesOf(name, f) : Blame[f][n] = c
                                    \/ EmptyOf(name, f) /\ LastCommit[f] = c
    BY <2>2, <2>3, FileCounted
  <2>5. \A f \in GitFiles \ read : LinesOf(name, f) = {} /\ ~ EmptyOf(name, f)
    BY FileCounted
  <2>6. stats[name].lines = SumFunctionOnSet([f \in GitFiles |-> ShareOf(name, f).lines], read)
    <3> DEFINE counted == [f \in GitFiles |-> Cardinality(LinesOf(name, f))]
               shares == [f \in GitFiles |-> ShareOf(name, f).lines]
    <3>1. stats[name].lines = SumFunctionOnSet(counted, GitFiles)
      BY <2>1 DEF StatsOK
    <3>2. \A f \in GitFiles : counted[f] \in Int
      BY <2>1, LinesFinite
    <3>3. \A f \in GitFiles \ read : counted[f] = 0
      BY <2>5, FS_EmptySet
    <3>4. \A f \in read : counted[f] = shares[f]
      BY <2>2, <2>4
    <3>5. IsFiniteSet(read) /\ read \in SUBSET GitFiles
      BY <2>2, FS_Subset
    <3> HIDE DEF counted, shares, read
    <3>6. SumFunctionOnSet(counted, GitFiles) = SumFunctionOnSet(counted, read)
      BY <2>2, <3>2, <3>3, <3>5, SumSupport
    <3>7. SumFunctionOnSet(counted, read) = SumFunctionOnSet(shares, read)
      BY <3>4, <3>5, SumCongruence
    <3> QED
      BY <3>1, <3>6, <3>7 DEF shares
  <2>7. \A c : c \in stats[name].commits <=> \E f \in read : c \in ShareOf(name, f).commits
    <3>1. \A c : c \in stats[name].commits <=>
                   /\ c \in Commits
                   /\ \E f \in GitFiles : \/ \E n \in LinesOf(name, f) : Blame[f][n] = c
                                          \/ EmptyOf(name, f) /\ LastCommit[f] = c
      BY <2>1 DEF StatsOK
    <3>2. \A f \in GitFiles : \A n \in LinesOf(name, f) : Blame[f][n] \in Commits
      <4> SUFFICES ASSUME NEW f \in GitFiles, NEW n \in LinesOf(name, f) PROVE Blame[f][n] \in Commits
        OBVIOUS
      <4>1. n \in 1..(output[f].line - 1) /\ output[f].line \in 1..(Len(Blame[f]) + 1) /\ Len(Blame[f]) \in Nat
        BY GitFacts DEF LinesOf, FameInv, FameTypeOK
      <4>2. n \in 1..Len(Blame[f])
        BY <4>1
      <4> QED
        BY <4>2, GitFacts
    <3> HIDE DEF read
    <3> QED
      BY <2>2, <2>4, <2>5, <3>1, <3>2, GitFacts
  <2>8. stats[name].files = {f \in read : ShareOf(name, f).touched}
    <3>1. stats[name].files = {f \in GitFiles : LinesOf(name, f) # {} \/ EmptyOf(name, f)}
      BY <2>1 DEF StatsOK
    <3> HIDE DEF read
    <3> QED
      BY <2>2, <2>4, <2>5, <3>1
  <2> QED
    BY <2>6, <2>7, <2>8
<1>2. \A a, b \in Names : a # b => (CmpStats(a, b) <=> ~ CmpStats(b, a))
  BY NoTies
<1> QED
  BY <1>1, <1>2 DEF StatsAreRight

\* For any files, commits and options, whichever goroutines get past sem first.
THEOREM FameStatsAreRight == FameSpec => [](FameTypeOK /\ StatsAreRight)
<1>1. FameInv /\ [FameNext]_fameVars => FameInv'
  BY FameStep
<1>2. FameInv => FameTypeOK /\ StatsAreRight
  BY FameInvSuffices DEF FameInv
<1> QED
  BY FameStarts, <1>1, <1>2, PTL DEF FameSpec

---------------------------------------------------------------------------
(* firewall: for any config, request and answer.                           *)

\* The rules of a config.
FwPatterns == [header : STRING, pattern : Seq(STRING)]
FwRules(Body) ==
  [endpoint : STRING, forbUserAg : SUBSET STRING, forbHeaders : Seq(FwPatterns),
   reqHeaders : SUBSET STRING, maxReqLen : Int, maxRespLen : Int,
   forbRespCodes : SUBSET Int, forbReqRe : SUBSET Body, forbRespRe : SUBSET Body]

\* Below the largest int, a body goes on whole or not at all, and not when it
\* is over the limit or cannot be read to its end (main.go:120-157).
LEMMA ReadBodyRight ==
  ASSUME NEW S, NEW msg, msg.body \in Seq(S), msg.broken \in BOOLEAN,
         NEW maxLen \in Int, maxLen # LimitInt
  PROVE  LET read == ReadBody(msg, maxLen) IN
         /\ read.code = Forwarded =>
              /\ read.data = msg.body /\ ~ msg.broken
              /\ maxLen > 0 => Len(msg.body) <= maxLen
         /\ read.code # Forwarded => read.data = <<>>
<1> DEFINE n == IF maxLen <= 0 THEN Len(msg.body) + 1 ELSE maxLen + 1
           read == ReadAtMost(msg, n)
<1>0. Len(msg.body) \in Nat /\ n \in Nat
  BY LenProperties
<1>1. ReadBody(msg, maxLen) = IF read.failed THEN Refuse(BadRequest)
                              ELSE IF maxLen > 0 /\ Len(read.data) > maxLen THEN Refuse(Forbidden)
                              ELSE [data |-> read.data, code |-> Forwarded]
  BY DEF ReadBody
<1>2. /\ read.failed = (msg.broken /\ Len(msg.body) < n)
      /\ read.data = SubSeq(msg.body, 1, Min({n, Len(msg.body)}))
  BY DEF ReadAtMost
<1>3. Min({n, Len(msg.body)}) = IF n <= Len(msg.body) THEN n ELSE Len(msg.body)
  BY <1>0 DEF Min
<1>4. CASE Len(msg.body) < n
  <2>1. read.data = msg.body
    <3>1. read.data = SubSeq(msg.body, 1, Len(msg.body))
      <4>1. Min({n, Len(msg.body)}) = Len(msg.body)
        BY <1>0, <1>3, <1>4
      <4> QED
        BY <4>1, <1>2
    <3> QED
      BY <3>1
  <2>2. read.failed = msg.broken
    BY <1>2, <1>4
  <2>3. maxLen > 0 => Len(msg.body) <= maxLen
    BY <1>0, <1>4
  <2>4. ReadBody(msg, maxLen) = IF msg.broken THEN Refuse(BadRequest)
                                ELSE [data |-> msg.body, code |-> Forwarded]
    <3> HIDE DEF read, n
    <3> QED
      BY <2>1, <2>2, <2>3, <1>0, <1>1
  <2> HIDE DEF read, n
  <2> QED
    BY <2>3, <2>4 DEF Refuse, Forwarded, BadRequest, Forbidden
<1>5. CASE Len(msg.body) >= n
  <2>1. maxLen > 0 /\ n = maxLen + 1
    BY <1>0, <1>5
  <2>2. read.data = SubSeq(msg.body, 1, n)
    BY <1>0, <1>2, <1>3, <1>5
  <2>3. Len(read.data) = n
    BY <2>2, <1>0, <1>5
  <2> HIDE DEF read
  <2>4. ReadBody(msg, maxLen) = Refuse(BadRequest) \/ ReadBody(msg, maxLen) = Refuse(Forbidden)
    BY <1>1, <2>1, <2>3
  <2> QED
    BY <2>4 DEF Refuse, Forwarded, BadRequest, Forbidden
<1> QED
  BY <1>0, <1>4, <1>5

\* What the loop of main gives for an endpoint is the last rule of it
\* (main.go:242-271).
LEMMA LastRule ==
  ASSUME NEW S, NEW config \in Seq(S), NEW i \in DOMAIN config,
         \A j \in DOMAIN config : j > i => config[j].endpoint # config[i].endpoint
  PROVE  /\ config[i].endpoint \in DOMAIN CompileRules(config)
         /\ CompileRules(config)[config[i].endpoint] =
              [config[i] EXCEPT !.forbHeaders = CompileHeaders(@)]
<1> DEFINE e == config[i].endpoint
           last == CHOOSE k \in DOMAIN config :
                     /\ config[k].endpoint = e
                     /\ \A j \in DOMAIN config : config[j].endpoint = e => j <= k
<1>1. DOMAIN config = 1..Len(config) /\ Len(config) \in Nat
  BY LenProperties
<1>2. \A j \in DOMAIN config : config[j].endpoint = e => j <= i
  BY <1>1
<1>3. \A k \in DOMAIN config :
        (/\ config[k].endpoint = e
         /\ \A j \in DOMAIN config : config[j].endpoint = e => j <= k) => k = i
  BY <1>1, <1>2
<1>4. last = i
  BY <1>2, <1>3
<1>5. e \in {rule.endpoint : rule \in ToSet(config)}
  BY <1>1 DEF ToSet
<1> QED
  BY <1>4, <1>5 DEF CompileRules

\* A header with patterns has what is kept of its last one (main.go:247-254).
LEMMA LastPattern ==
  ASSUME NEW S, NEW patterns \in Seq(S), NEW i \in DOMAIN patterns,
         \A j \in DOMAIN patterns : j > i => patterns[j].header # patterns[i].header
  PROVE  /\ patterns[i].header \in DOMAIN CompileHeaders(patterns)
         /\ CompileHeaders(patterns)[patterns[i].header] = Kept(patterns[i].pattern)
<1> DEFINE h == patterns[i].header
           last == CHOOSE k \in DOMAIN patterns :
                     /\ patterns[k].header = h
                     /\ \A j \in DOMAIN patterns : patterns[j].header = h => j <= k
<1>1. DOMAIN patterns = 1..Len(patterns) /\ Len(patterns) \in Nat
  BY LenProperties
<1>2. \A j \in DOMAIN patterns : patterns[j].header = h => j <= i
  BY <1>1
<1>3. \A k \in DOMAIN patterns :
        (/\ patterns[k].header = h
         /\ \A j \in DOMAIN patterns : patterns[j].header = h => j <= k) => k = i
  BY <1>1, <1>2
<1>4. last = i
  BY <1>2, <1>3
<1>5. h \in {p.header : p \in ToSet(patterns)}
  BY <1>1 DEF ToSet
<1> QED
  BY <1>4, <1>5 DEF CompileHeaders

\* For any config, request and answer: what the service or the client gets is
\* the whole body or nothing, and only when the last rule of the path allows it;
\* of the patterns of a header only the last one counts, and what is said of it
\* is said of a word, of which the config keeps all (main.go:56-157, 242-271).
THEOREM FirewallKeepsTheLastRule ==
  ASSUME NEW Byte, NEW config \in Seq(FwRules(Seq(Byte))), NEW r, NEW resp,
         r.body \in Seq(Byte), r.broken \in BOOLEAN,
         resp.body \in Seq(Byte), resp.broken \in BOOLEAN
  PROVE  FirewallRight(config, r, resp, Handle(config, r, resp))
<1> SUFFICES ASSUME NEW i \in DOMAIN config, config[i].endpoint = r.path,
                    \A j \in DOMAIN config : j > i => config[j].endpoint # r.path
             PROVE  LET rule == config[i]
                        answer == Handle(config, r, resp) IN
    /\ (answer.sent # {} /\ rule.maxReqLen # LimitInt) =>
         /\ answer.sent = {r.body} /\ ~ r.broken
         /\ rule.maxReqLen > 0 => Len(r.body) <= rule.maxReqLen
         /\ r.agent \notin rule.forbUserAg /\ r.body \notin rule.forbReqRe
         /\ rule.reqHeaders \subseteq DOMAIN r.headers
         /\ \A k \in DOMAIN rule.forbHeaders : LET p == rule.forbHeaders[k] IN
              (Kept(p.pattern) = p.pattern /\ HeaderMatches(p, r)) =>
                \E l \in DOMAIN rule.forbHeaders : l > k /\ rule.forbHeaders[l].header = p.header
    /\ (answer.data # <<>> /\ rule.maxRespLen # LimitInt) =>
         /\ answer.data = resp.body /\ answer.code = resp.code
         /\ resp.code \notin rule.forbRespCodes /\ resp.body \notin rule.forbRespRe
         /\ rule.maxRespLen > 0 => Len(resp.body) <= rule.maxRespLen
  BY DEF FirewallRight
<1> DEFINE rule == config[i]
           answer == Handle(config, r, resp)
           headers == CompileHeaders(rule.forbHeaders)
           compiled == [rule EXCEPT !.forbHeaders = headers]
           request == RequestHandler(compiled, r)
           reply == ResponseHandler(compiled, resp)
<1>1. rule \in FwRules(Seq(Byte))
  BY ElementOfSeq, LenProperties
<1>2. /\ r.path \in DOMAIN CompileRules(config)
      /\ CompileRules(config)[r.path] = compiled
  BY LastRule
<1>3. /\ compiled.forbHeaders = headers
      /\ compiled.forbUserAg = rule.forbUserAg
      /\ compiled.reqHeaders = rule.reqHeaders
      /\ compiled.forbReqRe = rule.forbReqRe
      /\ compiled.forbRespRe = rule.forbRespRe
      /\ compiled.forbRespCodes = rule.forbRespCodes
      /\ compiled.maxReqLen = rule.maxReqLen
      /\ compiled.maxRespLen = rule.maxRespLen
  <2> HIDE DEF headers
  <2> QED
    BY <1>1 DEF FwRules
<1>4. rule.maxReqLen \in Int /\ rule.maxRespLen \in Int /\ rule.forbHeaders \in Seq(FwPatterns)
  BY <1>1 DEF FwRules
<1>5. \/ answer = NoServer
      \/ answer = IF request.code # Forwarded
                  THEN [sent |-> {}, code |-> request.code, data |-> <<>>]
                  ELSE IF resp.down
                  THEN [sent |-> {request.data}, code |-> BadGateway, data |-> <<>>]
                  ELSE [sent |-> {request.data}, code |-> reply.code, data |-> reply.data]
  <2> HIDE DEF compiled
  <2> QED
    BY <1>2 DEF Handle
<1> HIDE DEF compiled, headers, answer
<1>6. (answer.sent # {} /\ rule.maxReqLen # LimitInt) =>
         /\ answer.sent = {r.body} /\ ~ r.broken
         /\ rule.maxReqLen > 0 => Len(r.body) <= rule.maxReqLen
         /\ r.agent \notin rule.forbUserAg /\ r.body \notin rule.forbReqRe
         /\ rule.reqHeaders \subseteq DOMAIN r.headers
         /\ \A k \in DOMAIN rule.forbHeaders : LET p == rule.forbHeaders[k] IN
              (Kept(p.pattern) = p.pattern /\ HeaderMatches(p, r)) =>
                \E l \in DOMAIN rule.forbHeaders : l > k /\ rule.forbHeaders[l].header = p.header
  <2> SUFFICES ASSUME answer.sent # {}, rule.maxReqLen # LimitInt
               PROVE  /\ answer.sent = {r.body} /\ ~ r.broken
                      /\ rule.maxReqLen > 0 => Len(r.body) <= rule.maxReqLen
                      /\ r.agent \notin rule.forbUserAg /\ r.body \notin rule.forbReqRe
                      /\ rule.reqHeaders \subseteq DOMAIN r.headers
                      /\ \A k \in DOMAIN rule.forbHeaders : LET p == rule.forbHeaders[k] IN
                           (Kept(p.pattern) = p.pattern /\ HeaderMatches(p, r)) =>
                             \E l \in DOMAIN rule.forbHeaders :
                               l > k /\ rule.forbHeaders[l].header = p.header
    OBVIOUS
  <2> DEFINE read == ReadBody(r, rule.maxReqLen)
  <2>1. request.code = Forwarded /\ answer.sent = {request.data}
    <3> HIDE DEF request, reply
    <3> QED
      BY <1>5 DEF NoServer
  <2>2. /\ r.agent \notin rule.forbUserAg
        /\ \A h \in DOMAIN headers \intersect DOMAIN r.headers :
             \A v \in r.headers[h] : ~ Matches(headers[h], v)
        /\ rule.reqHeaders \subseteq DOMAIN r.headers
        /\ ~ (read.code = Forwarded /\ read.data \in rule.forbReqRe)
        /\ request = read
    <3> HIDE DEF read
    <3>1. request = IF \/ r.agent \in rule.forbUserAg
                       \/ \E h \in DOMAIN headers \intersect DOMAIN r.headers :
                            \E v \in r.headers[h] : Matches(headers[h], v)
                       \/ ~ (rule.reqHeaders \subseteq DOMAIN r.headers)
                       \/ read.code = Forwarded /\ read.data \in rule.forbReqRe
                    THEN Refuse(Forbidden) ELSE read
      BY <1>3 DEF RequestHandler, read
    <3>2. Refuse(Forbidden).code # Forwarded
      BY DEF Refuse, Forbidden, Forwarded
    <3> QED
      BY <3>1, <3>2, <2>1
  <2> HIDE DEF request
  <2>3. /\ read.code = Forwarded /\ read.data = r.body /\ ~ r.broken
        /\ rule.maxReqLen > 0 => Len(r.body) <= rule.maxReqLen
    BY <2>1, <2>2, <1>4, ReadBodyRight
  <2>4. ASSUME NEW k \in DOMAIN rule.forbHeaders,
               Kept(rule.forbHeaders[k].pattern) = rule.forbHeaders[k].pattern,
               HeaderMatches(rule.forbHeaders[k], r),
               ~ \E l \in DOMAIN rule.forbHeaders :
                   l > k /\ rule.forbHeaders[l].header = rule.forbHeaders[k].header
        PROVE  FALSE
    <3>1. /\ rule.forbHeaders[k].header \in DOMAIN headers
          /\ headers[rule.forbHeaders[k].header] = rule.forbHeaders[k].pattern
      BY <2>4, <1>4, LastPattern DEF headers
    <3> QED
      BY <3>1, <2>2, <2>4 DEF HeaderMatches
  <2> HIDE DEF read, rule
  <2> QED
    BY <2>1, <2>2, <2>3, <2>4
<1>7. (answer.data # <<>> /\ rule.maxRespLen # LimitInt) =>
         /\ answer.data = resp.body /\ answer.code = resp.code
         /\ resp.code \notin rule.forbRespCodes /\ resp.body \notin rule.forbRespRe
         /\ rule.maxRespLen > 0 => Len(resp.body) <= rule.maxRespLen
  <2> SUFFICES ASSUME answer.data # <<>>, rule.maxRespLen # LimitInt
               PROVE  /\ answer.data = resp.body /\ answer.code = resp.code
                      /\ resp.code \notin rule.forbRespCodes /\ resp.body \notin rule.forbRespRe
                      /\ rule.maxRespLen > 0 => Len(resp.body) <= rule.maxRespLen
    OBVIOUS
  <2> DEFINE read == ReadBody(resp, rule.maxRespLen)
  <2>1. answer.code = reply.code /\ answer.data = reply.data /\ reply.data # <<>>
    <3> HIDE DEF request, reply
    <3> QED
      BY <1>5 DEF NoServer
  <2>2. reply = IF \/ resp.code \in rule.forbRespCodes
                   \/ read.code = Forwarded /\ read.data \in rule.forbRespRe
                THEN Refuse(Forbidden)
                ELSE IF read.code # Forwarded THEN read
                ELSE [data |-> read.data, code |-> resp.code]
    BY <1>3 DEF ResponseHandler
  <2>3. Refuse(Forbidden).data = <<>>
    BY DEF Refuse
  <2>4. /\ read.code = Forwarded =>
             /\ read.data = resp.body
             /\ rule.maxRespLen > 0 => Len(resp.body) <= rule.maxRespLen
        /\ read.code # Forwarded => read.data = <<>>
    BY <1>4, ReadBodyRight
  <2> HIDE DEF read, reply, rule
  <2> QED
    BY <2>1, <2>2, <2>3, <2>4
<1> QED
  BY <1>6, <1>7 DEF answer
=============================================================================
