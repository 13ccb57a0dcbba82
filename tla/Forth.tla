-------------------------------- MODULE Forth -------------------------------
(***************************************************************************)
(* forth/eval.go: an evaluator that is given rows.                         *)
(*                                                                         *)
(* The stack is a Go slice.  arr is its backing array, as long as its      *)
(* capacity, and len its length; while the slice at hand still has the     *)
(* array of e.stack (shared), what it writes is also in e.stack (old), and *)
(* an append beyond the capacity takes a new array of twice the size.      *)
(* Words and numbers are strings in lower case; ints do not overflow.      *)
(***************************************************************************)
EXTENDS Integers, Sequences, FiniteSets, SequencesExt

CONSTANTS Rows,       \* rows that may be given, as sequences of tokens
          Numbers,    \* the tokens that are numbers: a record of their values
          MaxRows, MaxLen

VARIABLES estack,     \* [arr, len]: e.stack
          words,      \* words[w]: what is captured for w, in order
          given,      \* the rows so far
          answer      \* what Process has returned last, and the stack before

forthVars == <<estack, words, given, answer>>

Primitives == {"+", "-", "*", "/", "dup", "drop", "swap", "over"}

Failed(s) == [s EXCEPT !.ok = FALSE]
Write(s, i, v) == [s EXCEPT !.arr[i] = v, !.old = IF s.shared THEN [@ EXCEPT ![i] = v] ELSE @]
Push(s, v) ==
  LET cap == Len(s.arr)
      grown == [i \in 1..(IF cap = 0 THEN 1 ELSE 2 * cap) |-> IF i <= cap THEN s.arr[i] ELSE 0]
      room == IF s.len < cap THEN s ELSE [s EXCEPT !.arr = grown, !.shared = FALSE]
  IN Write([room EXCEPT !.len = @ + 1], s.len + 1, v)
Pop(s, n) == [s EXCEPT !.len = @ - n]

\* Go divides towards zero.
Quotient(a, b) == IF (a < 0) = (b < 0) THEN a \div b ELSE -((-a) \div b)
Arith(op, a, b) == CASE op = "+" -> a + b [] op = "-" -> a - b [] op = "*" -> a * b
                     [] op = "/" -> Quotient(a, b)

Primitive(s, op) ==
  IF s.len < (IF op \in {"dup", "drop"} THEN 1 ELSE 2) THEN Failed(s)
  ELSE LET a == IF s.len > 1 THEN s.arr[s.len - 1] ELSE 0
           b == s.arr[s.len]
       IN CASE op \in {"+", "-", "*", "/"} -> IF op = "/" /\ b = 0 THEN Failed(s)
                                              ELSE Push(Pop(s, 2), Arith(op, a, b))
            [] op = "dup" -> Push(s, b)
            [] op = "drop" -> Pop(s, 1)
            [] op = "swap" -> Write(Write(s, s.len, a), s.len - 1, b)
            [] op = "over" -> Push(s, a)

\* A captured step is a primitive, or a token that was no word at that time.
Execute(s, step) ==
  IF ~ s.ok THEN s
  ELSE IF step.is = "primitive" THEN Primitive(s, step.of)
  ELSE IF step.of \in DOMAIN Numbers THEN Push(s, Numbers[step.of]) ELSE Failed(s)

\* mutant: the body of a word is kept as it is written
KeepText(token) == IF token \in Primitives THEN words[token] ELSE <<[is |-> "text", of |-> token]>>

Capture(token) == IF token \in DOMAIN words THEN words[token] ELSE <<[is |-> "text", of |-> token]>>

ForthInit == /\ estack = [arr |-> <<>>, len |-> 0]
             /\ words = [p \in Primitives |-> <<[is |-> "primitive", of |-> p]>>]
             /\ given = <<>>
             /\ answer = [ok |-> TRUE, stack |-> <<>>, before |-> <<>>]

Contents(s) == SubSeq(s.arr, 1, s.len)
Return(ok, stack) == answer' = [ok |-> ok, stack |-> stack, before |-> Contents(estack)]

DefineWord(row) ==
  /\ IF Len(row) < 4 \/ row[Len(row)] # ";" \/ row[2] \in DOMAIN Numbers
     THEN Return(FALSE, <<>>) /\ UNCHANGED words
     ELSE /\ words' = LET body == FlattenSeq([i \in 1..(Len(row) - 3) |-> Capture(row[i + 2])])
                      IN [w \in DOMAIN words \union {row[2]} |-> IF w = row[2] THEN body ELSE words[w]]
          /\ Return(TRUE, Contents(estack))
  /\ UNCHANGED estack

\* A row that fails leaves e.stack where it is, but not what is in its array.
EvalTokens(row) ==
  LET start == [arr |-> estack.arr, len |-> estack.len, old |-> estack.arr, shared |-> TRUE, ok |-> TRUE]
      end == FoldLeft(Execute, start, FlattenSeq([i \in DOMAIN row |-> Capture(row[i])]))
  IN /\ Return(end.ok, IF end.ok THEN Contents(end) ELSE <<>>)
     /\ estack' = IF end.ok THEN [arr |-> end.arr, len |-> end.len] ELSE [estack EXCEPT !.arr = end.old]
     /\ UNCHANGED words

Process(row) ==
  /\ Len(given) < MaxRows /\ estack.len <= MaxLen
  /\ given' = Append(given, row)
  /\ IF row # <<>> /\ row[1] = ":" THEN DefineWord(row) ELSE EvalTokens(row)

ForthNext == \E row \in Rows : Process(row)

---------------------------------------------------------------------------
(* Properties                                                              *)

\* Forth by its meaning: a stack is a sequence, and a word stands for what it
\* was defined as, read at the place of the definition.
IsDefinition(row) ==
  row # <<>> /\ row[1] = ":" /\ Len(row) >= 4 /\ row[Len(row)] = ";" /\ row[2] \notin DOMAIN Numbers

RECURSIVE Meant(_, _)
Meant(tokens, k) ==      \* tokens that stand behind the first k rows
  LET last(t) == {j \in 1..k : IsDefinition(given[j]) /\ given[j][2] = t}
  IN FlattenSeq([i \in DOMAIN tokens |->
       IF last(tokens[i]) = {} THEN <<tokens[i]>>
       ELSE LET j == Max(last(tokens[i]))
            IN Meant(SubSeq(given[j], 3, Len(given[j]) - 1), j - 1)])

Applicable(stack, token) ==
  /\ token \in Primitives \union DOMAIN Numbers
  /\ token \in {"dup", "drop"} => Len(stack) >= 1
  /\ token \in Primitives \ {"dup", "drop"} => Len(stack) >= 2
  /\ token = "/" => stack[Len(stack)] # 0

Applied(stack, token) ==
  LET Top(k) == stack[Len(stack) + 1 - k]
      Below(k) == SubSeq(stack, 1, Len(stack) - k)
  IN CASE token \in DOMAIN Numbers -> Append(stack, Numbers[token])
       [] token \in {"+", "-", "*", "/"} -> Append(Below(2), Arith(token, Top(2), Top(1)))
       [] token = "dup" -> Append(stack, Top(1))
       [] token = "drop" -> Below(1)
       [] token = "swap" -> Below(2) \o <<Top(1), Top(2)>>
       [] token = "over" -> Append(stack, Top(2))

\* A row answers what it means on the stack as it was before the row, whatever
\* array an earlier row has left behind, and that is the stack then; a row
\* that fails keeps the number of elements, though not their values
\* (eval.go:91-161).
RowsMeanWhatTheySay ==
  given # <<>> =>
    LET row == Last(given)
        tokens == Meant(row, Len(given) - 1)
        means == FoldLeft(LAMBDA r, t : IF r.ok /\ Applicable(r.stack, t)
                                        THEN [ok |-> TRUE, stack |-> Applied(r.stack, t)]
                                        ELSE [ok |-> FALSE, stack |-> <<>>],
                          [ok |-> TRUE, stack |-> answer.before], tokens)
    IN IF row # <<>> /\ row[1] = ":"
       THEN answer.ok = IsDefinition(row) /\ Contents(estack) = answer.before
       ELSE /\ answer.ok = means.ok /\ answer.stack = means.stack
            /\ estack.len = Len(IF means.ok THEN means.stack ELSE answer.before)
            /\ means.ok => Contents(estack) = means.stack
=============================================================================
