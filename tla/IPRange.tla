------------------------------ MODULE IPRange ------------------------------
(***************************************************************************)
(* iprange/: the lexer, the generated LALR parser with its tables, the     *)
(* actions of the grammar, and the expansion of ranges.                    *)
(*                                                                         *)
(* A text is a sequence of one-character strings, "nul" for the NUL; what  *)
(* is invalid UTF-8 is not in it, nor are the runes from U+E000 on.  An    *)
(* address is four octets of OctetBits bits.  NumLimit is where ParseUint  *)
(* fails.                                                                  *)
(***************************************************************************)
EXTENDS Integers, Sequences, FiniteSets, SequencesExt

CONSTANTS OctetBits, NumLimit

Byte == 2^OctetBits

---------------------------------------------------------------------------
(* The lexer                                                               *)

IPDigits == {"0", "1", "2", "3", "4", "5", "6", "7", "8", "9"}
DigitValue(c) == CHOOSE n \in 0..9 : ToString(n) = c

Tok(name) == CASE name = "end" -> 1 [] name = "unknown" -> 3 [] name = "num" -> 4
               [] name = "," -> 5 [] name = " " -> 6 [] name = "/" -> 7
               [] name = "." -> 8 [] name = "*" -> 9 [] name = "-" -> 10
ErrTok == 2

From(s, n) == SubSeq(s, n, Len(s))

\* The token at the head of line and what is left: a number takes the NUL
\* behind it with it, any other NUL is the end, a number too large as well.
Lex(line) ==
  LET n == Min({k \in 0..Len(line) : k = Len(line) \/ line[k + 1] \notin IPDigits})
      octet == FoldLeft(LAMBDA x, c : IF x > NumLimit THEN x ELSE x * 10 + DigitValue(c),
                        0, SubSeq(line, 1, n))
      skipped == IF n < Len(line) /\ line[n + 1] = "nul" THEN n + 1 ELSE n
      token(name, value, k) == [tok |-> Tok(name), num |-> value, line |-> From(line, k + 1)]
  IN CASE line = <<>> -> token("end", 0, 0)
       [] n > 0 -> IF octet > NumLimit THEN token("end", 0, skipped)
                   ELSE token("num", octet % Byte, skipped)
       [] line # <<>> /\ n = 0 ->
            CASE line[1] = "nul" -> token("end", 0, 1)
              [] line[1] \in {",", " ", "/", ".", "*", "-"} -> token(line[1], 0, 1)
              [] OTHER -> token("unknown", 0, 1)

---------------------------------------------------------------------------
(* The parser: the tables of y.go are indexed from 0.                      *)

At(table, n) == table[n + 1]
Act  == <<4, 5, 12, 20, 2, 10, 6, 18, 11, 14, 9, 17, 16, 13, 15, 8, 1, 7, 3, 19, 0, 21>>
Pact == <<-3, 5, -1000, -2, 0, -8, -1000, -1000, -3, 3, 10, -3, 7, -1000, -1000, -1000, -1,
          -1000, -3, -5, -3, -1000>>
Pgo  == <<0, 18, 4, 0, 17, 16, 15>>
R1   == <<0, 5, 5, 6, 6, 2, 2, 1, 3, 3, 3, 4>>
R2   == <<0, 1, 3, 1, 2, 3, 1, 7, 1, 1, 1, 3>>
Chk  == <<-1000, -5, -2, -1, -3, 4, 9, -4, -6, 5, 7, 8, 10, -2, 6, 4, -3, 4, 8, -3, 8, -3>>
Def  == <<0, -2, 1, 6, 0, 8, 9, 10, 0, 3, 0, 0, 0, 2, 4, 5, 0, 11, 0, 0, 0, 7>>
Flag == -1000
LastAct == 22

Shifts(state, tok) == LET n == At(Pact, state) + tok IN
  At(Pact, state) > Flag /\ n \in 0..(LastAct - 1) /\ At(Chk, At(Act, n)) = tok

\* The default action; ipExca has one exception: state 1 accepts at the end.
Default(state, tok) ==
  IF At(Def, state) # -2 THEN At(Def, state) ELSE IF tok = Tok("end") THEN -1 ELSE 0

ParserGoto(state, nonterminal) ==
  LET g == At(Pgo, nonterminal)
      j == g + state + 1
  IN IF j < LastAct /\ At(Chk, At(Act, j)) = -nonterminal THEN At(Act, j) ELSE At(Act, g)

\* address/num: an octet of the mask, and nothing (a nil mask, the parser
\* panics) when num is more than the bits of an address.
CIDR(addr, num) ==
  LET Host(i) == LET left == num - (i - 1) * OctetBits
                 IN 2^(OctetBits - (IF left < 0 THEN 0 ELSE IF left > OctetBits THEN OctetBits ELSE left))
  IN [min |-> [i \in 1..4 |-> addr.min[i] - (addr.min[i] % Host(i))],
      max |-> [i \in 1..4 |-> addr.min[i] - (addr.min[i] % Host(i)) + Host(i) - 1]]

\* What the production makes of the values d of its right side.
Value(production, d) ==
  CASE production = 1 -> <<d[1]>>
    [] production = 2 -> Append(d[1], d[3])
    [] production = 5 -> CIDR(d[1], d[3])
    [] production = 7 -> [min |-> <<d[1].min, d[3].min, d[5].min, d[7].min>>,
                          max |-> <<d[1].max, d[3].max, d[5].max, d[7].max>>]
    [] production = 8 -> [min |-> d[1], max |-> d[1]]
    [] production = 9 -> [min |-> 0, max |-> Byte - 1]
    [] production = 11 -> [min |-> d[1], max |-> d[3]]
    [] production \in {3, 4, 6, 10} -> d[1]

\* The loop of Parse: stack has the states and values, look the token read
\* ahead.  No state shifts the error token, so an error ends the parse.
RECURSIVE ParseFrom(_, _, _)
ParseFrom(stack, look, line) ==
  LET state == Last(stack).state
      reads == look = <<>> /\ (At(Pact, state) > Flag \/ At(Def, state) = -2)
      read == Lex(line)
      token == IF reads THEN read ELSE IF look = <<>> THEN [tok |-> 0] ELSE look[1]
      left == IF reads THEN read.line ELSE line
      production == Default(state, token.tok)
      k == Len(stack) - At(R2, production)
      d == [i \in 1..At(R2, production) |-> stack[k + i].value]
      next == ParserGoto(stack[k].state, At(R1, production))
  IN IF Shifts(state, token.tok)
     THEN ParseFrom(Append(stack, [state |-> At(Act, At(Pact, state) + token.tok),
                                   value |-> token.num]), <<>>, left)
     ELSE IF production = -1 THEN [is |-> "list", list |-> Last(stack).value]
     ELSE IF production = 0 THEN [is |-> "error", list |-> <<>>]
     ELSE IF production = 5 /\ d[3] > 4 * OctetBits THEN [is |-> "panic", list |-> <<>>]
     ELSE ParseFrom(Append(SubSeq(stack, 1, k), [state |-> next, value |-> Value(production, d)]),
                    IF look = <<>> /\ ~ reads THEN <<>> ELSE <<token>>, left)

ParseList(text) == ParseFrom(<<[state |-> 0, value |-> 0]>>, <<>>, text)

---------------------------------------------------------------------------
(* Expansion                                                               *)

\* streamRange: an odometer over the spans of the octets, each modulo Byte; the
\* diff of line 26 is a uint32, so the panic of line 30 never comes.
RECURSIVE Odometer(_, _, _)
Odometer(lower, span, mask) ==
  LET below == {i \in 1..4 : mask[i] < span[i]}
      next == [k \in 1..4 |-> CASE k < Max(below) -> mask[k] [] k = Max(below) -> mask[k] + 1
                                [] k > Max(below) -> 0]
  IN <<[k \in 1..4 |-> (lower[k] + mask[k]) % Byte]>>
       \o (IF below = {} THEN <<>> ELSE Odometer(lower, span, next))

StreamRange(r) == Odometer(r.min, [k \in 1..4 |-> (r.max[k] - r.min[k]) % Byte], <<0, 0, 0, 0>>)

NumberOf(ip) == ((ip[1] * Byte + ip[2]) * Byte + ip[3]) * Byte + ip[4]
Normalize(ips) ==
  LET sorted == SortSeq(ips, LAMBDA a, b : NumberOf(a) < NumberOf(b))
  IN FoldLeft(LAMBDA dst, ip : IF Last(dst) = ip THEN dst ELSE Append(dst, ip),
              <<Head(sorted)>>, sorted)

Expand(list) == Normalize(FlattenSeq([i \in DOMAIN list |-> StreamRange(list[i])]))

---------------------------------------------------------------------------
(* Properties                                                              *)

\* The grammar without its tables: targets between commas, with one space
\* behind a comma at most; a target is four octets and perhaps a mask.
SplitAt(s, c) ==
  FoldLeft(LAMBDA parts, x : IF x = c THEN Append(parts, <<>>)
                             ELSE [parts EXCEPT ![Len(parts)] = Append(@, x)], <<<<>>>>, s)

IsNum(s) == s # <<>> /\ ToSet(s) \subseteq IPDigits
NumOf(s) == FoldLeft(LAMBDA x, c : x * 10 + DigitValue(c), 0, s)
IsOctet(s) == \/ s = <<"*">>
              \/ Len(SplitAt(s, "-")) <= 2 /\ \A i \in DOMAIN SplitAt(s, "-") : IsNum(SplitAt(s, "-")[i])
OctetOf(s) == IF s = <<"*">> THEN [min |-> 0, max |-> Byte - 1]
              ELSE [min |-> NumOf(Head(SplitAt(s, "-"))) % Byte,
                    max |-> NumOf(Last(SplitAt(s, "-"))) % Byte]

IsTarget(s) ==
  LET parts == SplitAt(s, "/")
      octets == SplitAt(parts[1], ".")
  IN /\ Len(parts) \in {1, 2} /\ (Len(parts) = 2 => IsNum(parts[2]))
     /\ Len(octets) = 4 /\ \A i \in 1..4 : IsOctet(octets[i])

\* With a mask, the addresses that agree with the lowest one in the bits of
\* the mask.
TargetOf(s) ==
  LET octets == SplitAt(SplitAt(s, "/")[1], ".")
      hosts == 2^(4 * OctetBits - (NumOf(SplitAt(s, "/")[2]) % Byte))
      low == NumberOf([i \in 1..4 |-> OctetOf(octets[i]).min])
      Octets(n) == [i \in 1..4 |-> (n \div Byte^(4 - i)) % Byte]
  IN IF Len(SplitAt(s, "/")) = 1
     THEN [min |-> [i \in 1..4 |-> OctetOf(octets[i]).min], max |-> [i \in 1..4 |-> OctetOf(octets[i]).max]]
     ELSE [min |-> Octets((low \div hosts) * hosts), max |-> Octets((low \div hosts) * hosts + hosts - 1)]

\* A text is a list exactly when the grammar says so, and then with the ranges
\* it says.  One with a mask beyond the address is no list; what becomes of it
\* is not said here: the code panics (y.go:492), the bug that README.md:5 tells
\* of.  A number too large ends the text, as a NUL does that is not behind a
\* number (y.go:297-540, lex.go:22-86).
IPRangeRight(text, answer) ==
  LET Swallowed(i) == text[i] = "nul" /\ i > 1 /\ text[i - 1] \in IPDigits
      stop == Min({Len(text) + 1} \union {i \in DOMAIN text : text[i] = "nul" /\ ~ Swallowed(i)})
      shown == SelectSeq([i \in 1..(stop - 1) |-> text[i]], LAMBDA c : c # "nul")
      fused == \E i \in 2..(stop - 2) : Swallowed(i) /\ text[i + 1] \in IPDigits
      cut == SplitAt(shown, ",")
      Trim(s) == IF s # <<>> /\ s[1] = " " THEN Tail(s) ELSE s
      targets == [i \in DOMAIN cut |-> IF i = 1 THEN cut[i] ELSE Trim(cut[i])]
      MaskOf(s) == LET m == SplitAt(s, "/")[2]
                   IN NumOf(SubSeq(m, 1, Min({n \in 0..Len(m) : n = Len(m) \/ m[n + 1] \notin IPDigits})))
      beyond == {i \in DOMAIN targets : /\ Len(SplitAt(targets[i], "/")) > 1
                                        /\ MaskOf(targets[i]) % Byte > 4 * OctetBits}
      large == \E n \in 1..Len(shown) : \E m \in n..Len(shown) :
                 IsNum(SubSeq(shown, n, m)) /\ NumOf(SubSeq(shown, n, m)) > NumLimit
  IN /\ \A state \in 0..21 : ~ Shifts(state, ErrTok)
     /\ ~ fused /\ ~ large =>
          IF beyond # {} THEN answer.is # "list"
          ELSE answer = IF \A i \in DOMAIN targets : IsTarget(targets[i])
                        THEN [is |-> "list", list |-> [i \in DOMAIN targets |-> TargetOf(targets[i])]]
                        ELSE [is |-> "error", list |-> <<>>]
     /\ fused \/ large => answer.is # "list"

Ascends(r) == \A k \in 1..4 : r.min[k] <= r.max[k]

\* An expansion of ranges that go up in every octet has every address of every
\* range once, in order (funcs.go:11-95).  For ranges that go down the panic of
\* funcs.go:30 is meant, but never met: the difference it looks at is unsigned.
ExpandRight(list, ips) ==
  LET Addresses(r) == {<<a, b, c, d>> : a \in r.min[1]..r.max[1], b \in r.min[2]..r.max[2],
                                        c \in r.min[3]..r.max[3], d \in r.min[4]..r.max[4]}
  IN (\A i \in DOMAIN list : Ascends(list[i])) =>
       /\ \A i \in 1..(Len(ips) - 1) : NumberOf(ips[i]) < NumberOf(ips[i + 1])
       /\ ToSet(ips) = UNION {Addresses(list[i]) : i \in DOMAIN list}
=============================================================================
