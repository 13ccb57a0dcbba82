------------------------------ MODULE Duration ------------------------------
(***************************************************************************)
(* tabletest/parse_duration.go.  A string is a sequence of one-character   *)
(* strings.  int64 is DurBits bits wide and the units are DurUnits, so     *)
(* that short strings reach every overflow check; a float64 is exact.      *)
(***************************************************************************)
EXTENDS Integers, Sequences, FiniteSets, SequencesExt

CONSTANTS DurBits,
          DurUnits    \* the unitMap: a record of unit |-> its length

MaxInt64 == 2^(DurBits - 1) - 1
Int64(x) == ((x + MaxInt64 + 1) % 2^DurBits) - MaxInt64 - 1

Digits == {"0", "1", "2", "3", "4", "5", "6", "7", "8", "9"}
DigitOf(c) == CHOOSE n \in 0..9 : ToString(n) = c

Concat(s) == FoldLeft(LAMBDA str, c : str \o c, "", s)
Rest(s, n) == SubSeq(s, n + 1, Len(s))
\* The number of leading characters of s that are in chars.
Leading(s, chars) == Min({n \in 0..Len(s) : n = Len(s) \/ s[n + 1] \notin chars})

\* -1 is errLeadingInt.
LeadingInt(digits) ==
  FoldLeft(LAMBDA x, c : IF x < 0 \/ x > MaxInt64 \div 10 THEN -1
                         ELSE IF Int64(x * 10 + DigitOf(c)) < 0 THEN -1 ELSE x * 10 + DigitOf(c),
           0, digits)

LeadingFraction(digits) ==
  FoldLeft(LAMBDA r, c :
             IF r.overflow \/ r.x > MaxInt64 \div 10 \/ Int64(r.x * 10 + DigitOf(c)) < 0
             THEN [r EXCEPT !.overflow = TRUE]
             ELSE [x |-> r.x * 10 + DigitOf(c), scale |-> r.scale * 10, overflow |-> FALSE],
           [x |-> 0, scale |-> 1, overflow |-> FALSE], digits)

Invalid == [err |-> TRUE, d |-> 0]

\* The loop of ParseDuration; it begins where s is not over.
RECURSIVE ParseParts(_, _)
ParseParts(s, d) ==
  LET pre == Leading(s, Digits)
      v == LeadingInt(SubSeq(s, 1, pre))
      dot == pre < Len(s) /\ s[pre + 1] = "."
      afterDot == Rest(s, pre + 1)
      post == IF dot THEN Leading(afterDot, Digits) ELSE 0
      fraction == LeadingFraction(SubSeq(afterDot, 1, post))
      unitOn == IF dot THEN Rest(afterDot, post) ELSE Rest(s, pre)
      ends == {n \in 0..Len(unitOn) : n = Len(unitOn) \/ unitOn[n + 1] \in Digits \union {"."}}
      unitName == Concat(SubSeq(unitOn, 1, Min(ends)))
      unit == DurUnits[unitName]
      whole == Int64(v * unit + (fraction.x * unit) \div fraction.scale)
      sum == Int64(d + whole)
  IN IF \/ pre + post = 0 \/ v = -1
        \/ unitName \notin DOMAIN DurUnits
        \/ v > MaxInt64 \div unit \/ whole < 0 \/ sum < 0
     THEN Invalid
     ELSE IF Min(ends) = Len(unitOn) THEN [err |-> FALSE, d |-> sum]
     ELSE ParseParts(Rest(unitOn, Min(ends)), sum)

ParseDuration(orig) ==
  LET neg == orig # <<>> /\ orig[1] = "-"
      s == IF orig # <<>> /\ orig[1] \in {"-", "+"} THEN Tail(orig) ELSE orig
      parsed == ParseParts(s, 0)
  IN IF s = <<"0">> THEN [err |-> FALSE, d |-> 0]
     ELSE IF s = <<>> THEN Invalid
     ELSE [parsed EXCEPT !.d = IF neg THEN Int64(-@) ELSE @]

---------------------------------------------------------------------------
(* Properties                                                              *)

\* What a string means, said by its cuts: a part ends where the characters of
\* a unit end, it is a number with one dot at most, a digit at least and a
\* known unit; a number has no bound here.
Number(digits) == FoldLeft(LAMBDA x, c : x * 10 + DigitOf(c), 0, digits)
DurationRight(orig, answer) ==
  LET s == IF orig # <<>> /\ orig[1] \in {"-", "+"} THEN Tail(orig) ELSE orig
      numeric == Digits \union {"."}
      cuts == {n \in 1..Len(s) : s[n] \notin numeric /\ (n = Len(s) \/ s[n + 1] \in numeric)}
      Part(n) == SubSeq(s, 1 + Max({0} \union {m \in cuts : m < n}), n)
      NumberOf(p) == SelectSeq(p, LAMBDA c : c \in numeric)
      UnitOf(p) == Concat(SelectSeq(p, LAMBDA c : c \notin numeric))
      Good(p) == /\ Cardinality({i \in DOMAIN p : p[i] = "."}) <= 1
                 /\ \E i \in DOMAIN p : p[i] \in Digits
                 /\ UnitOf(p) \in DOMAIN DurUnits
      Dot(p) == Min({i \in 1..Len(p) + 1 : i = Len(p) + 1 \/ p[i] = "."})
      Fraction(p) == SubSeq(p, Dot(p) + 1, Len(p))
      Length(p) == LET num == NumberOf(p) IN
        Number(SubSeq(num, 1, Dot(num) - 1)) * DurUnits[UnitOf(p)]
          + (Number(Fraction(num)) * DurUnits[UnitOf(p)]) \div 10^Len(Fraction(num))
      total == FoldSet(LAMBDA n, sum : sum + Length(Part(n)), 0, cuts)
      sign == IF orig # <<>> /\ orig[1] = "-" THEN -1 ELSE 1
  IN IF s = <<"0">> THEN answer = [err |-> FALSE, d |-> 0]
     ELSE IF s = <<>> \/ Len(s) \notin cuts \/ \E n \in cuts : ~ Good(Part(n)) THEN answer.err
     ELSE IF \A n \in cuts : Len(Fraction(NumberOf(Part(n)))) <= 1
     THEN answer = IF total > MaxInt64 THEN Invalid ELSE [err |-> FALSE, d |-> sign * total]
     \* digits behind the width of an int64 do not count
     ELSE IF answer.err THEN total > MaxInt64
     ELSE (sign * answer.d) \in (total - Cardinality(cuts))..total
=============================================================================
