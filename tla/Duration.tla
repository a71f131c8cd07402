------------------------------- MODULE Duration -------------------------------
(***************************************************************************)
(* hookguard_core/goduration.py: Go's duration syntax, which replay        *)
(* windows are written in, as the loop the code runs and as the grammar it *)
(* stands for.  A text is a sequence of characters.  The scales of the     *)
(* units and the largest int64 are parameters, so that small texts reach   *)
(* every case.                                                             *)
(***************************************************************************)
EXTENDS Integers, Sequences, FiniteSets, FiniteSetsExt, SequencesExt

CONSTANTS
  Scale,       \* _UNITS: nanoseconds per unit, a function on the units' texts
  Int64Max,    \* _INT64_MAX
  Microsecond  \* nanoseconds of a microsecond

ASSUME DurationAssumption ==
  /\ \A u \in DOMAIN Scale : u \in Seq(STRING) /\ u # <<>> /\ Scale[u] \in Nat \ {0}
  /\ Int64Max \in Nat /\ Microsecond \in Nat \ {0}

Digits == <<"0", "1", "2", "3", "4", "5", "6", "7", "8", "9">>
IsDigit(c) == c \in Range(Digits)
DigitValue(c) == (CHOOSE i \in DOMAIN Digits : Digits[i] = c) - 1

(* What is parsed: the value, or nothing where the code raises GoDurationError *)
Value(n) == <<n>>
Invalid == <<>>

(* int(text), and 0 for the empty text *)
Decimal(text) == FoldLeft(LAMBDA n, c : 10 * n + DigitValue(c), 0, text)

-----------------------------------------------------------------------------
(* parse_go_duration_ns *)

From(s, i) == SubSeq(s, i, Len(s))

(* \d* at the beginning of s: the longest prefix of digits *)
LeadingDigits(s) ==
  LET stops == {i \in DOMAIN s : ~IsDigit(s[i])}
  IN  IF stops = {} THEN s ELSE SubSeq(s, 1, Min(stops) - 1)

(* _NUMBER.match: whole digits, and the fraction behind a point *)
Number(s) ==
  LET whole == LeadingDigits(s)
      rest == From(s, Len(whole) + 1)
      point == rest # <<>> /\ rest[1] = "."
      frac == IF point THEN LeadingDigits(Tail(rest)) ELSE <<>>
  IN  [whole |-> whole, frac |-> frac,
       rest |-> From(rest, IF point THEN Len(frac) + 2 ELSE 1)]

Units(s) == {u \in DOMAIN Scale : IsPrefix(u, s)}

(* Slip: the shortest unit that fits. *)
UnitShortest(s) == CHOOSE u \in Units(s) : \A v \in Units(s) : Len(u) <= Len(v)

(* The first of _UNIT_NAMES, longest first, that s starts with *)
Unit(s) == CHOOSE u \in Units(s) : \A v \in Units(s) : Len(v) <= Len(u)

(* One round of the loop: a number, its unit, and the check for overflow *)
Round(st) ==
  LET number == Number(st.rest)
      unit == Unit(number.rest)
      total == st.total + Decimal(number.whole) * Scale[unit]
                 + (Decimal(number.frac) * Scale[unit]) \div (10 ^ Len(number.frac))
  IN  IF \/ number.whole = <<>> /\ number.frac = <<>>
         \/ Units(number.rest) = {}
         \/ total > Int64Max
      THEN [st EXCEPT !.failed = TRUE]
      ELSE [st EXCEPT !.rest = From(number.rest, Len(unit) + 1), !.total = total]

(* The loop: `while s`; a round that does not raise consumes something. *)
Loop(s) ==
  LET run[k \in 0..Len(s)] ==
        IF k = 0 THEN [rest |-> s, total |-> 0, failed |-> FALSE]
        ELSE IF run[k - 1].failed \/ run[k - 1].rest = <<>> THEN run[k - 1]
        ELSE Round(run[k - 1])
  IN  run[Len(s)]

ParseNs(text) ==
  LET signed == text # <<>> /\ text[1] \in {"+", "-"}
      s == IF signed THEN Tail(text) ELSE text
      end == Loop(s)
  IN  IF s = <<"0">> THEN Value(0)
      ELSE IF s = <<>> \/ end.failed THEN Invalid
      ELSE IF signed /\ text[1] = "-" THEN Value(-end.total) ELSE Value(end.total)

(* parse_go_duration: truncated toward zero *)
Microseconds(ns) == IF ns < 0 THEN -((-ns) \div Microsecond) ELSE ns \div Microsecond

Parse(text) == [i \in DOMAIN ParseNs(text) |-> Microseconds(ParseNs(text)[i])]

-----------------------------------------------------------------------------
(* The grammar: an optional sign, then "0", or terms of a decimal number    *)
(* with at least one digit and a unit, which no digit or point belongs to.  *)
(* The magnitude must fit: Go also takes the one negative number whose      *)
(* magnitude does not, which the code refuses.                              *)

Numeric(c) == IsDigit(c) \/ c = "."

(* Where the terms begin *)
Starts(s) == {i \in DOMAIN s : Numeric(s[i]) /\ (i = 1 \/ ~Numeric(s[i - 1]))}

Term(s, i) ==
  LET later == {j \in Starts(s) : j > i}
  IN  SubSeq(s, i, IF later = {} THEN Len(s) ELSE Min(later) - 1)

Numeral(term) == SelectSeq(term, Numeric)
UnitOf(term) == SelectSeq(term, LAMBDA c : ~Numeric(c))
Points(term) == {i \in DOMAIN term : term[i] = "."}

IsTerm(term) ==
  /\ UnitOf(term) \in DOMAIN Scale
  /\ Cardinality(Points(term)) <= 1
  /\ \E i \in DOMAIN term : IsDigit(term[i])

(* The number without its point, over the power of ten the point stands for *)
TermValue(term) ==
  LET digits == SelectSeq(Numeral(term), IsDigit)
      places == IF Points(term) = {} THEN 0 ELSE Len(Numeral(term)) - Max(Points(term))
  IN  (Decimal(digits) * Scale[UnitOf(term)]) \div (10 ^ places)

Magnitude(s) == MapThenSumSet(LAMBDA i : TermValue(Term(s, i)), Starts(s))

IsDuration(s) ==
  \/ s = <<"0">>
  \/ /\ 1 \in Starts(s)
     /\ \A i \in Starts(s) : IsTerm(Term(s, i))
     /\ Magnitude(s) <= Int64Max
=============================================================================
