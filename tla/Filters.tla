------------------------------- MODULE Filters -------------------------------
(***************************************************************************)
(* The filters of Live Logs (hookguard_console routes/logs.py): the page   *)
(* asks the database (list_events), the stream filters in Python           *)
(* (_matches).  Verdicts are compared like providers and reasons like      *)
(* paths, so a filter here is a provider, a path and two bounds.  A text   *)
(* is a sequence of characters; Upper gives the other case of letters.     *)
(***************************************************************************)
EXTENDS Integers, Sequences, SequencesExt

CONSTANT
  Upper  \* the lower-case letters, each with its upper case

Fold(c) == IF \E l \in DOMAIN Upper : Upper[l] = c
           THEN CHOOSE l \in DOMAIN Upper : Upper[l] = c
           ELSE c

(* LIKE's two wildcards, and the character that makes them literal *)
Percent == "%"
Underscore == "_"
Backslash == "\\"

-----------------------------------------------------------------------------
(* SQLite's  text LIKE pattern ESCAPE '\'.  Letters match in either case.   *)
(* From the pattern's end: where the text may go on so that the rest of     *)
(* the pattern matches the rest of the text.                                *)

AnyThen(text, later) == {j \in 1..(Len(text) + 1) : \E k \in later : j <= k}
OneThen(text, later) == {j \in 1..Len(text) : j + 1 \in later}
CharThen(text, c, later) == {j \in OneThen(text, later) : Fold(text[j]) = Fold(c)}

Like(pattern, text) ==
  LET n == Len(pattern)
      match[i \in 1..(n + 1)] ==
        IF i > n THEN {Len(text) + 1}
        ELSE IF pattern[i] = Percent THEN AnyThen(text, match[i + 1])
        ELSE IF pattern[i] = Underscore THEN OneThen(text, match[i + 1])
        ELSE IF pattern[i] # Backslash THEN CharThen(text, pattern[i], match[i + 1])
        ELSE IF i < n THEN CharThen(text, pattern[i + 1], match[i + 2])
        ELSE {}
  IN  1 \in match[1]

(* value.replace(c, "\" + c) *)
Escape(value, c) ==
  FlattenSeq([i \in DOMAIN value |-> IF value[i] = c THEN <<Backslash, c>> ELSE <<value[i]>>])

(* Slip: the backslash comes last, and escapes the others' escapes. *)
LikeEscapeBackslashLast(value) == Escape(Escape(Escape(value, Percent), Underscore), Backslash)

(* like_escape: the backslash first *)
LikeEscape(value) == Escape(Escape(Escape(value, Backslash), Percent), Underscore)

(* value in text *)
HasText(text, value) ==
  \E i \in 0..(Len(text) - Len(value)) : SubSeq(text, i + 1, i + Len(value)) = value

-----------------------------------------------------------------------------
(* list_events: a bound counts if it is positive *)
Listed(e, f) ==
  /\ f.provider = "" \/ e.provider = f.provider
  /\ f.path = <<>> \/ Like(<<Percent>> \o LikeEscape(f.path) \o <<Percent>>, e.path)
  /\ f.from > 0 => e.at >= f.from
  /\ f.to > 0 => e.at <= f.to

(* _matches: a bound counts if it is not zero *)
Matches(e, f) ==
  /\ f.provider = "" \/ e.provider = f.provider
  /\ f.path = <<>> \/ HasText(e.path, f.path)
  /\ f.from # 0 => e.at >= f.from
  /\ f.to # 0 => e.at <= f.to
=============================================================================
