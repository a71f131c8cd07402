-------------------------------- MODULE Forms --------------------------------
(***************************************************************************)
(* The two free texts the console interprets, typed character by character *)
(* so that every text up to MaxLength is met: a route's replay window and  *)
(* the path filter of Live Logs, the latter with any setting of the other  *)
(* filters.                                                                *)
(***************************************************************************)
EXTENDS Duration, Filters

CONSTANTS
  WindowChars,   \* bound of the model: the characters of replay windows
  PathChars,     \* bound of the model: the characters of paths and their filter
  WindowLength,  \* bound of the model: the longest replay window
  FilterLength,  \* bound of the model: the longest filter
  PathLength,    \* bound of the model: the longest path
  Bounds,        \* bound of the model: what the date fields may come to
  EventTimes     \* bound of the model: the times of events

ASSUME FormsAssumption ==
  /\ PathLength \in Nat
  /\ Bounds \subseteq Int
  /\ EventTimes \subseteq Nat

VARIABLES
  field,   \* which text is typed: "window" or "path"
  text,    \* what was typed
  filter   \* the other filters of the page

formsVars == <<field, text, filter>>

Providers == {"stripe", "github"}

(* _filter_from_request: a date before 1970 is negative, an unreadable or   *)
(* missing one is 0.                                                        *)
OtherFilters == [provider : Providers \union {""}, from : Bounds, to : Bounds]

FormsInit ==
  /\ field \in {"window", "path"}
  /\ text = <<>>
  /\ filter \in IF field = "path" THEN OtherFilters
                ELSE {[provider |-> "", from |-> 0, to |-> 0]}

Type(c) ==
  /\ Len(text) < IF field = "window" THEN WindowLength ELSE FilterLength
  /\ c \in IF field = "window" THEN WindowChars ELSE PathChars
  /\ text' = Append(text, c)
  /\ UNCHANGED <<field, filter>>

Clear ==
  /\ text # <<>>
  /\ text' = <<>>
  /\ UNCHANGED <<field, filter>>

FormsNext == Clear \/ \E c \in WindowChars \union PathChars : Type(c)

FormsSpec == FormsInit /\ [][FormsNext]_formsVars

-----------------------------------------------------------------------------
(* Properties *)

(* parse_go_duration accepts exactly the texts of Go's grammar whose value  *)
(* fits, and returns that value to the microsecond, truncated toward zero:  *)
(* no text is taken for a shorter window than it says, or for zero.         *)
DurationIsExact ==
  field = "window" =>
    LET signed == text # <<>> /\ text[1] \in {"+", "-"}
        s == IF signed THEN Tail(text) ELSE text
        us == Magnitude(s) \div Microsecond
    IN  Parse(text) = IF ~IsDuration(s) THEN Invalid
                      ELSE IF s = <<"0">> THEN Value(0)
                      ELSE IF signed /\ text[1] = "-" THEN Value(-us) ELSE Value(us)

(* The page lists exactly the events whose path contains the filter's text, *)
(* wildcards and backslashes taken literally and letters in either case;    *)
(* and the stream, whose filters are "kept consistent with the store's SQL",*)
(* shows the same events, except that it tells the case of letters apart    *)
(* and takes an end before 1970 for a bound.                                *)
Folded(s) == [i \in DOMAIN s |-> Fold(s[i])]
Paths == BoundedSeq(PathChars, PathLength)

FiltersAgree ==
  field = "path" =>
    LET f == [provider |-> filter.provider, path |-> text, from |-> filter.from, to |-> filter.to]
    IN  \A path \in Paths, provider \in Providers, at \in EventTimes :
          LET e == [provider |-> provider, path |-> path, at |-> at]
          IN  /\ Listed(e, f) <=> /\ f.provider \in {"", provider}
                                  /\ HasText(Folded(path), Folded(text))
                                  /\ f.from <= at
                                  /\ f.to <= 0 \/ at <= f.to
              /\ Matches(e, f) <=> /\ Listed(e, f)
                                   /\ HasText(path, text)
                                   /\ f.to >= 0
=============================================================================
