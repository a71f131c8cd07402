-------------------------- MODULE ConsoleEventsProofs --------------------------
(***************************************************************************)
(* Proofs about Live Logs.                                                 *)
(*                                                                         *)
(* First the filters, which the page gives to the database and the stream  *)
(* applies itself, for texts of any length over any characters.  The       *)
(* library has no induction an operator can be given to; Induction is one  *)
(* on sets of naturals.  By it, what like_escape makes of a text is known  *)
(* character by character (LikeEscapeLaid), and what LIKE then finds is    *)
(* known from the pattern's end (LikeFinds).                               *)
(*                                                                         *)
(* Then the table of events once ingested, under the batcher, the          *)
(* retention job and a viewer of the stream, for any size of the queue,    *)
(* batch of the stream, and set of windows.  BatcherProofs' account of     *)
(* where events are (Core) survives the retention job's deletions, and the *)
(* stream is shown to keep up with the table.                              *)
(***************************************************************************)
EXTENDS ConsoleEvents, Forms, FiniteSetTheorems, SequenceTheorems, WellFoundedInduction, TLAPS

-----------------------------------------------------------------------------
(* Induction over the naturals, on sets *)

(* A set with 0 and with every successor of what is in it has all naturals. *)
LEMMA Induction ==
  ASSUME NEW good \in SUBSET Nat, 0 \in good, \A k \in good : k + 1 \in good
  PROVE  good = Nat
<1>. DEFINE bad == Nat \ good
            less == {ss \in Nat \X Nat : ss[1] < ss[2]}
<1>1. SUFFICES ASSUME bad # {} PROVE FALSE
  OBVIOUS
<1>2. IsWellFoundedOn({ss \in Nat \X Nat : ss[1] < ss[2]}, Nat)
  BY NatLessThanWellFounded DEF OpToRel
<1>3. bad \in SUBSET Nat
  OBVIOUS
<1>4. PICK least \in bad : \A k \in bad : ~(<<k, least>> \in less)
  <2>. HIDE DEF less, bad
  <2>. QED BY <1>1, <1>2, <1>3, WFMin DEF less
<1>5. least \in Nat /\ least # 0
  OBVIOUS
<1>6. least - 1 \in bad
  <2>1. least - 1 \in Nat /\ (least - 1) + 1 = least
    BY <1>5
  <2>. QED BY <2>1
<1>. QED
  <2>1. <<least - 1, least>> \in Nat \X Nat /\ <<least - 1, least>>[1] < <<least - 1, least>>[2]
    BY <1>5
  <2>. QED BY <1>4, <1>6, <2>1

-----------------------------------------------------------------------------
(* FlattenSeq *)

(* The function FlattenSeq is defined by. *)
Flat(f, ss) == f = [i \in 1..Len(ss) |-> IF i = 1 THEN ss[i] ELSE f[i - 1] \o ss[i]]

LEMMA FlatIs ==
  ASSUME NEW ss PROVE FlattenSeq(ss) = IF Len(ss) = 0 THEN ss ELSE (CHOOSE f : Flat(f, ss))[Len(ss)]
  BY DEF FlattenSeq, Flat

LEMMA FlatExists ==
  ASSUME NEW C, NEW ss \in Seq(Seq(C))
  PROVE  \E f : Flat(f, ss)
<1>. DEFINE n == Len(ss)
            Upto(f, k) == \A i \in 1..n : i <= k => f[i] = IF i = 1 THEN ss[i] ELSE f[i - 1] \o ss[i]
            good == {k \in Nat : \E f : f = [i \in 1..n |-> f[i]] /\ Upto(f, k)}
<1>1. n \in Nat
  OBVIOUS
<1>. HIDE DEF n
<1>2. 0 \in good
  <2>. DEFINE f == [i \in 1..n |-> 0]
  <2>1. f = [i \in 1..n |-> f[i]]
    OBVIOUS
  <2>2. Upto(f, 0)
    BY <1>1
  <2>. HIDE DEF f
  <2>. QED BY <2>1, <2>2
<1>3. ASSUME NEW k \in good PROVE k + 1 \in good
  <2>1. PICK f : f = [i \in 1..n |-> f[i]] /\ Upto(f, k)
    OBVIOUS
  <2>. DEFINE g == [i \in 1..n |-> IF i = k + 1 THEN IF i = 1 THEN ss[i] ELSE f[i - 1] \o ss[i] ELSE f[i]]
  <2>2. g = [i \in 1..n |-> g[i]]
    OBVIOUS
  <2>3. ASSUME NEW i \in 1..n, i <= k + 1 PROVE g[i] = IF i = 1 THEN ss[i] ELSE g[i - 1] \o ss[i]
    <3>1. CASE i = k + 1
      <4>1. i # 1 => i - 1 \in 1..n /\ i - 1 # k + 1
        BY <1>1, <3>1
      <4>. QED BY <3>1, <4>1
    <3>2. CASE i # k + 1
      <4>1. i # 1 => i - 1 \in 1..n /\ i - 1 # k + 1
        BY <1>1, <2>3, <3>2
      <4>2. i <= k
        BY <2>3, <3>2, <1>1
      <4>. QED BY <2>1, <3>2, <4>1, <4>2
    <3>. QED BY <3>1, <3>2
  <2>. HIDE DEF g
  <2>4. Upto(g, k + 1)
    BY <2>3
  <2>5. k + 1 \in Nat
    OBVIOUS
  <2>. HIDE DEF Upto
  <2>. QED BY <2>2, <2>4, <2>5
<1>4. n \in good
  <2>1. good \in SUBSET Nat
    OBVIOUS
  <2>. HIDE DEF good
  <2>. QED BY <1>1, <1>2, <1>3, <2>1, Induction
<1>5. PICK f : f = [i \in 1..n |-> f[i]] /\ Upto(f, n)
  BY <1>4
<1>6. [i \in 1..n |-> f[i]] = [i \in 1..n |-> IF i = 1 THEN ss[i] ELSE f[i - 1] \o ss[i]]
  <2>1. \A i \in 1..n : i <= n
    BY <1>1
  <2>. QED BY <1>5, <2>1
<1>. QED
  BY <1>5, <1>6 DEF Flat, n

(* Concatenating one more text appends it. *)
LEMMA FlattenAppend ==
  ASSUME NEW C, NEW ss \in Seq(Seq(C)), FlattenSeq(ss) \in Seq(C), NEW s \in Seq(C)
  PROVE  FlattenSeq(Append(ss, s)) = FlattenSeq(ss) \o s
<1>. DEFINE n == Len(ss)
            tt == Append(ss, s)
<1>1. n \in Nat /\ tt \in Seq(Seq(C)) /\ Len(tt) = n + 1 /\ tt[n + 1] = s /\ \A i \in 1..n : tt[i] = ss[i]
  OBVIOUS
<1>. HIDE DEF tt
<1>2. PICK g : g = CHOOSE f : Flat(f, tt)
  OBVIOUS
<1>3. Flat(g, tt) /\ FlattenSeq(tt) = g[n + 1]
  <2>1. Flat(g, tt)
    BY <1>1, <1>2, FlatExists
  <2>. HIDE DEF n
  <2>. QED BY <1>1, <1>2, <2>1, FlatIs
<1>4. \A i \in 1..(n + 1) : g[i] = IF i = 1 THEN tt[i] ELSE g[i - 1] \o tt[i]
  BY <1>1, <1>3 DEF Flat
<1>5. CASE n = 0
  <2>1. g[1] = s
    BY <1>1, <1>4, <1>5
  <2>2. FlattenSeq(ss) = <<>>
    <3>1. ss = <<>>
      BY <1>5
    <3>. QED BY <1>5, <3>1, FlatIs
  <2>3. FlattenSeq(ss) \o s = s
    BY <2>2
  <2>. QED BY <1>3, <1>5, <2>1, <2>3 DEF tt
<1>6. CASE n # 0
  <2>1. PICK f : f = CHOOSE h : Flat(h, ss)
    OBVIOUS
  <2>2. Flat(f, ss) /\ FlattenSeq(ss) = f[n]
    BY <1>6, <2>1, FlatIs, FlatExists
  <2>3. \A i \in 1..n : f[i] = IF i = 1 THEN ss[i] ELSE f[i - 1] \o ss[i]
    BY <2>2 DEF Flat
  <2>. DEFINE good == {k \in Nat : k \in 1..n => f[k] = g[k]}
  <2>4. ASSUME NEW k \in good PROVE k + 1 \in good
    <3>. SUFFICES ASSUME k + 1 \in 1..n PROVE f[k + 1] = g[k + 1]
      OBVIOUS
    <3>. HIDE DEF n
    <3>1. CASE k = 0
      BY <1>1, <1>4, <2>3, <3>1
    <3>2. CASE k # 0
      <4>1. k \in 1..n /\ k + 1 # 1 /\ (k + 1) - 1 = k /\ k + 1 \in 1..(n + 1)
        BY <1>1, <3>2
      <4>2. f[k] = g[k]
        BY <4>1
      <4>. QED BY <1>1, <1>4, <2>3, <4>1, <4>2
    <3>. QED BY <3>1, <3>2
  <2>5. n \in good
    <3>1. 0 \in good /\ good \in SUBSET Nat
      OBVIOUS
    <3>. HIDE DEF good
    <3>. QED BY <1>1, <2>4, <3>1, Induction
  <2>6. f[n] = g[n]
    BY <1>1, <1>6, <2>5
  <2>7. g[n + 1] = g[n] \o s
    <3>1. n + 1 \in 1..(n + 1) /\ n + 1 # 1 /\ (n + 1) - 1 = n
      BY <1>1, <1>6
    <3>. HIDE DEF n
    <3>. QED BY <1>1, <1>4, <3>1
  <2>. QED BY <1>3, <2>2, <2>6, <2>7 DEF tt
<1>. QED
  BY <1>5, <1>6

-----------------------------------------------------------------------------
(* like_escape, character by character *)

(* A text that is not empty has a last character. *)
LEMMA LastCharacter ==
  ASSUME NEW C, NEW k \in Nat, NEW u \in Seq(C), Len(u) = k + 1
  PROVE  \E v \in Seq(C), x \in C : u = Append(v, x) /\ Len(v) = k
<1>. DEFINE v == [i \in 1..k |-> u[i]]
<1>1. \A i \in 1..(k + 1) : u[i] \in C
  OBVIOUS
<1>2. v \in Seq(C) /\ Len(v) = k
  BY <1>1
<1>3. Append(v, u[k + 1]) = u
  <2>1. \A i \in 1..k : v[i] = u[i]
    OBVIOUS
  <2>. HIDE DEF v
  <2>2. Append(v, u[k + 1]) \in Seq(C) /\ Len(Append(v, u[k + 1])) = k + 1
    BY <1>1, <1>2
  <2>3. \A i \in 1..(k + 1) : Append(v, u[k + 1])[i] = u[i]
    BY <1>2, <2>1
  <2>. QED BY <2>2, <2>3
<1>4. u[k + 1] \in C
  BY <1>1
<1>. QED BY <1>2, <1>3, <1>4

(* Two characters appended one after the other. *)
LEMMA AppendTwo ==
  ASSUME NEW C, NEW w \in Seq(C), NEW z \in C, NEW y \in C, NEW r, r = <<z, y>>
  PROVE  w \o r = Append(Append(w, z), y)
<1>1. <<z>> \in Seq(C) /\ <<y>> \in Seq(C) /\ <<z>> \o <<y>> = <<z, y>>
  <2>1. <<z>> \in Seq(C) /\ <<y>> \in Seq(C)
    OBVIOUS
  <2>2. <<z, y>> = Append(<<z>>, y)
    OBVIOUS
  <2>. QED BY <2>1, <2>2, AppendIsConcat
<1>2. Append(w, z) \in Seq(C) /\ w \o <<z>> = Append(w, z)
  BY AppendProperties, AppendIsConcat
<1>3. (w \o <<z>>) \o <<y>> = w \o (<<z>> \o <<y>>)
  BY <1>1, ConcatAssociative
<1>4. Append(w, z) \o <<y>> = Append(Append(w, z), y)
  BY <1>2, AppendIsConcat
<1>. QED BY <1>1, <1>2, <1>3, <1>4

(* What replace makes of one character. *)
Replaced(x, c) == IF x = c THEN <<Backslash, c>> ELSE <<x>>

LEMMA EscapeStep ==
  ASSUME NEW C, Backslash \in C, NEW c \in C, NEW u \in Seq(C), NEW x \in C, Escape(u, c) \in Seq(C)
  PROVE  /\ x = c => Escape(Append(u, x), c) = Append(Append(Escape(u, c), Backslash), x)
         /\ x # c => Escape(Append(u, x), c) = Append(Escape(u, c), x)
<1>. DEFINE parts(w) == [i \in DOMAIN w |-> IF w[i] = c THEN <<Backslash, c>> ELSE <<w[i]>>]
<1>1. \A y \in C : Replaced(y, c) \in Seq(C)
  BY DEF Replaced
<1>2. Escape(u, c) = FlattenSeq(parts(u)) /\ Escape(Append(u, x), c) = FlattenSeq(parts(Append(u, x)))
  BY DEF Escape
<1>3. ASSUME NEW w \in Seq(C)
      PROVE  /\ parts(w) \in Seq(Seq(C)) /\ Len(parts(w)) = Len(w)
             /\ \A i \in 1..Len(w) : parts(w)[i] = Replaced(w[i], c)
  <2>1. DOMAIN w = 1..Len(w) /\ Len(w) \in Nat
    OBVIOUS
  <2>2. parts(w) = [i \in 1..Len(w) |-> Replaced(w[i], c)]
    BY <2>1 DEF Replaced
  <2>. HIDE DEF parts
  <2>. QED BY <1>1, <2>1, <2>2
<1>. HIDE DEF parts
<1>4. parts(Append(u, x)) = Append(parts(u), Replaced(x, c))
  <2>1. Append(u, x) \in Seq(C) /\ Len(Append(u, x)) = Len(u) + 1
    OBVIOUS
  <2>2. \A i \in 1..Len(u) : Append(u, x)[i] = u[i]
    OBVIOUS
  <2>3. Append(u, x)[Len(u) + 1] = x
    OBVIOUS
  <2>. DEFINE a == parts(Append(u, x))
              b == Append(parts(u), Replaced(x, c))
  <2>4. a \in Seq(Seq(C)) /\ Len(a) = Len(u) + 1
    BY <1>3, <2>1
  <2>5. b \in Seq(Seq(C)) /\ Len(b) = Len(u) + 1
    BY <1>1, <1>3
  <2>. HIDE DEF b
  <2>6. \A i \in 1..(Len(u) + 1) : a[i] = Replaced(Append(u, x)[i], c)
    BY <1>3, <2>1
  <2>. USE DEF b
  <2>7. \A i \in 1..Len(u) : b[i] = Replaced(u[i], c)
    BY <1>1, <1>3
  <2>8. b[Len(u) + 1] = Replaced(x, c)
    BY <1>1, <1>3
  <2>. HIDE DEF a, b
  <2>9. ASSUME NEW i \in 1..(Len(u) + 1) PROVE a[i] = b[i]
    <3>1. CASE i = Len(u) + 1
      BY <2>3, <2>6, <2>8, <3>1
    <3>2. CASE i # Len(u) + 1
      <4>1. i \in 1..Len(u)
        BY <3>2
      <4>. QED BY <2>2, <2>6, <2>7, <4>1
    <3>. QED BY <3>1, <3>2
  <2>10. a = b
    BY <2>4, <2>5, <2>9
  <2>. QED BY <2>10 DEF a, b
<1>5. Escape(Append(u, x), c) = Escape(u, c) \o Replaced(x, c)
  BY <1>1, <1>2, <1>3, <1>4, FlattenAppend
<1>. DEFINE e == Escape(u, c)
<1>. HIDE DEF e
<1>6. CASE x = c
  <2>1. Replaced(x, c) = <<Backslash, x>>
    BY <1>6 DEF Replaced
  <2>2. e \o Replaced(x, c) = Append(Append(e, Backslash), x)
    BY <2>1, AppendTwo DEF e
  <2>. QED BY <1>5, <1>6, <2>2 DEF e
<1>7. CASE x # c
  <2>1. Replaced(x, c) = <<x>>
    BY <1>7 DEF Replaced
  <2>2. e \o <<x>> = Append(e, x)
    BY AppendIsConcat DEF e
  <2>. QED BY <1>5, <1>7, <2>1, <2>2 DEF e
<1>. QED BY <1>6, <1>7

LEMMA EscapeType ==
  ASSUME NEW C, Backslash \in C, NEW c \in C, NEW u \in Seq(C)
  PROVE  Escape(u, c) \in Seq(C) /\ Escape(<<>>, c) = <<>>
<1>. DEFINE good == {k \in Nat : \A w \in Seq(C) : Len(w) = k => Escape(w, c) \in Seq(C)}
<1>1. Escape(<<>>, c) = <<>>
  <2>. DEFINE none == [i \in DOMAIN <<>> |-> IF <<>>[i] = c THEN <<Backslash, c>> ELSE <<(<<>>)[i]>>]
  <2>1. none = <<>>
    OBVIOUS
  <2>2. Escape(<<>>, c) = FlattenSeq(none)
    BY DEF Escape
  <2>. HIDE DEF none
  <2>3. FlattenSeq(<<>>) = <<>>
    BY FlatIs
  <2>. QED BY <2>1, <2>2, <2>3
<1>2. 0 \in good
  <2>1. \A w \in Seq(C) : Len(w) = 0 => w = <<>>
    OBVIOUS
  <2>. QED BY <1>1, <2>1
<1>3. ASSUME NEW k \in good PROVE k + 1 \in good
  <2>. SUFFICES ASSUME NEW w \in Seq(C), Len(w) = k + 1 PROVE Escape(w, c) \in Seq(C)
    OBVIOUS
  <2>1. PICK v \in Seq(C), x \in C : w = Append(v, x) /\ Len(v) = k
    BY LastCharacter
  <2>2. Escape(v, c) \in Seq(C)
    BY <2>1
  <2>3. Append(Escape(v, c), x) \in Seq(C) /\ Append(Append(Escape(v, c), Backslash), x) \in Seq(C)
    BY <2>2, AppendProperties
  <2>4. Escape(w, c) = Append(Escape(v, c), x) \/ Escape(w, c) = Append(Append(Escape(v, c), Backslash), x)
    BY <2>1, <2>2, EscapeStep
  <2>. QED BY <2>3, <2>4
<1>4. Len(u) \in good
  <2>1. good \in SUBSET Nat /\ Len(u) \in Nat
    OBVIOUS
  <2>. HIDE DEF good
  <2>. QED BY <1>2, <1>3, <2>1, Induction
<1>. QED BY <1>1, <1>4

(* The characters that LIKE takes for something else than themselves. *)
LEMMA CharactersDiffer == Backslash # Percent /\ Backslash # Underscore /\ Percent # Underscore
  BY Zenon DEF Backslash, Percent, Underscore

Special == {Percent, Underscore, Backslash}

(* e is what replace makes of w, and goes on so with what w goes on with. *)
Continues(C, c, w, e) ==
  /\ Escape(Append(w, c), c) = Append(Append(e, Backslash), c)
  /\ \A y \in C \ {c} : /\ Escape(Append(w, y), c) = Append(e, y)
                         /\ \A z \in C \ {c} : Escape(Append(Append(w, y), z), c) = Append(Append(e, y), z)

(* Three replacements, the backslash first, put one backslash before each   *)
(* special character of the text and none before those they have put there. *)
LEMMA LikeEscapeStep ==
  ASSUME NEW C, Special \subseteq C, NEW u \in Seq(C), NEW x \in C
  PROVE  /\ LikeEscape(u) \in Seq(C) /\ LikeEscape(<<>>) = <<>>
         /\ x \in Special => LikeEscape(Append(u, x)) = Append(Append(LikeEscape(u), Backslash), x)
         /\ x \notin Special => LikeEscape(Append(u, x)) = Append(LikeEscape(u), x)
<1>1. Backslash \in C /\ Percent \in C /\ Underscore \in C
  BY DEF Special
<1>2. /\ Escape(u, Backslash) \in Seq(C)
      /\ Escape(Escape(u, Backslash), Percent) \in Seq(C)
      /\ LikeEscape(u) \in Seq(C)
  BY <1>1, EscapeType DEF LikeEscape
<1>3. LikeEscape(<<>>) = <<>>
  BY <1>1, EscapeType DEF LikeEscape
<1>4. PICK one \in Seq(C), two \in Seq(C), three \in Seq(C) :
        /\ one = Escape(u, Backslash) /\ two = Escape(one, Percent)
        /\ three = Escape(two, Underscore) /\ three = LikeEscape(u)
  BY <1>2, Zenon DEF LikeEscape
<1>5. LikeEscape(Append(u, x)) = Escape(Escape(Escape(Append(u, x), Backslash), Percent), Underscore)
  BY DEF LikeEscape
<1>6. Backslash # Percent /\ Backslash # Underscore /\ Percent # Underscore
  BY CharactersDiffer
<1>7. ASSUME NEW c \in C, NEW w \in Seq(C), NEW e, e = Escape(w, c)
      PROVE  Continues(C, c, w, e)
  <2>1. e \in Seq(C)
    BY <1>1, <1>7, EscapeType
  <2>2. Escape(Append(w, c), c) = Append(Append(e, Backslash), c)
    <3>1. Escape(w, c) \in Seq(C)
      BY <1>7, <2>1
    <3>2. Escape(Append(w, c), c) = Append(Append(Escape(w, c), Backslash), c)
      BY <1>1, <3>1, EscapeStep
    <3>. QED BY <1>7, <3>2
  <2>3. ASSUME NEW y \in C \ {c} PROVE Escape(Append(w, y), c) = Append(e, y)
    BY <1>1, <1>7, <2>1, EscapeStep
  <2>4. ASSUME NEW y \in C \ {c}, NEW z \in C \ {c}
        PROVE  Escape(Append(Append(w, y), z), c) = Append(Append(e, y), z)
    <3>1. PICK v \in Seq(C) : v = Append(w, y)
      BY AppendProperties
    <3>2. PICK f \in Seq(C) : f = Append(e, y) /\ f = Escape(v, c)
      BY <2>1, <2>3, <3>1, AppendProperties
    <3>3. Escape(Append(v, z), c) = Append(f, z)
      BY <1>1, <3>2, EscapeStep
    <3>. QED BY <3>1, <3>2, <3>3
  <2>. QED BY <2>2, <2>3, <2>4, Zenon DEF Continues
<1>8. Continues(C, Backslash, u, one)
  BY <1>1, <1>4, <1>7
<1>9. Continues(C, Percent, one, two)
  BY <1>1, <1>4, <1>7
<1>10. Continues(C, Underscore, two, three)
  BY <1>1, <1>4, <1>7
<1>11. CASE x = Backslash
  <2>1. Escape(Append(u, x), Backslash) = Append(Append(one, x), x)
    BY <1>8, <1>11 DEF Continues
  <2>2. Escape(Append(Append(one, x), x), Percent) = Append(Append(two, x), x)
    BY <1>6, <1>9, <1>11 DEF Continues
  <2>3. Escape(Append(Append(two, x), x), Underscore) = Append(Append(three, x), x)
    BY <1>6, <1>10, <1>11 DEF Continues
  <2>. QED BY <1>2, <1>3, <1>4, <1>5, <1>11, <2>1, <2>2, <2>3 DEF Special
<1>12. CASE x = Percent
  <2>1. Escape(Append(u, x), Backslash) = Append(one, x)
    BY <1>6, <1>8, <1>12 DEF Continues
  <2>2. Escape(Append(one, x), Percent) = Append(Append(two, Backslash), x)
    BY <1>9, <1>12 DEF Continues
  <2>3. Escape(Append(Append(two, Backslash), x), Underscore) = Append(Append(three, Backslash), x)
    BY <1>1, <1>6, <1>10, <1>12 DEF Continues
  <2>. QED BY <1>2, <1>3, <1>4, <1>5, <1>12, <2>1, <2>2, <2>3 DEF Special
<1>13. CASE x = Underscore
  <2>1. Escape(Append(u, x), Backslash) = Append(one, x)
    BY <1>6, <1>8, <1>13 DEF Continues
  <2>2. Escape(Append(one, x), Percent) = Append(two, x)
    BY <1>6, <1>9, <1>13 DEF Continues
  <2>3. Escape(Append(two, x), Underscore) = Append(Append(three, Backslash), x)
    BY <1>10, <1>13 DEF Continues
  <2>. QED BY <1>2, <1>3, <1>4, <1>5, <1>13, <2>1, <2>2, <2>3 DEF Special
<1>14. CASE x \notin Special
  <2>1. x # Backslash /\ x # Percent /\ x # Underscore
    BY <1>14 DEF Special
  <2>2. Escape(Append(u, x), Backslash) = Append(one, x)
    BY <1>8, <2>1 DEF Continues
  <2>3. Escape(Append(one, x), Percent) = Append(two, x)
    BY <1>9, <2>1 DEF Continues
  <2>4. Escape(Append(two, x), Underscore) = Append(three, x)
    BY <1>10, <2>1 DEF Continues
  <2>. QED BY <1>2, <1>3, <1>4, <1>5, <1>14, <2>2, <2>3, <2>4
<1>. QED
  BY <1>11, <1>12, <1>13, <1>14 DEF Special

(* Where the characters of a text lie in what like_escape makes of it. *)
Laid(v, e, pos) ==
  /\ DOMAIN pos = 1..(Len(v) + 1)
  /\ pos[1] = 1
  /\ pos[Len(v) + 1] = Len(e) + 1
  /\ \A k \in 1..Len(v) :
       /\ pos[k] \in 1..Len(e)
       /\ v[k] \notin Special => pos[k + 1] = pos[k] + 1 /\ e[pos[k]] = v[k]
       /\ v[k] \in Special => /\ pos[k + 1] = pos[k] + 2
                              /\ pos[k] < Len(e)
                              /\ e[pos[k]] = Backslash
                              /\ e[pos[k] + 1] = v[k]

(* The characters follow one another without gap or overlap. *)
LEMMA LikeEscapeLaid ==
  ASSUME NEW C, Special \subseteq C, NEW u \in Seq(C)
  PROVE  LikeEscape(u) \in Seq(C) /\ \E pos : Laid(u, LikeEscape(u), pos)
<1>. DEFINE good == {k \in Nat : \A w \in Seq(C) : Len(w) = k => \E pos : Laid(w, LikeEscape(w), pos)}
<1>1. \A w \in Seq(C) : LikeEscape(w) \in Seq(C)
  BY LikeEscapeStep DEF Special
<1>2. 0 \in good
  <2>. SUFFICES ASSUME NEW w \in Seq(C), Len(w) = 0 PROVE \E pos : Laid(w, LikeEscape(w), pos)
    OBVIOUS
  <2>1. w = <<>> /\ LikeEscape(w) = <<>>
    BY LikeEscapeStep DEF Special
  <2>2. Laid(w, LikeEscape(w), [k \in 1..1 |-> 1])
    BY <2>1 DEF Laid
  <2>. QED BY <2>2
<1>3. ASSUME NEW k \in good PROVE k + 1 \in good
  <2>. SUFFICES ASSUME NEW w \in Seq(C), Len(w) = k + 1 PROVE \E pos : Laid(w, LikeEscape(w), pos)
    OBVIOUS
  <2>1. PICK v \in Seq(C), x \in C : w = Append(v, x) /\ Len(v) = k
    BY LastCharacter
  <2>2. PICK e \in Seq(C) : e = LikeEscape(v)
    BY <1>1
  <2>3. PICK pos : Laid(v, e, pos)
    BY <2>1, <2>2
  <2>4. PICK f \in Seq(C) : f = LikeEscape(w)
    BY <1>1
  <2>5. /\ Len(f) > Len(e)
        /\ \A i \in 1..Len(e) : f[i] = e[i]
        /\ f[Len(f)] = x
        /\ x \notin Special => Len(f) = Len(e) + 1
        /\ x \in Special => Len(f) = Len(e) + 2 /\ f[Len(e) + 1] = Backslash
    <3>1. CASE x \in Special
      <4>1. f = Append(Append(e, Backslash), x)
        BY <2>1, <2>2, <2>4, <3>1, LikeEscapeStep
      <4>2. Backslash \in C
        BY DEF Special
      <4>. QED BY <3>1, <4>1, <4>2
    <3>2. CASE x \notin Special
      <4>1. f = Append(e, x)
        BY <2>1, <2>2, <2>4, <3>2, LikeEscapeStep
      <4>. QED BY <3>2, <4>1
    <3>. QED BY <3>1, <3>2
  <2>6. k \in Nat /\ Len(v) = k /\ Len(w) = k + 1 /\ w[k + 1] = x /\ \A i \in 1..k : w[i] = v[i]
    BY <2>1
  <2>. DEFINE next == [i \in 1..(k + 2) |-> IF i = k + 2 THEN Len(f) + 1 ELSE pos[i]]
  <2>7. /\ DOMAIN next = 1..(k + 2) /\ next[k + 2] = Len(f) + 1
        /\ \A i \in 1..(k + 1) : next[i] = pos[i]
    BY <2>6
  <2>. HIDE DEF next
  <2>8. next[1] = 1 /\ next[k + 1] = Len(e) + 1
    BY <2>3, <2>6, <2>7 DEF Laid
  <2>9. ASSUME NEW i \in 1..(k + 1)
        PROVE  /\ next[i] \in 1..Len(f)
               /\ w[i] \notin Special => next[i + 1] = next[i] + 1 /\ f[next[i]] = w[i]
               /\ w[i] \in Special => /\ next[i + 1] = next[i] + 2
                                      /\ next[i] < Len(f)
                                      /\ f[next[i]] = Backslash
                                      /\ f[next[i] + 1] = w[i]
    <3>1. Len(e) \in Nat /\ Len(f) \in Nat
      OBVIOUS
    <3>2. CASE i = k + 1
      <4>1. /\ w[i] = x /\ next[i] = Len(e) + 1 /\ next[i + 1] = Len(f) + 1
        BY <2>6, <2>7, <2>8, <3>2
      <4>2. CASE x \in Special
        <5>1. Len(f) = Len(e) + 2 /\ f[Len(e) + 1] = Backslash /\ f[Len(e) + 2] = x
          BY <2>5, <4>2
        <5>2. next[i] + 1 = Len(e) + 2
          BY <3>1, <4>1
        <5>. QED BY <3>1, <4>1, <4>2, <5>1, <5>2
      <4>3. CASE x \notin Special
        <5>1. Len(f) = Len(e) + 1 /\ f[Len(e) + 1] = x
          BY <2>5, <4>3
        <5>. QED BY <3>1, <4>1, <4>3, <5>1
      <4>. QED BY <4>2, <4>3
    <3>3. CASE i # k + 1
      <4>1. i \in 1..k /\ i + 1 \in 1..(k + 1)
        BY <2>6, <3>3
      <4>2. next[i] = pos[i] /\ next[i + 1] = pos[i + 1] /\ w[i] = v[i]
        BY <2>6, <2>7, <4>1
      <4>3. /\ pos[i] \in 1..Len(e)
            /\ v[i] \notin Special => pos[i + 1] = pos[i] + 1 /\ e[pos[i]] = v[i]
            /\ v[i] \in Special => /\ pos[i + 1] = pos[i] + 2
                                   /\ pos[i] < Len(e)
                                   /\ e[pos[i]] = Backslash
                                   /\ e[pos[i] + 1] = v[i]
        BY <2>3, <2>6, <4>1 DEF Laid
      <4>4. pos[i] \in 1..Len(f) /\ f[pos[i]] = e[pos[i]]
        <5>1. PICK b \in 1..Len(e) : b = pos[i]
          BY <4>3
        <5>2. b \in 1..Len(f) /\ f[b] = e[b]
          BY <2>5, <3>1
        <5>. QED BY <5>1, <5>2
      <4>5. CASE v[i] \in Special
        <5>1. pos[i] + 1 \in 1..Len(e)
          <6>1. PICK b \in 1..Len(e) : b = pos[i]
            BY <4>3
          <6>2. b < Len(e)
            BY <4>3, <4>5, <6>1
          <6>3. b + 1 \in 1..Len(e)
            BY <3>1, <6>2
          <6>. QED BY <6>1, <6>3
        <5>2. f[pos[i] + 1] = e[pos[i] + 1]
          BY <2>5, <5>1
        <5>3. pos[i] < Len(f)
          BY <2>5, <3>1, <4>3, <4>5
        <5>. QED BY <4>2, <4>3, <4>4, <4>5, <5>2, <5>3
      <4>. QED BY <4>2, <4>3, <4>4, <4>5
    <3>. QED BY <3>2, <3>3
  <2>10. Laid(w, f, next)
    BY <2>6, <2>7, <2>8, <2>9 DEF Laid
  <2>. QED BY <2>4, <2>10
<1>4. Len(u) \in good
  <2>1. good \in SUBSET Nat /\ Len(u) \in Nat
    OBVIOUS
  <2>. HIDE DEF good
  <2>. QED BY <1>2, <1>3, <2>1, Induction
<1>. QED BY <1>1, <1>4

-----------------------------------------------------------------------------
(* LIKE, on a filter between two percent signs *)

(* The function Like is defined by. *)
MatchAt(p, t, m, i) ==
  IF i > Len(p) THEN {Len(t) + 1}
  ELSE IF p[i] = Percent THEN AnyThen(t, m[i + 1])
  ELSE IF p[i] = Underscore THEN OneThen(t, m[i + 1])
  ELSE IF p[i] # Backslash THEN CharThen(t, p[i], m[i + 1])
  ELSE IF i < Len(p) THEN CharThen(t, p[i + 1], m[i + 2])
  ELSE {}

MatchOf(p, t, m) == m = [i \in 1..(Len(p) + 1) |-> MatchAt(p, t, m, i)]

LEMMA LikeIs ==
  ASSUME NEW p, NEW t PROVE Like(p, t) = (1 \in (CHOOSE m : MatchOf(p, t, m))[1])
  BY Zenon DEF Like, MatchOf, MatchAt

LEMMA MatchExists ==
  ASSUME NEW C, NEW p \in Seq(C), NEW t
  PROVE  \E m : MatchOf(p, t, m)
<1>. DEFINE n == Len(p)
            FromEnd(m, k) == \A i \in 1..(n + 1) : i > n + 1 - k => m[i] = MatchAt(p, t, m, i)
            good == {k \in Nat : \E m : m = [i \in 1..(n + 1) |-> m[i]] /\ FromEnd(m, k)}
<1>1. n \in Nat
  OBVIOUS
<1>2. 0 \in good
  <2>. DEFINE m == [i \in 1..(n + 1) |-> 0]
  <2>. HIDE DEF n
  <2>1. m = [i \in 1..(n + 1) |-> m[i]]
    OBVIOUS
  <2>2. FromEnd(m, 0)
    BY <1>1
  <2>. HIDE DEF m, FromEnd
  <2>. QED BY <2>1, <2>2
<1>3. ASSUME NEW k \in good PROVE k + 1 \in good
  <2>1. PICK m : m = [i \in 1..(n + 1) |-> m[i]] /\ FromEnd(m, k)
    OBVIOUS
  <2>. DEFINE h == [i \in 1..(n + 1) |-> IF i = n + 1 - k THEN MatchAt(p, t, m, i) ELSE m[i]]
  <2>2. h = [i \in 1..(n + 1) |-> h[i]]
    OBVIOUS
  <2>3. ASSUME NEW i \in 1..(n + 1), i > n - k PROVE h[i] = MatchAt(p, t, h, i)
    <3>1. i <= n => i + 1 \in 1..(n + 1) /\ i + 1 # n + 1 - k
      BY <1>1, <2>3
    <3>2. i < n => i + 2 \in 1..(n + 1) /\ i + 2 # n + 1 - k
      BY <1>1, <2>3
    <3>3. (i <= n => h[i + 1] = m[i + 1]) /\ (i < n => h[i + 2] = m[i + 2])
      <4>. HIDE DEF n
      <4>. QED BY <3>1, <3>2
    <3>4. MatchAt(p, t, h, i) = MatchAt(p, t, m, i)
      <4>. HIDE DEF h
      <4>. QED BY <1>1, <3>3 DEF MatchAt
    <3>5. h[i] = MatchAt(p, t, m, i)
      <4>1. i # n + 1 - k => i > n + 1 - k
        BY <1>1, <2>3
      <4>2. h[i] = IF i = n + 1 - k THEN MatchAt(p, t, m, i) ELSE m[i]
        OBVIOUS
      <4>. QED BY <2>1, <4>1, <4>2
    <3>. QED BY <3>4, <3>5
  <2>. HIDE DEF h
  <2>4. FromEnd(h, k + 1)
    <3>1. \A i : i \in 1..(n + 1) /\ i > n + 1 - (k + 1) => i > n - k
      BY <1>1
    <3>. QED BY <2>3, <3>1
  <2>5. k + 1 \in Nat
    OBVIOUS
  <2>. HIDE DEF FromEnd
  <2>. QED BY <2>2, <2>4, <2>5
<1>4. n + 1 \in good
  <2>1. good \in SUBSET Nat /\ n + 1 \in Nat
    OBVIOUS
  <2>. HIDE DEF good
  <2>. QED BY <1>2, <1>3, <2>1, Induction
<1>5. PICK m : m = [i \in 1..(n + 1) |-> m[i]] /\ FromEnd(m, n + 1)
  BY <1>4
<1>6. \A i \in 1..(n + 1) : m[i] = MatchAt(p, t, m, i)
  <2>1. \A i \in 1..(n + 1) : i > n + 1 - (n + 1)
    BY <1>1
  <2>. QED BY <1>5, <2>1
<1>. QED
  BY <1>5, <1>6 DEF MatchOf

(* Where in a text the characters of v from the k-th on are met, in either case. *)
Met(v, t, k) ==
  {j \in 1..(Len(t) + 1) :
     /\ j + (Len(v) + 1 - k) <= Len(t) + 1
     /\ \A i \in k..Len(v) : Fold(t[j + i - k]) = Fold(v[i])}

LEMMA MetStep ==
  ASSUME NEW C, NEW v \in Seq(C), NEW t \in Seq(C), NEW k \in 1..Len(v)
  PROVE  CharThen(t, v[k], Met(v, t, k + 1)) = Met(v, t, k)
<1>1. Len(v) \in Nat /\ Len(t) \in Nat
  OBVIOUS
<1>2. ASSUME NEW j \in CharThen(t, v[k], Met(v, t, k + 1)) PROVE j \in Met(v, t, k)
  <2>1. j \in 1..Len(t) /\ j + 1 \in Met(v, t, k + 1) /\ Fold(t[j]) = Fold(v[k])
    BY DEF CharThen, OneThen
  <2>2. /\ j + 1 + (Len(v) + 1 - (k + 1)) <= Len(t) + 1
        /\ \A i \in (k + 1)..Len(v) : Fold(t[j + 1 + i - (k + 1)]) = Fold(v[i])
    BY <2>1 DEF Met
  <2>3. ASSUME NEW i \in k..Len(v) PROVE Fold(t[j + i - k]) = Fold(v[i])
    <3>1. CASE i = k
      <4>1. j + i - k = j
        BY <1>1, <2>1, <3>1
      <4>. QED BY <2>1, <3>1, <4>1
    <3>2. CASE i # k
      <4>1. i \in (k + 1)..Len(v)
        BY <1>1, <3>2
      <4>2. j \in Int /\ i \in Int /\ k \in Int
        BY <1>1, <2>1
      <4>3. j + 1 + i - (k + 1) = j + i - k
        BY <4>2
      <4>. QED BY <2>2, <4>1, <4>3
    <3>. QED BY <3>1, <3>2
  <2>4. j \in 1..(Len(t) + 1) /\ j + (Len(v) + 1 - k) <= Len(t) + 1
    BY <1>1, <2>1, <2>2
  <2>. QED BY <2>3, <2>4 DEF Met
<1>3. ASSUME NEW j \in Met(v, t, k) PROVE j \in CharThen(t, v[k], Met(v, t, k + 1))
  <2>1. /\ j \in 1..(Len(t) + 1) /\ j + (Len(v) + 1 - k) <= Len(t) + 1
        /\ \A i \in k..Len(v) : Fold(t[j + i - k]) = Fold(v[i])
    BY DEF Met
  <2>2. Fold(t[j]) = Fold(v[k])
    <3>1. k \in k..Len(v) /\ j + k - k = j
      BY <1>1, <2>1
    <3>. QED BY <2>1, <3>1
  <2>3. ASSUME NEW i \in (k + 1)..Len(v) PROVE Fold(t[j + 1 + i - (k + 1)]) = Fold(v[i])
    <3>1. i \in k..Len(v)
      BY <1>1
    <3>2. j \in Int /\ i \in Int /\ k \in Int
      BY <1>1, <2>1
    <3>3. j + 1 + i - (k + 1) = j + i - k
      BY <3>2
    <3>. QED BY <2>1, <3>1, <3>3
  <2>4. j \in 1..Len(t) /\ j + 1 \in 1..(Len(t) + 1) /\ j + 1 + (Len(v) + 1 - (k + 1)) <= Len(t) + 1
    BY <1>1, <2>1
  <2>. QED BY <2>2, <2>3, <2>4 DEF Met, CharThen, OneThen
<1>. QED BY <1>2, <1>3

(* The filter's pattern stands for any text, the filter's characters, and any text. *)
LEMMA LikeFinds ==
  ASSUME NEW C, Special \subseteq C, NEW v \in Seq(C), NEW t \in Seq(C)
  PROVE  Like(<<Percent>> \o LikeEscape(v) \o <<Percent>>, t) <=> Met(v, t, 1) # {}
<1>. DEFINE p == <<Percent>> \o LikeEscape(v) \o <<Percent>>
<1>1. PICK e \in Seq(C) : e = LikeEscape(v)
  BY LikeEscapeLaid
<1>2. PICK pos : Laid(v, e, pos)
  BY <1>1, LikeEscapeLaid
<1>3. /\ p \in Seq(C) /\ Len(p) = Len(e) + 2 /\ p[1] = Percent /\ p[Len(e) + 2] = Percent
      /\ \A i \in 1..Len(e) : p[i + 1] = e[i]
  <2>1. Percent \in C
    BY DEF Special
  <2>. QED BY <1>1, <2>1
<1>. HIDE DEF p
<1>4. Len(v) \in Nat /\ Len(t) \in Nat /\ Len(e) \in Nat
  OBVIOUS
<1>5. PICK m : m = CHOOSE h : MatchOf(p, t, h)
  OBVIOUS
<1>6. \A i \in 1..(Len(e) + 3) : m[i] = MatchAt(p, t, m, i)
  <2>1. MatchOf(p, t, m)
    BY <1>3, <1>5, MatchExists
  <2>2. Len(p) + 1 = Len(e) + 3
    BY <1>3, <1>4
  <2>. QED BY <2>1, <2>2 DEF MatchOf
<1>7. Like(p, t) <=> 1 \in m[1]
  BY <1>5, LikeIs
<1>. DEFINE good == {k \in Nat : k <= Len(v) => m[pos[Len(v) + 1 - k] + 1] = Met(v, t, Len(v) + 1 - k)}
<1>8. 0 \in good
  <2>1. m[Len(e) + 3] = {Len(t) + 1}
    <3>1. Len(e) + 3 \in 1..(Len(e) + 3) /\ Len(e) + 3 > Len(p)
      BY <1>3, <1>4
    <3>. QED BY <1>6, <3>1 DEF MatchAt
  <2>2. m[Len(e) + 2] = AnyThen(t, m[Len(e) + 3])
    <3>1. /\ Len(e) + 2 \in 1..(Len(e) + 3) /\ ~(Len(e) + 2 > Len(p))
          /\ (Len(e) + 2) + 1 = Len(e) + 3
      BY <1>3, <1>4
    <3>. QED BY <1>3, <1>6, <3>1 DEF MatchAt
  <2>3. AnyThen(t, {Len(t) + 1}) = 1..(Len(t) + 1)
    BY <1>4 DEF AnyThen
  <2>4. Met(v, t, Len(v) + 1) = 1..(Len(t) + 1)
    BY <1>4 DEF Met
  <2>5. pos[Len(v) + 1] + 1 = Len(e) + 2 /\ Len(v) + 1 - 0 = Len(v) + 1
    BY <1>2, <1>4 DEF Laid
  <2>. QED BY <2>1, <2>2, <2>3, <2>4, <2>5
<1>9. ASSUME NEW k \in good PROVE k + 1 \in good
  <2>. SUFFICES ASSUME k + 1 <= Len(v) PROVE m[pos[Len(v) - k] + 1] = Met(v, t, Len(v) - k)
    BY <1>4
  <2>1. PICK a \in 1..Len(v) : a = Len(v) - k
    <3>1. k \in Nat
      OBVIOUS
    <3>2. Len(v) - k \in 1..Len(v)
      BY <1>4, <3>1
    <3>. QED BY <3>2
  <2>2. m[pos[a + 1] + 1] = Met(v, t, a + 1)
    BY <1>4, <2>1
  <2>3. m[pos[a] + 1] = CharThen(t, v[a], m[pos[a + 1] + 1])
    <3>1. pos[a] \in 1..Len(e)
      BY <1>2 DEF Laid
    <3>2. PICK b \in 1..Len(e) : b = pos[a]
      BY <3>1
    <3>3. p[b + 1] = e[b] /\ b + 1 \in 1..(Len(e) + 3) /\ ~(b + 1 > Len(p)) /\ b + 1 < Len(p)
      BY <1>3, <1>4
    <3>4. CASE v[a] \in Special
      <4>1. pos[a + 1] = b + 2 /\ b + 1 \in 1..Len(e) /\ e[b] = Backslash /\ e[b + 1] = v[a]
        <5>1. /\ pos[a + 1] = pos[a] + 2 /\ pos[a] < Len(e)
              /\ e[pos[a]] = Backslash /\ e[pos[a] + 1] = v[a]
          BY <1>2, <3>4 DEF Laid
        <5>2. pos[a + 1] = b + 2 /\ b < Len(e) /\ e[b] = Backslash /\ e[b + 1] = v[a]
          BY <3>2, <5>1
        <5>3. b + 1 \in 1..Len(e)
          BY <1>4, <5>2
        <5>. QED BY <5>2, <5>3
      <4>2. p[b + 1] = Backslash /\ p[(b + 1) + 1] = v[a]
        BY <1>3, <3>3, <4>1
      <4>3. m[b + 1] = CharThen(t, p[(b + 1) + 1], m[(b + 1) + 2])
        BY <1>6, <3>3, <4>2, CharactersDiffer DEF MatchAt
      <4>4. (b + 1) + 2 = pos[a + 1] + 1
        BY <4>1
      <4>. QED BY <3>2, <4>2, <4>3, <4>4
    <3>5. CASE v[a] \notin Special
      <4>1. pos[a + 1] = b + 1 /\ e[b] = v[a]
        BY <1>2, <1>4, <3>2, <3>5 DEF Laid
      <4>2. p[b + 1] = v[a]
        BY <1>3, <3>3, <4>1
      <4>3. v[a] # Percent /\ v[a] # Underscore /\ v[a] # Backslash
        BY <3>5 DEF Special
      <4>4. m[b + 1] = CharThen(t, p[b + 1], m[(b + 1) + 1])
        BY <1>6, <3>3, <4>2, <4>3 DEF MatchAt
      <4>5. (b + 1) + 1 = pos[a + 1] + 1
        BY <4>1
      <4>. QED BY <3>2, <4>2, <4>4, <4>5
    <3>. QED BY <3>4, <3>5
  <2>. QED BY <2>1, <2>2, <2>3, MetStep
<1>10. Len(v) \in good
  <2>1. good \in SUBSET Nat
    OBVIOUS
  <2>. HIDE DEF good
  <2>. QED BY <1>4, <1>8, <1>9, <2>1, Induction
<1>11. m[2] = Met(v, t, 1)
  <2>1. Len(v) + 1 - Len(v) = 1 /\ pos[1] = 1
    BY <1>2, <1>4 DEF Laid
  <2>2. m[pos[1] + 1] = Met(v, t, 1)
    BY <1>4, <1>10, <2>1
  <2>. QED BY <2>1, <2>2
<1>12. m[1] = AnyThen(t, m[2])
  <2>1. 1 \in 1..(Len(e) + 3) /\ ~(1 > Len(p)) /\ 1 + 1 = 2
    BY <1>3, <1>4
  <2>. QED BY <1>3, <1>6, <2>1 DEF MatchAt
<1>13. 1 \in AnyThen(t, Met(v, t, 1)) <=> Met(v, t, 1) # {}
  <2>1. Met(v, t, 1) \subseteq 1..(Len(t) + 1)
    BY DEF Met
  <2>2. 1 \in 1..(Len(t) + 1) /\ \A k \in 1..(Len(t) + 1) : 1 <= k
    BY <1>4
  <2>. HIDE DEF Met
  <2>. QED BY <2>1, <2>2 DEF AnyThen
<1>14. Like(p, t) <=> Met(v, t, 1) # {}
  BY <1>7, <1>11, <1>12, <1>13
<1>. QED BY <1>14 DEF p

(* A text holds another where the other's characters follow one another in it. *)
LEMMA HasTextIs ==
  ASSUME NEW S, NEW s \in Seq(S), NEW w \in Seq(S)
  PROVE  HasText(s, w) <=> \E j \in 1..(Len(s) + 1) :
                             /\ j + Len(w) <= Len(s) + 1
                             /\ \A i \in 1..Len(w) : s[j + i - 1] = w[i]
<1>1. Len(s) \in Nat /\ Len(w) \in Nat /\ \A i \in 1..Len(s) : s[i] \in S
  OBVIOUS
<1>2. ASSUME NEW j \in 0..(Len(s) - Len(w))
      PROVE  SubSeq(s, j + 1, j + Len(w)) = w <=> \A i \in 1..Len(w) : s[(j + 1) + i - 1] = w[i]
  <2>1. PICK sub : sub = SubSeq(s, j + 1, j + Len(w))
    OBVIOUS
  <2>2. sub \in Seq(S) /\ Len(sub) = Len(w) /\ \A i \in 1..Len(w) : sub[i] = s[(j + 1) + i - 1]
    <3>1. j + 1 \in Int /\ j + Len(w) \in Int /\ \A i \in (j + 1)..(j + Len(w)) : s[i] \in S
      BY <1>1
    <3>2. /\ sub \in Seq(S)
          /\ Len(sub) = IF j + 1 <= j + Len(w) THEN (j + Len(w)) - (j + 1) + 1 ELSE 0
          /\ \A i \in 1..((j + Len(w)) - (j + 1) + 1) : sub[i] = s[(j + 1) + i - 1]
      BY <2>1, <3>1, SubSeqProperties
    <3>3. (j + Len(w)) - (j + 1) + 1 = Len(w) /\ (~(j + 1 <= j + Len(w)) => Len(w) = 0)
      BY <1>1
    <3>. QED BY <3>2, <3>3
  <2>3. (\A i \in 1..Len(w) : sub[i] = w[i]) => sub = w
    BY <1>1, <2>2
  <2>. QED BY <2>1, <2>2, <2>3
<1>3. ASSUME HasText(s, w)
      PROVE  \E j \in 1..(Len(s) + 1) : /\ j + Len(w) <= Len(s) + 1
                                        /\ \A i \in 1..Len(w) : s[j + i - 1] = w[i]
  <2>1. PICK j \in 0..(Len(s) - Len(w)) : SubSeq(s, j + 1, j + Len(w)) = w
    BY <1>3 DEF HasText
  <2>2. j + 1 \in 1..(Len(s) + 1) /\ (j + 1) + Len(w) <= Len(s) + 1
    BY <1>1
  <2>. QED BY <1>2, <2>1, <2>2
<1>4. ASSUME NEW k \in 1..(Len(s) + 1), k + Len(w) <= Len(s) + 1,
             \A i \in 1..Len(w) : s[k + i - 1] = w[i]
      PROVE  HasText(s, w)
  <2>1. PICK j \in 0..(Len(s) - Len(w)) : j + 1 = k
    <3>1. k - 1 \in 0..(Len(s) - Len(w)) /\ (k - 1) + 1 = k
      BY <1>1, <1>4
    <3>. QED BY <3>1
  <2>2. SubSeq(s, j + 1, j + Len(w)) = w
    BY <1>2, <1>4, <2>1
  <2>. QED BY <2>2 DEF HasText
<1>. QED BY <1>3, <1>4

(* The page's LIKE, on the pattern that list_events builds with like_escape, *)
(* finds the events that a search of the folded filter in the folded path  *)
(* finds; and a text that holds the filter as it stands is among them.      *)
THEOREM LikeIsSearch ==
  ASSUME NEW C, NEW v \in Seq(C), NEW t \in Seq(C)
  PROVE  /\ Like(<<Percent>> \o LikeEscape(v) \o <<Percent>>, t) <=> HasText(Folded(t), Folded(v))
         /\ HasText(t, v) => HasText(Folded(t), Folded(v))
<1>. DEFINE D == C \union Special
            S == {Fold(c) : c \in C}
<1>1. Special \subseteq D /\ v \in Seq(D) /\ t \in Seq(D)
  OBVIOUS
<1>2. Len(v) \in Nat /\ Len(t) \in Nat
  OBVIOUS
<1>3. ASSUME NEW w \in Seq(C)
      PROVE  Folded(w) \in Seq(S) /\ Len(Folded(w)) = Len(w) /\ \A i \in 1..Len(w) : Folded(w)[i] = Fold(w[i])
  <2>1. DOMAIN w = 1..Len(w) /\ Len(w) \in Nat /\ \A i \in 1..Len(w) : w[i] \in C
    OBVIOUS
  <2>2. Folded(w) = [i \in 1..Len(w) |-> Fold(w[i])]
    BY <2>1 DEF Folded
  <2>3. \A i \in 1..Len(w) : Fold(w[i]) \in S
    BY <2>1
  <2>. HIDE DEF S
  <2>. QED BY <2>1, <2>2, <2>3
<1>. HIDE DEF S, D
<1>4. HasText(Folded(t), Folded(v)) <=>
        \E j \in 1..(Len(t) + 1) : /\ j + Len(v) <= Len(t) + 1
                                   /\ \A i \in 1..Len(v) : Folded(t)[j + i - 1] = Folded(v)[i]
  <2>1. /\ Folded(t) \in Seq(S) /\ Len(Folded(t)) = Len(t)
        /\ Folded(v) \in Seq(S) /\ Len(Folded(v)) = Len(v)
    BY <1>3
  <2>2. PICK a \in Seq(S), b \in Seq(S) : a = Folded(t) /\ b = Folded(v) /\ Len(a) = Len(t) /\ Len(b) = Len(v)
    BY <2>1
  <2>3. HasText(a, b) <=> \E j \in 1..(Len(a) + 1) : /\ j + Len(b) <= Len(a) + 1
                                                      /\ \A i \in 1..Len(b) : a[j + i - 1] = b[i]
    BY HasTextIs
  <2>. QED BY <2>2, <2>3
<1>5. ASSUME NEW j \in 1..(Len(t) + 1), j + Len(v) <= Len(t) + 1
      PROVE  \A i \in 1..Len(v) : /\ j + i - 1 \in 1..Len(t)
                                  /\ Folded(t)[j + i - 1] = Fold(t[j + i - 1])
                                  /\ Folded(v)[i] = Fold(v[i])
  <2>1. \A i \in 1..Len(v) : j + i - 1 \in 1..Len(t)
    BY <1>2, <1>5
  <2>. QED BY <1>3, <2>1
<1>6. HasText(Folded(t), Folded(v)) <=> Met(v, t, 1) # {}
  <2>1. \A j : j \in Met(v, t, 1) <=> /\ j \in 1..(Len(t) + 1)
                                      /\ j + Len(v) <= Len(t) + 1
                                      /\ \A i \in 1..Len(v) : Fold(t[j + i - 1]) = Fold(v[i])
    <3>1. \A j \in 1..(Len(t) + 1) : j + (Len(v) + 1 - 1) = j + Len(v)
      BY <1>2
    <3>. QED BY <3>1, Zenon DEF Met
  <2>2. ASSUME NEW j \in 1..(Len(t) + 1), j + Len(v) <= Len(t) + 1
        PROVE  j \in Met(v, t, 1) <=> \A i \in 1..Len(v) : Folded(t)[j + i - 1] = Folded(v)[i]
    <3>1. \A i \in 1..Len(v) : /\ Folded(t)[j + i - 1] = Fold(t[j + i - 1])
                               /\ Folded(v)[i] = Fold(v[i])
      BY <1>5, <2>2
    <3>2. j \in Met(v, t, 1) <=> \A i \in 1..Len(v) : Fold(t[j + i - 1]) = Fold(v[i])
      BY <2>1, <2>2, Zenon
    <3>. QED BY <3>1, <3>2
  <2>. QED BY <1>4, <2>1, <2>2
<1>7. HasText(t, v) => HasText(Folded(t), Folded(v))
  <2>. SUFFICES ASSUME HasText(t, v) PROVE HasText(Folded(t), Folded(v))
    OBVIOUS
  <2>1. PICK j \in 1..(Len(t) + 1) : /\ j + Len(v) <= Len(t) + 1
                                     /\ \A i \in 1..Len(v) : t[j + i - 1] = v[i]
    <3>1. HasText(t, v) <=> \E j \in 1..(Len(t) + 1) : /\ j + Len(v) <= Len(t) + 1
                                                        /\ \A i \in 1..Len(v) : t[j + i - 1] = v[i]
      BY HasTextIs
    <3>. QED BY <3>1
  <2>. QED BY <1>4, <1>5, <2>1
<1>. QED BY <1>1, <1>6, <1>7, LikeFinds

(* What is typed into the filter is made of the characters of paths. *)
Typed ==
  field = "path" => text \in Seq(PathChars) /\ filter \in OtherFilters

LEMMA TypedAlways == FormsSpec => []Typed
<1>1. FormsInit => Typed
  BY DEF FormsInit, Typed
<1>2. Typed /\ [FormsNext]_formsVars => Typed'
  <2>. SUFFICES ASSUME Typed, [FormsNext]_formsVars PROVE Typed'
    OBVIOUS
  <2>1. CASE Clear
    <3>1. text' = <<>> /\ <<>> \in Seq(PathChars)
      BY <2>1 DEF Clear
    <3>. QED BY <2>1, <3>1 DEF Clear, Typed, OtherFilters
  <2>2. ASSUME NEW c \in WindowChars \union PathChars, Type(c) PROVE Typed'
    <3>1. field = "path" => c \in PathChars /\ text' = Append(text, c)
      BY <2>2 DEF Type
    <3>2. field = "path" => text' \in Seq(PathChars)
      BY <3>1, AppendProperties DEF Typed
    <3>. QED BY <2>2, <3>2 DEF Type, Typed, OtherFilters
  <2>3. CASE UNCHANGED formsVars
    BY <2>3 DEF formsVars, Typed, OtherFilters
  <2>. QED BY <2>1, <2>2, <2>3 DEF FormsNext
<1>. QED BY <1>1, <1>2, PTL DEF FormsSpec

(* How a bound of the filter reads, as a time. *)
LEMMA Bound ==
  ASSUME NEW b \in Int, NEW at \in Nat, NEW a, a = at
  PROVE  /\ (b > 0 => a >= b) <=> b <= at
         /\ (b > 0 => a <= b) <=> b <= 0 \/ at <= b
         /\ (b # 0 => a >= b) <=> b <= at
         /\ (b # 0 => a <= b) <=> (b <= 0 \/ at <= b) /\ b >= 0
  OBVIOUS

(* What the page asks of the database and what the stream filters in Python *)
(* agree on every event, for any alphabet and any length of filter and path *)
(* (list_events, like_escape and _matches): wildcards and backslashes are   *)
(* literal, and the two differ only on the case of letters and on an end    *)
(* before 1970.                                                             *)
THEOREM FiltersAlwaysAgree == FormsSpec => []FiltersAgree
<1>1. ASSUME Typed PROVE FiltersAgree
  <2>. DEFINE f == [provider |-> filter.provider, path |-> text, from |-> filter.from, to |-> filter.to]
  <2>. SUFFICES ASSUME field = "path",
                       NEW path \in Paths, NEW provider \in Providers, NEW at \in EventTimes,
                       NEW e, e = [provider |-> provider, path |-> path, at |-> at]
                PROVE  /\ Listed(e, f) <=> /\ f.provider \in {"", provider}
                                           /\ HasText(Folded(path), Folded(text))
                                           /\ f.from <= at
                                           /\ f.to <= 0 \/ at <= f.to
                       /\ Matches(e, f) <=> /\ Listed(e, f)
                                            /\ HasText(path, text)
                                            /\ f.to >= 0
    BY DEF FiltersAgree
  <2>1. /\ text \in Seq(PathChars) /\ filter \in OtherFilters
        /\ f.provider = filter.provider /\ f.path = text /\ f.from = filter.from /\ f.to = filter.to
        /\ e.provider = provider /\ e.path = path /\ e.at = at
    BY <1>1 DEF Typed
  <2>. HIDE DEF f
  <2>2. path \in Seq(PathChars)
    BY FormsAssumption DEF Paths, BoundedSeq, SeqOf
  <2>3. f.from \in Int /\ f.to \in Int /\ at \in Nat /\ provider # ""
    BY <2>1, FormsAssumption DEF OtherFilters, Providers
  <2>4. /\ Like(<<Percent>> \o LikeEscape(text) \o <<Percent>>, path) <=> HasText(Folded(path), Folded(text))
        /\ HasText(path, text) => HasText(Folded(path), Folded(text))
    BY <2>1, <2>2, LikeIsSearch
  <2>5. text = <<>> => HasText(path, text)
    <3>1. text = <<>> => \E j \in 1..(Len(path) + 1) : /\ j + Len(text) <= Len(path) + 1
                                                       /\ \A i \in 1..Len(text) : path[j + i - 1] = text[i]
      BY <2>2
    <3>. QED BY <2>1, <2>2, <3>1, HasTextIs
  <2>6. Listed(e, f) <=> /\ f.provider \in {"", provider}
                         /\ HasText(Folded(path), Folded(text))
                         /\ f.from <= at
                         /\ f.to <= 0 \/ at <= f.to
    <3>1. f.path = <<>> \/ Like(<<Percent>> \o LikeEscape(f.path) \o <<Percent>>, e.path)
            <=> HasText(Folded(path), Folded(text))
      BY <2>1, <2>4, <2>5
    <3>2. (f.from > 0 => e.at >= f.from) <=> f.from <= at
      BY <2>1, <2>3, Bound
    <3>3. (f.to > 0 => e.at <= f.to) <=> f.to <= 0 \/ at <= f.to
      BY <2>1, <2>3, Bound
    <3>. QED BY <2>1, <3>1, <3>2, <3>3 DEF Listed
  <2>7. Matches(e, f) <=> Listed(e, f) /\ HasText(path, text) /\ f.to >= 0
    <3>1. f.path = <<>> \/ HasText(e.path, f.path) <=> HasText(path, text)
      BY <2>1, <2>5
    <3>2. (f.from # 0 => e.at >= f.from) <=> f.from <= at
      BY <2>1, <2>3, Bound
    <3>3. (f.to # 0 => e.at <= f.to) <=> (f.to <= 0 \/ at <= f.to) /\ f.to >= 0
      BY <2>1, <2>3, Bound
    <3>. QED BY <2>1, <2>4, <2>6, <3>1, <3>2, <3>3 DEF Matches
  <2>. QED BY <2>6, <2>7
<1>. QED BY <1>1, TypedAlways, PTL

-----------------------------------------------------------------------------
(* The stream and the retention job *)

PB == INSTANCE BatcherProofs

USE StoreAssumption, ConsoleEventsAssumption

(* A step of the batcher among the retention job and the viewer. *)
LiveStep ==
  B!Start \/ B!Close \/ (\E at \in Times : B!Ingest(at)) \/ B!PersistOk \/ B!Tick

(* The batcher BatcherProofs speaks of is this one, too. *)
LEMMA SameLiveBatcher == (B!Init => PB!Init) /\ (LiveStep => PB!Next)
<1>1. B!Init => PB!Init
  BY DEF B!Init, PB!Init, B!StoreInit, PB!StoreInit, B!Times, PB!Times, B!Never, PB!Never
<1>2. /\ B!tables = PB!tables /\ B!memory = PB!memory /\ B!history = PB!history
      /\ B!tables' = PB!tables' /\ B!memory' = PB!memory' /\ B!history' = PB!history'
  BY DEF B!tables, PB!tables, B!memory, PB!memory, B!history, PB!history
<1>3. /\ B!Start => PB!Start
      /\ B!Close => PB!Close
      /\ B!CloseReturn => PB!CloseReturn
      /\ B!Tick => PB!Tick
  BY <1>2 DEF B!Start, PB!Start, B!Close, PB!Close, B!CloseReturn, PB!CloseReturn,
              B!Tick, PB!Tick
<1>4. Times = PB!Times /\ \A at : B!Ingest(at) => PB!Ingest(at)
  BY <1>2 DEF B!Ingest, PB!Ingest, B!Enqueue, PB!Enqueue, Times, PB!Times
<1>5. /\ B!LatestId = PB!LatestId /\ B!AfterPersist = PB!AfterPersist
      /\ \A evs : B!Numbers(evs) = PB!Numbers(evs)
      /\ \A k : B!Buckets(k) = PB!Buckets(k)
      /\ \A T : B!Cardinality(T) = PB!Cardinality(T)
  BY DEF B!LatestId, PB!LatestId, B!AfterPersist, PB!AfterPersist, B!Numbers, PB!Numbers,
         B!Buckets, PB!Buckets, B!Max, PB!Max, B!Cardinality, PB!Cardinality
<1>6. \A evs, bs : B!WithRollups(evs, bs) = PB!WithRollups(evs, bs)
  <2> SUFFICES ASSUME NEW evs, NEW bs PROVE B!WithRollups(evs, bs) = PB!WithRollups(evs, bs)
    OBVIOUS
  <2> QED BY <1>5 DEF B!WithRollups, PB!WithRollups, B!Times, PB!Times
<1>7. \A evs : B!WithRows(evs) = PB!WithRows(evs)
  <2> SUFFICES ASSUME NEW evs PROVE B!WithRows(evs) = PB!WithRows(evs)
    OBVIOUS
  <2> QED BY <1>5 DEF B!WithRows, PB!WithRows
<1>8. (B!DrainTick => PB!DrainTick) /\ (B!DrainFinally => PB!DrainFinally)
  BY <1>2, <1>5 DEF B!DrainTick, PB!DrainTick, B!DrainFinally, PB!DrainFinally
<1>9. (B!Insert => PB!Insert) /\ (\A k : B!Rollup(k) => PB!Rollup(k))
  BY <1>5, <1>6, <1>7 DEF B!Insert, PB!Insert, B!Rollup, PB!Rollup
<1>10. B!Setting => PB!Setting
  BY <1>2, <1>5 DEF B!Setting, PB!Setting
<1>11. B!PersistOk => PB!Persist
  BY <1>3, <1>8, <1>9, <1>10 DEF B!PersistOk, PB!PersistOk, PB!Persist
<1> QED
  BY <1>1, <1>3, <1>4, <1>11 DEF LiveStep, PB!Next

(* What the batcher's steps do to the table: insert_events puts newer rows  *)
(* at its end, nothing else touches it.                                     *)
LEMMA LiveStepRows ==
  ASSUME PB!Core, LiveStep
  PROVE  /\ PB!Core' /\ inserted \subseteq inserted' /\ now <= now' /\ retention' = retention
         /\ rows \subseteq rows'
         /\ \A r \in rows' \ rows : /\ \A s \in rows : s.id < r.id
                                   /\ \A x \in inserted : x < r.ev.n
<1>1. PB!Core' /\ (LiveStep => PB!Next)
  BY SameLiveBatcher, PB!StepCore
<1>2. now \in Nat
  BY DEF PB!Core, PB!TypeOK, PB!Times
<1>3. CASE B!Insert
  <2>1. PB!Insert
    <3>1. \A evs : B!WithRows(evs) = PB!WithRows(evs) /\ B!Numbers(evs) = PB!Numbers(evs)
      BY DEF B!WithRows, PB!WithRows, B!LatestId, PB!LatestId, B!Max, PB!Max, B!Numbers, PB!Numbers
    <3> QED BY <1>3, <3>1 DEF B!Insert, PB!Insert
  <2>2. inserted \subseteq inserted' /\ now' = now /\ retention' = retention
    BY <2>1 DEF PB!Insert
  <2> QED BY <1>1, <1>2, <2>1, <2>2, PB!InsertAddsNewer
<1>4. CASE ~B!Insert
  <2>1. rows' = rows /\ inserted' = inserted /\ retention' = retention
    BY <1>4 DEF LiveStep, B!Start, B!Close, B!Ingest, B!PersistOk, B!Tick, B!DrainTick,
                B!DrainFinally, B!Rollup, B!Setting, B!CloseReturn, B!tables, B!history
  <2>2. now' = now \/ now' = now + 1
    BY <1>4 DEF LiveStep, B!Start, B!Close, B!Ingest, B!PersistOk, B!Tick, B!DrainTick,
                B!DrainFinally, B!Rollup, B!Setting, B!CloseReturn
  <2> QED BY <1>1, <1>2, <2>1, <2>2
<1> QED
  BY <1>3, <1>4

(* delete_events_older_than and a new window leave the batcher alone. *)
LEMMA SweptCore ==
  ASSUME PB!Core, rows' \subseteq rows, retention' \in RetentionDays,
         UNCHANGED <<rollups, lastIngest, batcherVars>>
  PROVE  PB!Core'
<1>1. UNCHANGED <<rollups, lastIngest, now, phase, stopping, queue, drops, worker, last, batch,
                  accepted, inserted, lost, dropped, crashed, faults, crashes, atClose>>
  BY DEF batcherVars
<1>2. PB!TypeOK'
  BY <1>1 DEF PB!Core, PB!TypeOK, PB!StoreTypeOK
<1>3. PB!Suffix' /\ PB!Drops' /\ PB!Control'
  BY <1>1 DEF PB!Core, PB!Suffix, PB!Drops, PB!Control
<1>4. PB!Run' /\ PB!Front'
  <2>1. UNCHANGED <<PB!Numbers(batch), PB!Settled, PB!Writing>>
    BY <1>1 DEF PB!Numbers, PB!Settled, PB!Writing
  <2>2. PB!Run'
    BY <1>1, <2>1 DEF PB!Core, PB!Run
  <2>3. PB!Front'
    BY <1>1, <2>1 DEF PB!Core, PB!Front
  <2> QED BY <2>2, <2>3
<1>5. PB!Table'
  <2>1. PB!IsFiniteSet(rows')
    BY PB!FS_Subset DEF PB!Core, PB!Table
  <2> QED BY <1>1, <2>1 DEF PB!Core, PB!Table, PB!IdsFollowArrival
<1> QED
  BY <1>2, <1>3, <1>4, <1>5 DEF PB!Core

-----------------------------------------------------------------------------
(* The order in which a poll sends what it found *)

Before(F, r) == {s \in F : s.id < r.id}
Rank(F, r) == Cardinality(Before(F, r))
Ranked(F, i) == CHOOSE r \in F : Rank(F, r) = i - 1

(* Rows with distinct ids are ranked 0, 1, 2 ... by their ids, none left out. *)
LEMMA RanksAreComplete ==
  ASSUME NEW F, IsFiniteSet(F), \A r \in F : r.id \in Nat, \A r, s \in F : r.id = s.id => r = s
  PROVE  /\ Cardinality(F) \in Nat
         /\ \A r \in F : Rank(F, r) + 1 \in 1..Cardinality(F) /\ Ranked(F, Rank(F, r) + 1) = r
         /\ \A i \in 1..Cardinality(F) : Ranked(F, i) \in F
         /\ \A i, j \in 1..Cardinality(F) : i < j => Ranked(F, i).id < Ranked(F, j).id
<1> DEFINE N == Cardinality(F)
           rank == [r \in F |-> Rank(F, r)]
<1>1. N \in Nat
  BY FS_CardinalityType
<1>2. ASSUME NEW r \in F PROVE Rank(F, r) \in Nat /\ Rank(F, r) < N /\ IsFiniteSet(Before(F, r))
  <2>1. Before(F, r) \in SUBSET F /\ r \notin Before(F, r)
    BY DEF Before
  <2>2. IsFiniteSet(Before(F, r)) /\ Rank(F, r) <= N /\ N # Rank(F, r)
    BY <2>1, FS_Subset DEF Rank
  <2>3. Rank(F, r) \in Nat
    BY <2>2, FS_CardinalityType DEF Rank
  <2> QED BY <1>1, <2>2, <2>3
<1>3. ASSUME NEW r \in F, NEW s \in F, r.id < s.id PROVE Rank(F, r) < Rank(F, s)
  <2>1. Before(F, r) \subseteq Before(F, s)
    BY <1>3 DEF Before
  <2>2. r \in Before(F, s) /\ r \notin Before(F, r)
    BY <1>3 DEF Before
  <2>3. Rank(F, r) <= Rank(F, s) /\ Rank(F, s) # Rank(F, r)
    BY <1>2, <2>1, <2>2, FS_Subset DEF Rank
  <2> QED BY <1>2, <2>3
<1>4. ASSUME NEW r \in F, NEW s \in F, Rank(F, r) = Rank(F, s) PROVE r = s
  <2>1. ~(r.id < s.id) /\ ~(s.id < r.id)
    BY <1>2, <1>3, <1>4
  <2> QED BY <2>1
<1>5. \A i \in 0..(N - 1) : \E r \in F : Rank(F, r) = i
  <2> DEFINE T == 0..(N - 1)
  <2>1. rank \in Injection(F, T)
    <3>1. rank \in [F -> T]
      BY <1>1, <1>2
    <3>2. \A r, s \in F : rank[r] = rank[s] => r = s
      BY <1>4
    <3> HIDE DEF rank, T
    <3> QED BY <3>1, <3>2 DEF Injection, IsInjective
  <2>2. IsFiniteSet(T) /\ Cardinality(T) = N
    <3>1. 0 \in Int /\ N - 1 \in Int /\ N \in Nat
      BY <1>1
    <3> HIDE DEF N
    <3>2. IsFiniteSet(T) /\ Cardinality(T) = IF 0 > N - 1 THEN 0 ELSE (N - 1) - 0 + 1
      BY <3>1, FS_Interval
    <3> QED BY <3>1, <3>2
  <2> HIDE DEF rank, T
  <2>3. rank \in Surjection(F, T)
    BY <2>1, <2>2, FS_Injection
  <2>4. \A i \in T : \E r \in F : rank[r] = i
    BY <2>3 DEF Surjection
  <2> QED BY <2>4 DEF rank, T
<1> HIDE DEF N, rank
<1>6. ASSUME NEW i \in 1..N PROVE Ranked(F, i) \in F /\ Rank(F, Ranked(F, i)) = i - 1
  <2>1. i - 1 \in 0..(N - 1)
    BY <1>1
  <2>2. \E r \in F : Rank(F, r) = i - 1
    BY <1>5, <2>1
  <2> QED BY <2>2 DEF Ranked
<1>7. ASSUME NEW r \in F PROVE Rank(F, r) + 1 \in 1..N /\ Ranked(F, Rank(F, r) + 1) = r
  <2>1. Rank(F, r) + 1 \in 1..N /\ (Rank(F, r) + 1) - 1 = Rank(F, r)
    BY <1>1, <1>2
  <2>2. Ranked(F, Rank(F, r) + 1) \in F /\ Rank(F, Ranked(F, Rank(F, r) + 1)) = Rank(F, r)
    BY <1>6, <2>1
  <2> QED BY <1>4, <2>1, <2>2
<1>8. ASSUME NEW i \in 1..N, NEW j \in 1..N, i < j PROVE Ranked(F, i).id < Ranked(F, j).id
  <2>1. /\ Ranked(F, i) \in F /\ Ranked(F, j) \in F
        /\ Rank(F, Ranked(F, i)) = i - 1 /\ Rank(F, Ranked(F, j)) = j - 1
    BY <1>6
  <2>2. ~(Ranked(F, j).id < Ranked(F, i).id)
    <3>1. ~(j - 1 < i - 1)
      BY <1>1, <1>8
    <3> QED BY <1>3, <2>1, <3>1
  <2>3. Ranked(F, j).id # Ranked(F, i).id
    <3>1. i - 1 # j - 1
      BY <1>1, <1>8
    <3> QED BY <2>1, <3>1
  <2> QED BY <2>1, <2>2, <2>3
<1> QED
  BY <1>1, <1>6, <1>7, <1>8 DEF N

-----------------------------------------------------------------------------
(* The invariant of the retention job and of the stream *)

LiveTypes ==
  /\ sweeper \in {"off", "start", "read", "delete", "idle", "exited"}
  /\ sweepNow \in 0..now
  /\ sweepDays \in RetentionDays \union {0}
  /\ inForce \subseteq RetentionDays
  /\ viewer \in {"away", "page", "stream"}
  /\ cursor \in Nat
  /\ joined \subseteq inserted
  /\ streamed \in Seq(inserted)
  /\ swept \in BOOLEAN

(* A sweep under way knows a window that was in force since it began. *)
Sweeping ==
  /\ sweeper \in {"read", "delete"} => retention \in inForce
  /\ sweeper = "delete" => sweepDays \in inForce

(* The stream has sent older events than are beyond its cursor, and unless  *)
(* rows were deleted under it the cursor is not beyond the table's end.     *)
Following ==
  /\ viewer # "stream" => cursor = 0 /\ streamed = <<>> /\ ~swept
  /\ ~swept => cursor = 0 \/ \E r \in rows : r.id >= cursor
  /\ \A i, j \in 1..Len(streamed) : i < j => streamed[i] < streamed[j]
  /\ \A r \in rows : r.id > cursor => \A i \in 1..Len(streamed) : streamed[i] < r.ev.n
  /\ viewer = "stream" /\ ~swept =>
       \A r \in rows : \/ r.ev.n \in joined \/ r.id > cursor
                       \/ \E i \in 1..Len(streamed) : streamed[i] = r.ev.n

LInv == PB!Core /\ LiveTypes /\ Sweeping /\ Following

LEMMA InitLInv == Init => LInv
<1> SUFFICES ASSUME Init PROVE LInv
  OBVIOUS
<1>1. PB!Core /\ now \in Nat
  <2>1. PB!Core
    BY SameLiveBatcher, PB!InitIInv DEF Init, PB!IInv
  <2> QED BY <2>1 DEF PB!Core, PB!TypeOK, PB!Times
<1>2. LiveTypes
  <2>1. swept \in BOOLEAN
    BY Zenon DEF Init
  <2> QED BY <1>1, <2>1 DEF Init, LiveTypes
<1>3. Sweeping /\ Following
  BY DEF Init, Sweeping, Following
<1> QED
  BY <1>1, <1>2, <1>3 DEF LInv

(* A stream that is not polled stays in step with a table that only grows   *)
(* at its end.                                                              *)
LEMMA StreamWaits ==
  ASSUME LInv, PB!Core', UNCHANGED viewerVars, inserted \subseteq inserted', rows \subseteq rows',
         \A r \in rows' \ rows : (\A s \in rows : s.id < r.id) /\ (\A x \in inserted : x < r.ev.n)
  PROVE  Following' /\ joined' \subseteq inserted' /\ streamed' \in Seq(inserted')
<1>1. UNCHANGED <<viewer, cursor, streamed, joined, swept>>
  BY DEF viewerVars
<1>2. streamed \in Seq(inserted) /\ streamed \in Seq(inserted') /\ joined \subseteq inserted
  <2>1. streamed \in Seq(inserted) /\ joined \subseteq inserted
    BY DEF LInv, LiveTypes
  <2> QED BY <2>1
<1>3. /\ cursor \in Nat /\ \A r \in rows : r.id \in Nat
      /\ \A r \in rows' : r.id \in Nat
  <2>1. rows \subseteq [id : Nat \ {0}, ev : PB!Event] /\ rows' \subseteq [id : Nat \ {0}, ev : PB!Event']
    BY DEF LInv, PB!Core, PB!TypeOK, PB!StoreTypeOK
  <2> QED BY <2>1 DEF LInv, LiveTypes
<1>4. ~swept => \A r \in rows' \ rows : r.id > cursor
  <2> SUFFICES ASSUME ~swept, NEW r \in rows' \ rows PROVE r.id > cursor
    OBVIOUS
  <2>1. CASE cursor = 0
    <3>1. r.id \in Nat \ {0}
      BY DEF PB!Core, PB!TypeOK, PB!StoreTypeOK
    <3> QED BY <2>1, <3>1
  <2>2. CASE \E s \in rows : s.id >= cursor
    BY <1>3, <2>2
  <2> QED BY <2>1, <2>2 DEF LInv, Following
<1>5. \A i \in 1..Len(streamed) : streamed[i] \in inserted
  BY <1>2
<1>6. Following'
  <2>1. \A r \in rows' : r.id > cursor => \A i \in 1..Len(streamed) : streamed[i] < r.ev.n
    BY <1>5 DEF LInv, Following
  <2>2. viewer = "stream" /\ ~swept =>
          \A r \in rows' : \/ r.ev.n \in joined \/ r.id > cursor
                           \/ \E i \in 1..Len(streamed) : streamed[i] = r.ev.n
    BY <1>4 DEF LInv, Following
  <2>3. ~swept => cursor = 0 \/ \E r \in rows' : r.id >= cursor
    BY DEF LInv, Following
  <2>4. /\ viewer # "stream" => cursor = 0 /\ streamed = <<>> /\ ~swept
        /\ \A i, j \in 1..Len(streamed) : i < j => streamed[i] < streamed[j]
    BY DEF LInv, Following
  <2> QED BY <1>1, <2>1, <2>2, <2>3, <2>4 DEF Following
<1> QED
  BY <1>1, <1>2, <1>6

(* A closed or lost connection ends the stream. *)
LEMMA StreamEnds ==
  ASSUME ViewerGone
  PROVE  /\ Following' /\ joined' \subseteq inserted' /\ streamed' \in Seq(inserted')
         /\ viewer' = "away" /\ cursor' = 0 /\ swept' = FALSE
  BY DEF ViewerGone, Following

(* Steps of the batcher, with or without the end of the stream. *)
LEMMA LiveStepLInv ==
  ASSUME LInv, LiveStep, UNCHANGED viewerVars \/ ViewerGone,
         sweeper' = sweeper \/ sweeper' = "start", UNCHANGED <<sweepNow, sweepDays, inForce>>
  PROVE  LInv'
<1>1. /\ PB!Core' /\ inserted \subseteq inserted' /\ now <= now' /\ retention' = retention
      /\ rows \subseteq rows'
      /\ \A r \in rows' \ rows : (\A s \in rows : s.id < r.id) /\ (\A x \in inserted : x < r.ev.n)
  BY LiveStepRows DEF LInv
<1>2. Following' /\ joined' \subseteq inserted' /\ streamed' \in Seq(inserted')
  BY <1>1, StreamWaits, StreamEnds
<1>3. viewer' \in {"away", "page", "stream"} /\ cursor' \in Nat /\ swept' \in BOOLEAN
  <2>1. viewer \in {"away", "page", "stream"} /\ cursor \in Nat /\ swept \in BOOLEAN
    BY DEF LInv, LiveTypes
  <2>2. CASE UNCHANGED viewerVars
    BY <2>1, <2>2 DEF viewerVars
  <2>3. CASE ViewerGone
    BY <2>3 DEF ViewerGone
  <2> QED BY <2>2, <2>3
<1>4. sweepNow' \in 0..now'
  <2>1. now \in Nat /\ now' \in Nat /\ sweepNow \in 0..now
    BY <1>1 DEF LInv, LiveTypes, PB!Core, PB!TypeOK, PB!Times
  <2> QED BY <1>1, <2>1
<1>5. LiveTypes'
  BY <1>2, <1>3, <1>4 DEF LInv, LiveTypes
<1>6. Sweeping'
  BY <1>1 DEF LInv, Sweeping
<1> QED
  BY <1>1, <1>2, <1>5, <1>6 DEF LInv

(* Steps of the retention job and of the settings page. *)
LEMMA SweepLInv ==
  ASSUME LInv, Sweep \/ \E days \in RetentionDays : SetRetention(days)
  PROVE  LInv'
<1>1. /\ rows' \subseteq rows /\ retention' \in RetentionDays
      /\ UNCHANGED <<rollups, lastIngest, batcherVars, viewer, cursor, streamed, joined>>
      /\ swept' = (swept \/ (viewer = "stream" /\ rows' # rows))
  <2>1. retention \in RetentionDays /\ swept \in BOOLEAN
    BY DEF LInv, LiveTypes, PB!Core, PB!TypeOK, PB!StoreTypeOK
  <2>2. CASE SweepDelete
    BY <2>1, <2>2 DEF SweepDelete, WithoutOlder
  <2>3. CASE ~SweepDelete
    <3>1. rows' = rows /\ swept' = swept
      BY <2>3 DEF Sweep, SweepBegin, SweepRead, SweepFails, SweeperStop, SetRetention,
                  tables, viewerVars
    <3>2. retention' \in RetentionDays
      BY <2>1, <2>3 DEF Sweep, SweepBegin, SweepRead, SweepFails, SweeperStop, SetRetention,
                  tables
    <3>3. UNCHANGED <<rollups, lastIngest, batcherVars, viewer, cursor, streamed, joined>>
      BY <2>3 DEF Sweep, SweepBegin, SweepRead, SweepFails, SweeperStop, SetRetention,
                  tables, viewerVars
    <3> QED BY <2>1, <3>1, <3>2, <3>3
  <2> QED BY <2>2, <2>3
<1>2. PB!Core'
  BY <1>1, SweptCore DEF LInv
<1>3. UNCHANGED <<now, inserted>>
  BY <1>1 DEF batcherVars
<1>4. Following'
  <2>1. CASE rows' = rows
    <3>1. swept' = swept
      BY <1>1, <2>1 DEF LInv, LiveTypes
    <3> QED BY <1>1, <2>1, <3>1 DEF LInv, Following
  <2>2. CASE rows' # rows /\ viewer = "stream"
    <3>1. swept'
      BY <1>1, <2>2
    <3> QED BY <1>1, <2>2, <3>1 DEF LInv, Following
  <2>3. CASE viewer # "stream"
    <3>1. cursor = 0 /\ streamed = <<>> /\ ~swept
      BY <2>3 DEF LInv, Following
    <3>2. ~swept'
      BY <1>1, <2>3, <3>1
    <3> QED BY <1>1, <2>3, <3>1, <3>2 DEF Following
  <2> QED BY <2>1, <2>2, <2>3
<1>5. swept' \in BOOLEAN
  BY <1>1, Zenon
<1>6. now \in Nat /\ retention \in RetentionDays
  BY DEF LInv, PB!Core, PB!TypeOK, PB!StoreTypeOK, PB!Times
<1>7. LiveTypes' /\ Sweeping'
  <2>1. CASE SweepBegin
    <3>1. sweeper' = "read" /\ sweepNow' = now /\ inForce' = {retention} /\ UNCHANGED <<sweepDays, retention>>
      BY <2>1 DEF SweepBegin, tables
    <3> QED BY <1>1, <1>3, <1>5, <1>6, <3>1 DEF LInv, LiveTypes, Sweeping
  <2>2. CASE SweepRead
    <3>1. /\ sweeper = "read" /\ sweeper' = "delete" /\ sweepDays' = retention
          /\ UNCHANGED <<sweepNow, inForce, retention>>
      BY <2>2 DEF SweepRead, tables
    <3> QED BY <1>1, <1>3, <1>5, <1>6, <3>1 DEF LInv, LiveTypes, Sweeping
  <2>3. CASE SweepDelete \/ SweepFails
    <3>1. sweeper' = "idle" /\ sweepNow' = 0 /\ sweepDays' = 0 /\ inForce' = {}
      BY <2>3 DEF SweepDelete, SweepFails, SweepReturns
    <3> QED BY <1>1, <1>3, <1>5, <1>6, <3>1 DEF LInv, LiveTypes, Sweeping
  <2>4. CASE SweeperStop
    <3>1. sweeper' = "exited" /\ UNCHANGED <<sweepNow, sweepDays, inForce>>
      BY <2>4 DEF SweeperStop
    <3> QED BY <1>1, <1>3, <1>5, <1>6, <3>1 DEF LInv, LiveTypes, Sweeping
  <2>5. ASSUME NEW days \in RetentionDays, SetRetention(days) PROVE LiveTypes' /\ Sweeping'
    <3>1. /\ retention' = days /\ inForce' = IF inForce = {} THEN {} ELSE inForce \union {days}
          /\ UNCHANGED <<sweeper, sweepNow, sweepDays>>
      BY <2>5 DEF SetRetention
    <3>2. LiveTypes'
      BY <1>1, <1>3, <1>5, <1>6, <3>1 DEF LInv, LiveTypes
    <3>3. Sweeping'
      BY <3>1 DEF LInv, Sweeping
    <3> QED BY <3>2, <3>3
  <2> QED BY <2>1, <2>2, <2>3, <2>4, <2>5 DEF Sweep
<1> QED
  BY <1>2, <1>4, <1>7 DEF LInv

(* One poll sends the oldest rows beyond the cursor, oldest first, and      *)
(* moves the cursor to the last of them.                                    *)
LEMMA PollSends ==
  ASSUME LInv, Poll,
         NEW found, found = EventsSince(cursor, StreamLimit), NEW n, n = Cardinality(found)
  PROVE  /\ n \in Nat /\ found \subseteq rows
         /\ streamed' = streamed \o [i \in 1..n |-> Ranked(found, i).ev.n]
         /\ cursor' \in Nat /\ cursor' >= cursor
         /\ \E r \in found : r.id = cursor'
         /\ \A r \in found : r.id <= cursor' /\ r.id > cursor
         /\ \A r \in rows : r \in found \/ r.id <= cursor \/ r.id > cursor'
         /\ \A r \in found : \E i \in 1..n : Ranked(found, i) = r
         /\ \A i \in 1..n : Ranked(found, i) \in found
         /\ \A i, j \in 1..n : i < j => Ranked(found, i).id < Ranked(found, j).id
<1> DEFINE between(r) == {s \in rows : s.id > cursor /\ s.id < r.id}
<1>1. /\ PB!TypeOK /\ PB!Table /\ IsFiniteSet(rows) /\ cursor \in Nat /\ accepted \in Nat
      /\ \A r \in rows : r.id \in 1..accepted
  <2>1. PB!TypeOK /\ PB!Table /\ cursor \in Nat
    BY DEF LInv, PB!Core, LiveTypes
  <2>2. IsFiniteSet(rows)
    BY <2>1 DEF PB!Table, PB!IsFiniteSet, IsFiniteSet
  <2>3. accepted \in Nat
    BY <2>1 DEF PB!TypeOK
  <2>4. PB!LatestId \in 0..accepted /\ \A r \in rows : r.id \in 1..PB!LatestId
    BY <2>1, PB!LatestIdFacts
  <2>5. \A r \in rows : r.id \in 1..accepted
    BY <2>3, <2>4
  <2> QED BY <2>1, <2>2, <2>3, <2>5
<1>2. \A T : Cardinality(T) = Cardinality(T)
  BY DEF Cardinality, Cardinality
<1>3. found = {r \in rows : r.id > cursor /\ Cardinality(between(r)) < StreamLimit}
  BY <1>2 DEF EventsSince
<1>4. /\ found # {} /\ cursor' = Max({r.id : r \in found})
      /\ streamed' = streamed \o [i \in 1..n |-> Ranked(found, i).ev.n]
  <2> DEFINE pick(i) == CHOOSE r \in found : Cardinality({s \in found : s.id < r.id}) = i - 1
  <2>1. /\ found # {} /\ cursor' = Max({r.id : r \in found})
        /\ streamed' = streamed \o [i \in 1..Cardinality(found) |-> pick(i).ev.n]
    BY DEF Poll
  <2>2. Cardinality(found) = n
    BY <1>2
  <2>3. \A i : pick(i) = Ranked(found, i)
    BY <1>2 DEF Ranked, Rank, Before
  <2> HIDE DEF pick
  <2>4. [i \in 1..n |-> pick(i).ev.n] = [i \in 1..n |-> Ranked(found, i).ev.n]
    BY <2>3
  <2> QED BY <2>1, <2>2, <2>4
<1>5. found \subseteq rows /\ IsFiniteSet(found) /\ \A r \in found : r.id > cursor /\ r.id \in 1..accepted
  <2>1. found \in SUBSET rows /\ \A r \in found : r.id > cursor
    BY <1>3
  <2> QED BY <1>1, <2>1, FS_Subset
<1>6. /\ n \in Nat
      /\ \A r \in found : \E i \in 1..n : Ranked(found, i) = r
      /\ \A i \in 1..n : Ranked(found, i) \in found
      /\ \A i, j \in 1..n : i < j => Ranked(found, i).id < Ranked(found, j).id
  <2>1. /\ \A r \in found : r.id \in Nat
        /\ \A r, s \in found : r.id = s.id => r = s
    BY <1>1, <1>5 DEF PB!Table
  <2> QED BY <1>5, <2>1, RanksAreComplete
<1>7. (\E r \in found : r.id = cursor') /\ \A r \in found : r.id <= cursor'
  <2> DEFINE ids == {r.id : r \in found}
  <2>1. ids \in SUBSET (1..accepted) /\ ids # {} /\ \A r \in found : r.id \in ids
    BY <1>4, <1>5
  <2>2. Max(ids) = PB!Max(ids)
    BY DEF Max, PB!Max
  <2>3. cursor' = PB!Max(ids)
    BY <1>4, <2>2
  <2>4. cursor' \in ids /\ \A x \in ids : x <= cursor'
    <3> HIDE DEF ids
    <3> QED BY <1>1, <2>1, <2>3, PB!MaxIsLargest
  <2> QED BY <2>1, <2>4
<1>8. cursor' \in Nat /\ cursor' >= cursor
  BY <1>1, <1>5, <1>7
<1>9. ASSUME NEW r \in rows, r.id > cursor, r.id <= cursor' PROVE r \in found
  <2>1. PICK top \in found : top.id = cursor'
    BY <1>7
  <2>2. between(r) \subseteq between(top) /\ between(top) \in SUBSET rows
    <3> SUFFICES ASSUME NEW s \in rows, s.id < r.id PROVE s.id < top.id
      OBVIOUS
    <3>1. s.id \in Nat /\ r.id \in Nat /\ top.id \in Nat /\ r.id <= top.id
      BY <1>1, <1>5, <1>9, <2>1
    <3> QED BY <3>1
  <2>3. Cardinality(between(top)) < StreamLimit
    BY <1>3
  <2> HIDE DEF between
  <2>4. IsFiniteSet(between(top)) /\ Cardinality(between(top)) \in Nat
    BY <1>1, <2>2, FS_Subset, FS_CardinalityType
  <2>5. Cardinality(between(r)) <= Cardinality(between(top)) /\ IsFiniteSet(between(r))
    BY <2>2, <2>4, FS_Subset
  <2>6. Cardinality(between(r)) \in Nat
    BY <2>5, FS_CardinalityType
  <2>7. Cardinality(between(r)) < StreamLimit
    BY <2>3, <2>4, <2>5, <2>6
  <2> QED BY <1>3, <1>9, <2>7
<1>10. \A r \in rows : r \in found \/ r.id <= cursor \/ r.id > cursor'
  BY <1>1, <1>8, <1>9
<1> QED
  BY <1>4, <1>5, <1>6, <1>7, <1>8, <1>10

LEMMA PollLInv == ASSUME LInv, Poll PROVE LInv'
<1> DEFINE found == EventsSince(cursor, StreamLimit)
           n == Cardinality(found)
           sent == [i \in 1..n |-> Ranked(found, i).ev.n]
           L == Len(streamed)
<1>1. /\ n \in Nat /\ found \subseteq rows
      /\ streamed' = streamed \o sent
      /\ cursor' \in Nat /\ cursor' >= cursor
      /\ \E r \in found : r.id = cursor'
      /\ \A r \in found : r.id <= cursor' /\ r.id > cursor
      /\ \A r \in rows : r \in found \/ r.id <= cursor \/ r.id > cursor'
      /\ \A r \in found : \E i \in 1..n : Ranked(found, i) = r
      /\ \A i \in 1..n : Ranked(found, i) \in found
      /\ \A i, j \in 1..n : i < j => Ranked(found, i).id < Ranked(found, j).id
  BY PollSends
<1>2. /\ viewer = "stream"
      /\ UNCHANGED <<rows, rollups, lastIngest, retention, batcherVars, sweeper, sweepNow, sweepDays,
                     inForce, viewer, joined, swept>>
  BY DEF Poll, tables, sweeperVars
<1> HIDE DEF found, n
<1>3. /\ \A r \in rows : r.id \in Nat /\ r.ev.n \in inserted /\ r.ev.n \in Nat
      /\ \A r, s \in rows : r.id < s.id => r.ev.n < s.ev.n
      /\ cursor \in Nat /\ streamed \in Seq(inserted) /\ retention \in RetentionDays
      /\ inserted \subseteq Nat
  <2>1. PB!TypeOK /\ PB!Table /\ cursor \in Nat /\ streamed \in Seq(inserted)
    BY DEF LInv, PB!Core, LiveTypes
  <2>2. \A r \in rows : r.id \in Nat /\ r.ev.n \in inserted /\ r.ev.n \in Nat
    BY <2>1 DEF PB!TypeOK, PB!StoreTypeOK, PB!Table, PB!Event
  <2>3. inserted \subseteq Nat /\ retention \in RetentionDays
    BY <2>1 DEF PB!TypeOK, PB!StoreTypeOK
  <2> QED BY <2>1, <2>2, <2>3 DEF PB!Table, PB!IdsFollowArrival
<1>4. sent \in Seq(inserted) /\ Len(sent) = n /\ \A i \in 1..n : sent[i] = Ranked(found, i).ev.n
  <2>1. \A i \in 1..n : Ranked(found, i).ev.n \in inserted
    BY <1>1, <1>3
  <2> QED BY <1>1, <2>1
<1>5. /\ L \in Nat /\ streamed' \in Seq(inserted) /\ Len(streamed') = L + n
      /\ \A i \in 1..L : streamed'[i] = streamed[i]
      /\ \A i \in 1..n : streamed'[L + i] = sent[i]
  <2> HIDE DEF sent
  <2>1. streamed \in Seq(inserted) /\ sent \in Seq(inserted) /\ Len(sent) = n /\ L \in Nat /\ n \in Nat
    BY <1>1, <1>3, <1>4
  <2>2. streamed \o sent \in Seq(inserted) /\ Len(streamed \o sent) = L + n
    BY <2>1
  <2>3. \A i \in 1..L : (streamed \o sent)[i] = streamed[i]
    BY <2>1
  <2>4. ASSUME NEW i \in 1..n PROVE (streamed \o sent)[L + i] = sent[i]
    BY <2>1
  <2> QED BY <1>1, <2>1, <2>2, <2>3, <2>4
<1>6. \A i \in 1..Len(streamed') : \/ i \in 1..L
                                   \/ \E k \in 1..n : i = L + k
  <2> SUFFICES ASSUME NEW i \in 1..Len(streamed'), i \notin 1..L PROVE \E k \in 1..n : i = L + k
    OBVIOUS
  <2>1. i - L \in 1..n /\ i = L + (i - L)
    BY <1>1, <1>5
  <2> QED BY <2>1
<1>7. /\ \A i \in 1..L, k \in 1..n : streamed[i] < sent[k]
      /\ \A j, k \in 1..n : j < k => sent[j] < sent[k]
      /\ \A i, j \in 1..L : i < j => streamed[i] < streamed[j]
  <2>1. \A i \in 1..L, k \in 1..n : streamed[i] < sent[k]
    BY <1>1, <1>4 DEF LInv, Following
  <2>2. \A j, k \in 1..n : j < k => sent[j] < sent[k]
    BY <1>1, <1>3, <1>4
  <2> QED BY <2>1, <2>2 DEF LInv, Following
<1> HIDE DEF sent, L
<1>8. ASSUME NEW i \in 1..Len(streamed'), NEW j \in 1..Len(streamed'), i < j
      PROVE  streamed'[i] < streamed'[j]
  <2>1. CASE i \in 1..L /\ j \in 1..L
    BY <1>5, <1>7, <1>8, <2>1
  <2>2. ASSUME i \in 1..L, NEW k \in 1..n, j = L + k PROVE streamed'[i] < streamed'[j]
    BY <1>5, <1>7, <2>2
  <2>3. ASSUME NEW k \in 1..n, i = L + k, NEW m \in 1..n, j = L + m PROVE streamed'[i] < streamed'[j]
    <3>1. k < m
      BY <1>1, <1>5, <1>8, <2>3
    <3> QED BY <1>5, <1>7, <2>3, <3>1
  <2>4. ASSUME NEW k \in 1..n, i = L + k PROVE j \notin 1..L
    BY <1>1, <1>5, <1>8, <2>4
  <2> QED BY <1>6, <2>1, <2>2, <2>3, <2>4
<1>9. ASSUME NEW r \in rows, r.id > cursor', NEW i \in 1..Len(streamed') PROVE streamed'[i] < r.ev.n
  <2>1. CASE i \in 1..L
    <3>1. r.id > cursor
      BY <1>1, <1>3, <1>9
    <3> QED BY <1>5, <2>1, <3>1 DEF LInv, Following, L
  <2>2. ASSUME NEW k \in 1..n, i = L + k PROVE streamed'[i] < r.ev.n
    <3>1. Ranked(found, k) \in rows /\ Ranked(found, k).id <= cursor'
      BY <1>1
    <3>2. Ranked(found, k).id < r.id
      <4>1. Ranked(found, k).id \in Nat /\ r.id \in Nat /\ cursor' \in Nat
        BY <1>1, <1>3, <3>1
      <4> QED BY <1>9, <3>1, <4>1
    <3>3. streamed'[i] = Ranked(found, k).ev.n
      BY <1>4, <1>5, <2>2
    <3> QED BY <1>3, <3>1, <3>2, <3>3
  <2> QED BY <1>6, <2>1, <2>2
<1>10. ASSUME ~swept, NEW r \in rows
       PROVE  \/ r.ev.n \in joined \/ r.id > cursor'
              \/ \E i \in 1..Len(streamed') : streamed'[i] = r.ev.n
  <2>1. CASE r \in found
    <3>1. PICK k \in 1..n : Ranked(found, k) = r
      BY <1>1, <2>1
    <3>2. L + k \in 1..Len(streamed')
      BY <1>1, <1>5
    <3>3. streamed'[L + k] = sent[k] /\ sent[k] = r.ev.n
      BY <1>4, <1>5, <3>1
    <3> QED BY <3>2, <3>3
  <2>2. CASE r.id <= cursor
    <3>1. ~(r.id > cursor)
      BY <1>3, <2>2
    <3>2. r.ev.n \in joined \/ \E i \in 1..L : streamed[i] = r.ev.n
      BY <1>2, <1>10, <3>1 DEF LInv, Following, L
    <3>3. \A i \in 1..L : i \in 1..Len(streamed')
      BY <1>1, <1>5
    <3> QED BY <1>5, <3>2, <3>3
  <2> QED BY <1>1, <2>1, <2>2
<1>11. \E r \in rows : r.id >= cursor'
  <2>1. PICK r \in found : r.id = cursor'
    BY <1>1
  <2> QED BY <1>1, <1>3, <2>1
<1>12. Following'
  BY <1>2, <1>8, <1>9, <1>10, <1>11 DEF Following
<1>13. PB!Core'
  BY <1>2, <1>3, SweptCore DEF LInv
<1>14. UNCHANGED <<now, inserted>>
  BY <1>2 DEF batcherVars
<1>15. LiveTypes' /\ Sweeping'
  BY <1>1, <1>2, <1>5, <1>14 DEF LInv, LiveTypes, Sweeping
<1> QED
  BY <1>12, <1>13, <1>15 DEF LInv

(* The other steps of a viewer, and none at all. *)
LEMMA ViewerLInv ==
  ASSUME LInv, LoadPage \/ OpenStream \/ Leave \/ UNCHANGED vars
  PROVE  LInv'
<1>1. UNCHANGED <<rows, rollups, lastIngest, retention, batcherVars, sweeper, sweepNow, sweepDays, inForce>>
  BY DEF LoadPage, OpenStream, Leave, vars, tables, sweeperVars
<1>2. retention \in RetentionDays /\ PB!TypeOK /\ PB!Table /\ swept \in BOOLEAN
  BY DEF LInv, LiveTypes, PB!Core, PB!TypeOK, PB!StoreTypeOK
<1>3. PB!Core'
  BY <1>1, <1>2, SweptCore DEF LInv
<1>4. UNCHANGED <<now, inserted>>
  BY <1>1 DEF batcherVars
<1>5. Sweeping'
  BY <1>1 DEF LInv, Sweeping
<1>6. CASE LoadPage
  <2>1. viewer = "away" /\ viewer' = "page" /\ UNCHANGED <<cursor, streamed, joined, swept>>
    BY <1>6 DEF LoadPage
  <2>2. LiveTypes'
    BY <1>1, <1>4, <2>1 DEF LInv, LiveTypes
  <2>3. Following'
    BY <1>1, <2>1 DEF LInv, Following
  <2> QED BY <1>3, <1>5, <2>2, <2>3 DEF LInv
<1>7. CASE OpenStream
  <2>1. /\ viewer = "page" /\ viewer' = "stream" /\ cursor' = PB!LatestId /\ joined' = inserted
        /\ UNCHANGED <<streamed, swept>>
    BY <1>7 DEF OpenStream, LatestId, PB!LatestId, Max, PB!Max
  <2>2. PB!LatestId \in Nat /\ (PB!LatestId = 0 \/ \E r \in rows : r.id >= PB!LatestId)
    <3>1. PB!LatestId \in 0..accepted /\ accepted \in Nat
      BY <1>2, PB!LatestIdFacts DEF PB!TypeOK
    <3>2. PB!LatestId = 0 \/ \E r \in rows : r.id = PB!LatestId
      BY <1>2, PB!LatestIdFacts
    <3> QED BY <3>1, <3>2
  <2>3. LiveTypes'
    BY <1>1, <1>4, <2>1, <2>2 DEF LInv, LiveTypes
  <2>4. streamed = <<>> /\ Len(streamed) = 0
    BY <2>1 DEF LInv, Following
  <2>5. \A r \in rows : r.ev.n \in inserted
    BY <1>2 DEF PB!Table
  <2>6. Following'
    BY <1>1, <2>1, <2>2, <2>4, <2>5 DEF Following
  <2> QED BY <1>3, <1>5, <2>3, <2>6 DEF LInv
<1>8. CASE Leave
  <2>1. ViewerGone
    BY <1>8 DEF Leave
  <2>2. Following' /\ joined' \subseteq inserted' /\ streamed' \in Seq(inserted')
    BY <2>1, StreamEnds
  <2>3. viewer' = "away" /\ cursor' = 0 /\ swept' \in BOOLEAN
    BY <2>1 DEF ViewerGone
  <2>4. LiveTypes'
    BY <1>1, <1>4, <2>2, <2>3 DEF LInv, LiveTypes
  <2> QED BY <1>3, <1>5, <2>2, <2>4 DEF LInv
<1>9. CASE UNCHANGED vars
  <2>1. UNCHANGED <<viewer, cursor, streamed, joined, swept>>
    BY <1>9 DEF vars, viewerVars
  <2>2. LiveTypes' /\ Following'
    BY <1>1, <1>4, <2>1 DEF LInv, LiveTypes, Following
  <2> QED BY <1>3, <1>5, <2>2 DEF LInv
<1> QED
  BY <1>6, <1>7, <1>8, <1>9

LEMMA StepLInv == LInv /\ [Next]_vars => LInv'
<1> SUFFICES ASSUME LInv, [Next]_vars PROVE LInv'
  OBVIOUS
<1>1. CASE Startup
  BY <1>1, LiveStepLInv DEF Startup, LiveStep
<1>2. CASE BatcherStep
  BY <1>2, LiveStepLInv DEF BatcherStep, LiveStep, sweeperVars
<1>3. CASE Shutdown
  BY <1>3, LiveStepLInv DEF Shutdown, LiveStep, sweeperVars
<1>4. CASE Sweep \/ \E days \in RetentionDays : SetRetention(days)
  BY <1>4, SweepLInv
<1>5. CASE Poll
  BY <1>5, PollLInv
<1>6. CASE LoadPage \/ OpenStream \/ Leave \/ Finished \/ UNCHANGED vars
  BY <1>6, ViewerLInv DEF Finished
<1> QED
  BY <1>1, <1>2, <1>3, <1>4, <1>5, <1>6 DEF Next

LEMMA LiveInvariant == Spec => []LInv
<1>1. Init => LInv
  BY InitLInv
<1>2. LInv /\ [Next]_vars => LInv'
  BY StepLInv
<1> QED
  BY <1>1, <1>2, PTL DEF Spec

(* Every variable of batcher, retention job and stream keeps its type; no   *)
(* stream has sent what was never written.                                  *)
THEOREM TypeCorrect == Spec => []TypeOK
<1>1. ASSUME LInv PROVE TypeOK
  <2>1. B!TypeOK
    <3>1. B!Times = PB!Times /\ B!Event = PB!Event /\ B!Never = PB!Never
      BY DEF B!Times, PB!Times, B!Event, PB!Event, B!Never, PB!Never
    <3> QED BY <1>1, <3>1 DEF LInv, PB!Core, PB!TypeOK, PB!StoreTypeOK, B!TypeOK, B!StoreTypeOK
  <2> QED BY <1>1, <2>1 DEF LInv, LiveTypes, TypeOK
<1> QED
  BY <1>1, LiveInvariant, PTL

(* The stream handle_logs_stream sends repeats nothing and keeps the order  *)
(* of arrival, and as long as the retention job deletes nothing under it,   *)
(* its cursor passes no event by, whatever the batcher writes between two   *)
(* polls and however large the backlog is.                                  *)
THEOREM StreamSkipsNothing == Spec => []StreamPassesNothing
<1>1. ASSUME LInv PROVE StreamPassesNothing
  <2>1. DOMAIN streamed = 1..Len(streamed)
    BY <1>1 DEF LInv, LiveTypes
  <2> QED BY <1>1, <2>1 DEF LInv, Following, StreamPassesNothing, Streamed
<1> QED
  BY <1>1, LiveInvariant, PTL

(* RetentionJob.sweep deletes only events that are older than a window that *)
(* was in force while it ran, however long its thread waits between reading *)
(* the clock, reading the setting and deleting.                             *)
THEOREM SweepsKeepTheWindow == Spec => RetentionRespected
<1>1. ASSUME LInv, [Next]_vars
      PROVE  [\A r \in rows \ rows' : \E d \in inForce : r.ev.at < now - d]_vars
  <2> SUFFICES ASSUME NEW r \in rows \ rows' PROVE \E d \in inForce : r.ev.at < now - d
    OBVIOUS
  <2>1. CASE SweepDelete
    <3>1. sweepDays \in inForce /\ inForce \subseteq RetentionDays /\ sweepNow \in 0..now
      BY <1>1, <2>1 DEF SweepDelete, LInv, Sweeping, LiveTypes
    <3>2. now \in Nat /\ r.ev.at \in Nat
      BY <1>1 DEF LInv, PB!Core, PB!TypeOK, PB!StoreTypeOK, PB!Event, PB!Times
    <3>3. ~(r.ev.at >= sweepNow - sweepDays)
      BY <2>1 DEF SweepDelete, WithoutOlder
    <3>4. r.ev.at < now - sweepDays
      BY <3>1, <3>2, <3>3
    <3> QED BY <3>1, <3>4
  <2>2. CASE LiveStep
    BY <1>1, <2>2, LiveStepRows DEF LInv
  <2>3. CASE rows' = rows
    BY <2>3
  <2>4. SweepDelete \/ LiveStep \/ rows' = rows
    BY <1>1 DEF Next, Startup, Shutdown, BatcherStep, LiveStep, Sweep, SweepBegin, SweepRead,
                SweepFails, SweeperStop, SetRetention, LoadPage, OpenStream, Poll, Leave,
                Finished, vars, tables
  <2> QED BY <2>1, <2>2, <2>3, <2>4
<1> QED
  BY <1>1, LiveInvariant, PTL DEF Spec, RetentionRespected
===============================================================================
