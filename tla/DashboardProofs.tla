---------------------------- MODULE DashboardProofs ----------------------------
(***************************************************************************)
(* What the console's pages show is right, for any kinds of events, any    *)
(* windows, limits and delays, and any number of events and instants.      *)
(*                                                                         *)
(* The invariant: a bucket's count is the number of events counted in it   *)
(* (CountsRight), for which a batch has to be new when it is inserted and  *)
(* without repetitions when it is counted (Numbered); the setting is one   *)
(* of the times the last flush brought, and at most Lead ahead of it       *)
(* (Heard); the cards of a page that is half read show no more than is     *)
(* counted by now (Shown).                                                 *)
(*                                                                         *)
(* The library has no induction an operator can be given to.  What is      *)
(* proved about all finite sets here takes the smallest subset that lacks  *)
(* the property (SmallestSubset) and refutes it: that there is a largest   *)
(* value, that a sum of counts counts, and that a sample can be sorted.    *)
(***************************************************************************)
EXTENDS Dashboard, FiniteSetTheorems, WellFoundedInduction, TLAPS

(* What is known of an event. *)
Event == [n : Nat, at : Int, kind : Kinds]

(* Every event of the tables, and of the batch, has been an event. *)
Typed ==
  /\ now \in Nat \ {0} /\ Start <= now
  /\ written \subseteq Event /\ IsFiniteSet(written)
  /\ rows \subseteq written
  /\ worker \in {"wait", "insert", "rollup", "setting"}
  /\ batch \in Seq(Event)
  /\ worker # "wait" => batch # <<>>

(* The events are numbered in the order they are written. *)
Numbered ==
  /\ \A e \in written : e.n <= Cardinality(written)
  /\ worker = "insert" => \A i \in 1..Len(batch) : batch[i].n = Cardinality(written) + i
  /\ worker = "rollup" =>
       /\ ToSet(batch) \subseteq written
       /\ \A i, j \in 1..Len(batch) : batch[i] = batch[j] => i = j

In(b) == {e \in Counted : BucketOf(e) = b}

(* A bucket's count is the number of events counted in it. *)
CountsRight ==
  /\ DOMAIN rollups = {BucketOf(e) : e \in Counted}
  /\ \A b \in DOMAIN rollups : rollups[b] = Cardinality(In(b))

(* The setting is a time the last flush brought, at most Lead ahead of it. *)
Heard ==
  /\ \A i \in 1..Len(batch) : batch[i].at # Never /\ batch[i].at <= now + Lead
  /\ lastIngest \in Int
  /\ lastIngest = Never => heard = {}
  /\ lastIngest # Never =>
       /\ lastIngest \in heard
       /\ flushedAt \in Nat \ {Never} /\ flushedAt <= now /\ lastIngest <= flushedAt + Lead

(* The verdicts v counted in a window *)
Shows(v, t, hours) == {e \in Counted : InWindow(BucketOf(e), t, hours) /\ BucketOf(e)[3] = v}

(* The cards of a page show no more than what is counted by now. *)
Shown ==
  /\ page.stage \in {"cards", "chart"} => page.at \in Nat /\ page.hours \in Windows
  /\ page.stage = "chart" =>
       \A v \in {"accepted", "rejected"} :
         /\ page.cards[v] \in Nat
         /\ page.cards[v] <= Cardinality(Shows(v, page.at, page.hours))

IInv == Typed /\ Numbered /\ CountsRight /\ Heard /\ Shown

-----------------------------------------------------------------------------
(* Finite sets *)

(* A non-empty set of naturals has a least element. *)
LEMMA LeastNatural ==
  ASSUME NEW gaps \in SUBSET Nat, gaps # {}
  PROVE  \E least \in gaps : \A k \in gaps : least <= k
<1>. DEFINE less == {ss \in Nat \X Nat : ss[1] < ss[2]}
<1>1. IsWellFoundedOn({ss \in Nat \X Nat : ss[1] < ss[2]}, Nat)
      BY NatLessThanWellFounded DEF OpToRel
<1>2. PICK least \in gaps : \A k \in gaps : ~(<<k, least>> \in less)
  <2>. HIDE DEF less
  <2>. QED  BY <1>1, WFMin DEF less
<1>3. ASSUME NEW k \in gaps PROVE least <= k
  <2>1. least \in Nat /\ k \in Nat /\ ~(<<k, least>> \in less)  BY <1>2
  <2>2. <<k, least>> \in Nat \X Nat /\ <<k, least>>[1] = k /\ <<k, least>>[2] = least  BY <2>1
  <2>3. ~(k < least)  BY <2>1, <2>2
  <2>. QED  BY <2>1, <2>3
<1>. QED  BY <1>2, <1>3

(* If some finite subset of S lacks a property, there is a smallest one:    *)
(* it lacks it, and whatever element is taken from it, the rest has it.     *)
LEMMA SmallestSubset ==
  ASSUME NEW S, IsFiniteSet(S), NEW bad \in SUBSET (SUBSET S), bad # {}
  PROVE  \E T \in bad : IsFiniteSet(T) /\ \A x \in T : T \ {x} \notin bad
<1>. DEFINE sizes == {n \in Nat : \E T \in bad : Cardinality(T) = n}
<1>1. ASSUME NEW T \in bad PROVE IsFiniteSet(T) /\ Cardinality(T) \in sizes
  <2>1. IsFiniteSet(T)  BY <1>1, FS_Subset
  <2>2. Cardinality(T) \in Nat  BY <2>1, FS_CardinalityType
  <2>. QED  BY <1>1, <2>1, <2>2
<1>2. sizes \in SUBSET Nat /\ sizes # {}  BY <1>1
<1>3. PICK least \in sizes : \A k \in sizes : least <= k
  <2>. HIDE DEF sizes
  <2>. QED  BY <1>2, LeastNatural
<1>4. PICK T \in bad : Cardinality(T) = least  OBVIOUS
<1>5. ASSUME NEW x \in T, T \ {x} \in bad PROVE FALSE
  <2>1. IsFiniteSet(T) /\ Cardinality(T) \in Nat  BY <1>1, <1>4
  <2>2. Cardinality(T \ {x}) = Cardinality(T) - 1  BY <1>5, <2>1, FS_RemoveElement
  <2>3. Cardinality(T \ {x}) \in sizes  BY <1>1, <1>5
  <2>. HIDE DEF sizes
  <2>. QED  BY <1>3, <1>4, <2>1, <2>2, <2>3
<1>. QED  BY <1>1, <1>4, <1>5

(* In a finite set that is not empty, something has the largest value. *)
LEMMA LargestExists ==
  ASSUME NEW S, IsFiniteSet(S), S # {}, NEW w, \A x \in S : w[x] \in Int
  PROVE  \E x \in S : \A y \in S : w[y] <= w[x]
<1>. DEFINE Has(T) == \E x \in T : \A y \in T : w[y] <= w[x]
            bad == {T \in SUBSET S : T # {} /\ ~Has(T)}
<1>1. ASSUME bad # {} PROVE FALSE
  <2>1. PICK T \in bad : IsFiniteSet(T) /\ \A x \in T : T \ {x} \notin bad
    <3>1. bad \in SUBSET (SUBSET S)  OBVIOUS
    <3>. HIDE DEF bad
    <3>. QED  BY <1>1, <3>1, SmallestSubset
  <2>2. PICK x \in T : TRUE  OBVIOUS
  <2>3. CASE T \ {x} = {}
    <3>1. \A y \in T : y = x  BY <2>3
    <3>2. w[x] \in Int  OBVIOUS
    <3>. QED  BY <2>2, <3>1, <3>2
  <2>4. CASE T \ {x} # {}
    <3>1. T \ {x} \in SUBSET S /\ T \ {x} \notin bad  BY <2>1, <2>2
    <3>2. PICK z \in T \ {x} : \A y \in T \ {x} : w[y] <= w[z]  BY <2>4, <3>1
    <3>3. w[x] \in Int /\ w[z] \in Int /\ z \in T  OBVIOUS
    <3>4. CASE w[x] <= w[z]
      <4>1. \A y \in T : w[y] <= w[z]  BY <3>2, <3>4
      <4>. QED  BY <3>3, <4>1
    <3>5. CASE ~(w[x] <= w[z])
      <4>1. ASSUME NEW y \in T PROVE w[y] <= w[x]
        <5>1. w[y] \in Int  OBVIOUS
        <5>2. y = x \/ w[y] <= w[z]  BY <3>2
        <5>. QED  BY <3>3, <3>5, <5>1, <5>2
      <4>. QED  BY <4>1
    <3>. QED  BY <3>4, <3>5
  <2>. QED  BY <2>3, <2>4
<1>2. S \notin bad  BY <1>1
<1>. QED  BY <1>2

-----------------------------------------------------------------------------
(* Sums of counts *)

AnyOf(s) == CHOOSE x \in s : TRUE

(* it is the function that MapThenSumSet iterates to add up g over S. *)
Sums(it, g, S) ==
  it = [s \in SUBSET S |-> IF s = {} THEN 0 ELSE g[AnyOf(s)] + it[s \ {AnyOf(s)}]]

(* The elements of C that k maps into s. *)
Into(C, k, s) == {e \in C : k[e] \in s}

(* g[x] counts the elements of C with key x. *)
CountsOf(g, C, k, S) == \A x \in S : g[x] = Cardinality(Into(C, k, {x}))

(* Counting with one key more. *)
LEMMA IntoSplits ==
  ASSUME NEW C, IsFiniteSet(C), NEW k, NEW s, NEW x \in s
  PROVE  Cardinality(Into(C, k, s))
           = Cardinality(Into(C, k, {x})) + Cardinality(Into(C, k, s \ {x}))
<1>. DEFINE one == Into(C, k, {x})
            rest == Into(C, k, s \ {x})
<1>1. Into(C, k, s) = one \union rest /\ one \intersect rest = {}  BY DEF Into
<1>2. one \in SUBSET C /\ rest \in SUBSET C  BY DEF Into
<1>. HIDE DEF one, rest
<1>3. IsFiniteSet(one) /\ IsFiniteSet(rest)  BY <1>2, FS_Subset
<1>4. Cardinality(one) \in Nat /\ Cardinality(rest) \in Nat  BY <1>3, FS_CardinalityType
<1>5. Cardinality(one \union rest) = Cardinality(one) + Cardinality(rest) - Cardinality({})
      BY <1>1, <1>3, FS_Union
<1>6. Cardinality({}) = 0  BY FS_EmptySet
<1>. QED  BY <1>1, <1>4, <1>5, <1>6 DEF one, rest

LEMMA IntoFinite ==
  ASSUME NEW C, IsFiniteSet(C), NEW k, NEW s
  PROVE  IsFiniteSet(Into(C, k, s)) /\ Cardinality(Into(C, k, s)) \in Nat
<1>1. Into(C, k, s) \in SUBSET C  BY DEF Into
<1>2. IsFiniteSet(Into(C, k, s))  BY <1>1, FS_Subset
<1>. QED  BY <1>2, FS_CardinalityType

(* Adding up the counts of some keys counts what has any of these keys.     *)
LEMMA SumCounts ==
  ASSUME NEW C, IsFiniteSet(C), NEW k, NEW S, IsFiniteSet(S), NEW g, CountsOf(g, C, k, S),
         NEW it, Sums(it, g, S)
  PROVE  it[S] = Cardinality(Into(C, k, S))
<1>. DEFINE bad == {T \in SUBSET S : it[T] # Cardinality(Into(C, k, T))}
<1>1. ASSUME bad # {} PROVE FALSE
  <2>1. PICK T \in bad : IsFiniteSet(T) /\ \A x \in T : T \ {x} \notin bad
    <3>1. bad \in SUBSET (SUBSET S)  OBVIOUS
    <3>. HIDE DEF bad
    <3>. QED  BY <1>1, <3>1, SmallestSubset
  <2>2. T \in SUBSET S /\ it[T] # Cardinality(Into(C, k, T))  OBVIOUS
  <2>3. CASE T = {}
    <3>1. it[T] = 0  BY <2>2, <2>3 DEF Sums
    <3>2. Into(C, k, T) = {}  BY <2>3 DEF Into
    <3>. QED  BY <2>2, <3>1, <3>2, FS_EmptySet
  <2>4. CASE T # {}
    <3>. DEFINE x == AnyOf(T)
    <3>1. x \in T  BY <2>4 DEF AnyOf
    <3>2. it[T] = g[x] + it[T \ {x}]  BY <2>2, <2>4 DEF Sums
    <3>. HIDE DEF x
    <3>3. T \ {x} \in SUBSET S  BY <2>2
    <3>4. it[T \ {x}] = Cardinality(Into(C, k, T \ {x}))  BY <2>1, <3>1, <3>3
    <3>5. g[x] = Cardinality(Into(C, k, {x}))  BY <2>2, <3>1 DEF CountsOf
    <3>6. it[T] = Cardinality(Into(C, k, T))  BY <3>1, <3>2, <3>4, <3>5, IntoSplits
    <3>. QED  BY <2>2, <3>6
  <2>. QED  BY <2>3, <2>4
<1>. QED  BY <1>1

(* Such a function exists: it counts. *)
LEMMA SumExists ==
  ASSUME NEW C, IsFiniteSet(C), NEW k, NEW S, IsFiniteSet(S), NEW g, CountsOf(g, C, k, S)
  PROVE  \E it : Sums(it, g, S)
<1>. DEFINE it == [s \in SUBSET S |-> Cardinality(Into(C, k, s))]
<1>1. ASSUME NEW s \in SUBSET S
      PROVE  it[s] = IF s = {} THEN 0 ELSE g[AnyOf(s)] + it[s \ {AnyOf(s)}]
  <2>1. CASE s = {}
    <3>1. Into(C, k, s) = {}  BY <2>1 DEF Into
    <3>. QED  BY <2>1, <3>1, FS_EmptySet
  <2>2. CASE s # {}
    <3>. DEFINE x == AnyOf(s)
    <3>1. x \in s  BY <2>2 DEF AnyOf
    <3>. HIDE DEF x
    <3>2. s \ {x} \in SUBSET S  OBVIOUS
    <3>3. it[s] = Cardinality(Into(C, k, s)) /\ it[s \ {x}] = Cardinality(Into(C, k, s \ {x}))
          BY <3>2
    <3>4. g[x] = Cardinality(Into(C, k, {x}))  BY <3>1 DEF CountsOf
    <3>. HIDE DEF it
    <3>5. it[s] = g[x] + it[s \ {x}]  BY <3>1, <3>3, <3>4, IntoSplits
    <3>. QED  BY <2>2, <3>5 DEF x
  <2>. QED  BY <2>1, <2>2
<1>2. it = [s \in SUBSET S |-> it[s]]  OBVIOUS
<1>. HIDE DEF it
<1>3. [s \in SUBSET S |-> it[s]]
        = [s \in SUBSET S |-> IF s = {} THEN 0 ELSE g[AnyOf(s)] + it[s \ {AnyOf(s)}]]
      BY <1>1
<1>4. Sums(it, g, S)  BY <1>2, <1>3 DEF Sums
<1>. QED  BY <1>4

-----------------------------------------------------------------------------
(* The invariant *)

(* No event is further ahead of the clock than Lead. *)
LEMMA LeadFacts ==
  /\ Lead \in Nat
  /\ \A d \in Delays : -d <= Lead
<1>. DEFINE leads == {0} \union {-d : d \in Delays}
            w == [x \in leads |-> x]
            neg == [d \in Delays |-> -d]
<1>1. leads \subseteq Int /\ 0 \in leads  BY DashboardAssumption
<1>2. IsFiniteSet(leads)
  <2>1. neg \in Surjection(Delays, {-d : d \in Delays})  BY DEF Surjection
  <2>2. IsFiniteSet(Delays)  BY DashboardAssumption
  <2>3. IsFiniteSet({-d : d \in Delays})
    <3>. HIDE DEF neg
    <3>. QED  BY <2>1, <2>2, FS_Surjection
  <2>. QED  BY <2>3, FS_Union, FS_Singleton
<1>3. \A x \in leads : w[x] = x  OBVIOUS
<1>. HIDE DEF leads, w
<1>4. \A x \in leads : w[x] \in Int  BY <1>1, <1>3
<1>5. PICK top \in leads : \A y \in leads : w[y] <= w[top]
      BY <1>1, <1>2, <1>4, LargestExists
<1>6. top \in leads /\ \A y \in leads : y <= top  BY <1>3, <1>5
<1>7. Lead \in leads /\ \A y \in leads : y <= Lead
  <2>1. Lead = CHOOSE x \in leads : \A y \in leads : x >= y  BY DEF Lead, Max, leads
  <2>2. \A y \in leads : top >= y  BY <1>1, <1>6
  <2>3. Lead \in leads /\ \A y \in leads : Lead >= y  BY <1>6, <2>1, <2>2
  <2>. QED  BY <1>1, <2>3
<1>8. Lead \in Nat  BY <1>1, <1>7
<1>9. \A d \in Delays : -d \in leads  BY DEF leads
<1>. QED  BY <1>7, <1>8, <1>9

(* There are n numbers from 1 to n. *)
LEMMA UpTo ==
  ASSUME NEW n \in Nat
  PROVE  IsFiniteSet(1..n) /\ Cardinality(1..n) = n
<1>1. IsFiniteSet(1..n) /\ Cardinality(1..n) = IF 1 > n THEN 0 ELSE n - 1 + 1  BY FS_Interval
<1>. QED  BY <1>1

(* What is counted is finite. *)
LEMMA CountedFinite ==
  ASSUME Typed
  PROVE  IsFiniteSet(Counted) /\ Counted \subseteq Event
<1>1. Counted \in SUBSET written  BY DEF Counted
<1>2. IsFiniteSet(Counted)  BY <1>1, FS_Subset DEF Typed
<1>. QED  BY <1>1, <1>2 DEF Typed

(* The events of a batch without repetitions are as many as it is long.     *)
LEMMA BatchSet ==
  ASSUME NEW b \in Seq(Event)
  PROVE  /\ IsFiniteSet(ToSet(b))
         /\ \A i \in 1..Len(b) : b[i] \in ToSet(b)
         /\ \A e \in ToSet(b) : \E i \in 1..Len(b) : e = b[i]
         /\ (\A i, j \in 1..Len(b) : b[i] = b[j] => i = j) => Cardinality(ToSet(b)) = Len(b)
<1>1. b \in Surjection(1..Len(b), ToSet(b))  BY DEF ToSet, Surjection
<1>2. Len(b) \in Nat  OBVIOUS
<1>3. IsFiniteSet(1..Len(b)) /\ Cardinality(1..Len(b)) = Len(b)  BY <1>2, UpTo
<1>4. IsFiniteSet(ToSet(b))
      /\ (Cardinality(ToSet(b)) = Len(b) <=> b \in Injection(1..Len(b), ToSet(b)))
      BY <1>1, <1>3, FS_Surjection
<1>5. (\A i, j \in 1..Len(b) : b[i] = b[j] => i = j) => b \in Injection(1..Len(b), ToSet(b))
      BY <1>1 DEF Injection, Surjection, IsInjective
<1>6. /\ \A i \in 1..Len(b) : b[i] \in ToSet(b)
      /\ \A e \in ToSet(b) : \E i \in 1..Len(b) : e = b[i]
      BY DEF ToSet
<1>. QED  BY <1>4, <1>5, <1>6

(* The batch that is about to be inserted is new. *)
LEMMA BatchIsNew ==
  ASSUME Typed, Numbered, worker = "insert"
  PROVE  /\ \A e \in ToSet(batch) : e \notin written
         /\ \A i, j \in 1..Len(batch) : batch[i] = batch[j] => i = j
<1>1. Cardinality(written) \in Nat  BY FS_CardinalityType DEF Typed
<1>2. \A i \in 1..Len(batch) : batch[i].n = Cardinality(written) + i  BY DEF Numbered
<1>3. ASSUME NEW i \in 1..Len(batch) PROVE batch[i] \notin written
  <2>1. ~(batch[i].n <= Cardinality(written))  BY <1>1, <1>2
  <2>. QED  BY <2>1 DEF Numbered
<1>4. ASSUME NEW i \in 1..Len(batch), NEW j \in 1..Len(batch), batch[i] = batch[j] PROVE i = j
  <2>1. Cardinality(written) + i = Cardinality(written) + j  BY <1>2, <1>4
  <2>. QED  BY <1>1, <2>1
<1>5. \A e \in ToSet(batch) : \E i \in 1..Len(batch) : e = batch[i]  BY BatchSet DEF Typed
<1>. QED  BY <1>3, <1>4, <1>5

(* Inserting a batch counts nothing: its rows are counted by the rollups.   *)
LEMMA InsertKeeps ==
  ASSUME IInv, Insert
  PROVE  Typed' /\ Numbered' /\ Counted' = Counted
<1>. DEFINE b == ToSet(batch)
<1>1. batch \in Seq(Event) /\ IsFiniteSet(written)  BY DEF IInv, Typed
<1>2. IsFiniteSet(b) /\ b \subseteq Event
  <2>1. IsFiniteSet(b)  BY <1>1, BatchSet
  <2>2. \A e \in b : \E i \in 1..Len(batch) : e = batch[i]  BY <1>1, BatchSet
  <2>3. \A i \in 1..Len(batch) : batch[i] \in Event  BY <1>1
  <2>. QED  BY <2>1, <2>2, <2>3
<1>3. /\ \A e \in b : e \notin written
      /\ \A i, j \in 1..Len(batch) : batch[i] = batch[j] => i = j
      BY BatchIsNew DEF IInv, Insert
<1>4. Cardinality(b) = Len(batch)  BY <1>1, <1>3, BatchSet
<1>5. /\ written' = written \union b /\ rows' = rows \union b /\ worker' = "rollup"
      /\ batch' = batch /\ now' = now /\ worker = "insert"
      BY DEF Insert
<1>6. \A i \in 1..Len(batch) : batch[i].n = Cardinality(written) + i  BY <1>5 DEF IInv, Numbered
<1>7. \A e \in b : \E i \in 1..Len(batch) : e = batch[i]  BY <1>1, BatchSet
<1>8. Len(batch) \in Nat /\ Cardinality(written) \in Nat  BY <1>1, FS_CardinalityType
<1>. HIDE DEF b
<1>9. IsFiniteSet(written \union b)
      /\ Cardinality(written \union b) = Cardinality(written) + Len(batch)
  <2>1. written \intersect b = {}  BY <1>3
  <2>2. IsFiniteSet(written \union b)
        /\ Cardinality(written \union b) = Cardinality(written) + Cardinality(b) - Cardinality({})
        BY <1>1, <1>2, <2>1, FS_Union
  <2>3. Cardinality({}) = 0  BY FS_EmptySet
  <2>. QED  BY <1>4, <1>8, <2>2, <2>3
<1>10. Typed'
  <2>1. written' \subseteq Event /\ rows' \subseteq written'  BY <1>2, <1>5 DEF IInv, Typed
  <2>. QED  BY <1>5, <1>9, <2>1 DEF IInv, Typed
<1>11. Numbered'
  <2>1. ASSUME NEW e \in written' PROVE e.n <= Cardinality(written')
    <3>1. CASE e \in written
      <4>1. e.n \in Nat /\ e.n <= Cardinality(written)  BY <3>1 DEF IInv, Typed, Numbered, Event
      <4>. QED  BY <1>5, <1>8, <1>9, <4>1
    <3>2. CASE e \in b
      <4>1. PICK i \in 1..Len(batch) : e = batch[i]  BY <1>7, <3>2 DEF b
      <4>2. e.n = Cardinality(written) + i  BY <1>6, <4>1
      <4>. QED  BY <1>5, <1>8, <1>9, <4>2
    <3>. QED  BY <1>5, <3>1, <3>2
  <2>2. ToSet(batch') \subseteq written'  BY <1>5 DEF b
  <2>. QED  BY <1>3, <1>5, <2>1, <2>2 DEF Numbered
<1>12. Counted' = Counted
  <2>1. Counted' = (written \union b) \ b  BY <1>5 DEF Counted, b
  <2>2. Counted = written  BY <1>5 DEF Counted
  <2>. QED  BY <1>3, <2>1, <2>2
<1>. QED  BY <1>10, <1>11, <1>12

(* rollup_deltas counts the batch's events by bucket. *)
LEMMA DeltaCounts ==
  ASSUME batch \in Seq(Event), \A i, j \in 1..Len(batch) : batch[i] = batch[j] => i = j, NEW b
  PROVE  CountIn(RollupDeltas, b) = Cardinality({e \in ToSet(batch) : BucketOf(e) = b})
<1>. DEFINE I == {i \in DOMAIN batch : BucketOf(batch[i]) = b}
            E == {e \in ToSet(batch) : BucketOf(e) = b}
            f == [i \in I |-> batch[i]]
<1>1. DOMAIN batch = 1..Len(batch) /\ Len(batch) \in Nat  OBVIOUS
<1>2. I \in SUBSET (1..Len(batch))  BY <1>1
<1>3. IsFiniteSet(I)
  <2>1. IsFiniteSet(1..Len(batch))  BY <1>1, UpTo
  <2>. HIDE DEF I
  <2>. QED  BY <1>2, <2>1, FS_Subset
<1>4. \A e \in ToSet(batch) : \E i \in 1..Len(batch) : e = batch[i]  BY BatchSet
<1>5. \A i \in 1..Len(batch) : batch[i] \in ToSet(batch)  BY BatchSet
<1>6. f \in [I -> E]  BY <1>1, <1>5
<1>7. \A e \in E : \E i \in I : f[i] = e
  <2>. SUFFICES ASSUME NEW e \in E PROVE \E i \in I : f[i] = e  OBVIOUS
  <2>1. PICK i \in 1..Len(batch) : e = batch[i]  BY <1>4
  <2>2. i \in I  BY <1>1, <2>1
  <2>. QED  BY <2>1, <2>2
<1>8. \A i, j \in I : f[i] = f[j] => i = j  BY <1>2
<1>9. CASE b \in DOMAIN RollupDeltas
  <2>1. CountIn(RollupDeltas, b) = Cardinality(I)  BY <1>9 DEF CountIn, RollupDeltas
  <2>. HIDE DEF I, E, f
  <2>2. f \in Bijection(I, E)
        BY <1>6, <1>7, <1>8 DEF Bijection, Injection, Surjection, IsInjective
  <2>3. ExistsBijection(I, E)  BY <2>2 DEF ExistsBijection
  <2>4. Cardinality(E) = Cardinality(I)  BY <1>3, <2>3, FS_Bijection
  <2>. QED  BY <2>1, <2>4 DEF E
<1>10. CASE b \notin DOMAIN RollupDeltas
  <2>1. CountIn(RollupDeltas, b) = 0  BY <1>10 DEF CountIn
  <2>2. \A i \in DOMAIN batch : BucketOf(batch[i]) # b  BY <1>10 DEF RollupDeltas
  <2>3. E = {}  BY <1>1, <1>4, <2>2
  <2>. QED  BY <2>1, <2>3, FS_EmptySet
<1>. QED  BY <1>9, <1>10

(* Once the rollups are written, the batch is counted with the rest. *)
LEMMA RollupKeeps ==
  ASSUME IInv, Rollup
  PROVE  CountsRight' /\ Counted \subseteq Counted'
<1>1. batch \in Seq(Event) /\ IsFiniteSet(written)  BY DEF IInv, Typed
<1>2. /\ ToSet(batch) \subseteq written
      /\ \A i, j \in 1..Len(batch) : batch[i] = batch[j] => i = j
      BY DEF IInv, Numbered, Rollup
<1>3. Counted = written \ ToSet(batch)  BY DEF Counted, Rollup
<1>4. Counted' = written  BY DEF Counted, Rollup
<1>5. rollups' = WithRollups  BY DEF Rollup
<1>6. DOMAIN rollups' = Buckets /\ \A b \in Buckets :
        rollups'[b] = CountIn(rollups, b) + CountIn(RollupDeltas, b)
      BY <1>5 DEF WithRollups
<1>7. DOMAIN rollups = {BucketOf(e) : e \in Counted}  BY DEF IInv, CountsRight
<1>8. DOMAIN RollupDeltas = {BucketOf(e) : e \in ToSet(batch)}
  <2>1. DOMAIN RollupDeltas = {BucketOf(batch[i]) : i \in DOMAIN batch}  BY DEF RollupDeltas
  <2>2. \A i \in DOMAIN batch : batch[i] \in ToSet(batch)  BY <1>1, BatchSet
  <2>3. \A e \in ToSet(batch) : \E i \in DOMAIN batch : e = batch[i]  BY <1>1, BatchSet
  <2>. QED  BY <2>1, <2>2, <2>3
<1>9. DOMAIN rollups' = {BucketOf(e) : e \in Counted'}
  <2>1. Counted' = Counted \union ToSet(batch)  BY <1>2, <1>3, <1>4
  <2>. QED  BY <1>6, <1>7, <1>8, <2>1 DEF Buckets
<1>10. ASSUME NEW b PROVE CountIn(rollups, b) + CountIn(RollupDeltas, b) = Cardinality(In(b)')
  <2>. DEFINE new == {e \in ToSet(batch) : BucketOf(e) = b}
  <2>1. CountIn(RollupDeltas, b) = Cardinality(new)  BY <1>1, <1>2, DeltaCounts
  <2>2. CountIn(rollups, b) = Cardinality(In(b))
    <3>1. CASE b \in DOMAIN rollups  BY <3>1 DEF CountIn, IInv, CountsRight
    <3>2. CASE b \notin DOMAIN rollups
      <4>1. In(b) = {}  BY <1>7, <3>2 DEF In
      <4>. QED  BY <3>2, <4>1, FS_EmptySet DEF CountIn
    <3>. QED  BY <3>1, <3>2
  <2>3. In(b)' = In(b) \union new /\ In(b) \intersect new = {}
    <3>1. In(b)' = {e \in written : BucketOf(e) = b}  BY <1>4 DEF In
    <3>2. In(b) = {e \in written \ ToSet(batch) : BucketOf(e) = b}  BY <1>3 DEF In
    <3>. QED  BY <1>2, <3>1, <3>2
  <2>4. In(b) \in SUBSET written /\ new \in SUBSET written  BY <1>2, <1>3 DEF In
  <2>. HIDE DEF new
  <2>5. IsFiniteSet(In(b)) /\ IsFiniteSet(new)  BY <1>1, <2>4, FS_Subset
  <2>6. Cardinality(In(b)) \in Nat /\ Cardinality(new) \in Nat  BY <2>5, FS_CardinalityType
  <2>7. Cardinality(In(b) \union new) = Cardinality(In(b)) + Cardinality(new) - Cardinality({})
        BY <2>3, <2>5, FS_Union
  <2>8. Cardinality({}) = 0  BY FS_EmptySet
  <2>. QED  BY <2>1, <2>2, <2>3, <2>6, <2>7, <2>8
<1>11. \A b \in DOMAIN rollups' : rollups'[b] = Cardinality(In(b)')  BY <1>6, <1>10
<1>. QED  BY <1>3, <1>4, <1>9, <1>11 DEF CountsRight

(* Whatever the counts gain, a page's cards show no more. *)
LEMMA CardsKept ==
  ASSUME Shown, UNCHANGED page, Counted \subseteq Counted', IsFiniteSet(Counted')
  PROVE  Shown'
<1>. SUFFICES ASSUME page.stage = "chart", NEW v \in {"accepted", "rejected"}
              PROVE  page.cards[v] <= Cardinality(Shows(v, page.at, page.hours)')
     BY DEF Shown
<1>. DEFINE X == Shows(v, page.at, page.hours)
<1>1. X' \in SUBSET Counted' /\ X \in SUBSET X'
  <2>1. X' = {e \in Counted' : InWindow(BucketOf(e), page.at, page.hours) /\ BucketOf(e)[3] = v}
        BY DEF Shows
  <2>2. X = {e \in Counted : InWindow(BucketOf(e), page.at, page.hours) /\ BucketOf(e)[3] = v}
        BY DEF Shows
  <2>. QED  BY <2>1, <2>2
<1>2. page.cards[v] \in Nat /\ page.cards[v] <= Cardinality(X)  BY DEF Shown
<1>. HIDE DEF X
<1>3. IsFiniteSet(X')  BY <1>1, FS_Subset
<1>4. IsFiniteSet(X) /\ Cardinality(X) <= Cardinality(X')  BY <1>1, <1>3, FS_Subset
<1>5. Cardinality(X) \in Nat /\ Cardinality(X') \in Nat  BY <1>3, <1>4, FS_CardinalityType
<1>6. page.cards[v] <= Cardinality(X')  BY <1>2, <1>4, <1>5
<1>. QED  BY <1>6 DEF X

(* A sum over buckets is the number of events counted in any of them. *)
LEMMA TotalCounts ==
  ASSUME Typed, CountsRight, NEW bs \in SUBSET (DOMAIN rollups)
  PROVE  Total(bs) = Cardinality({e \in Counted : BucketOf(e) \in bs})
<1>. DEFINE k == [e \in Counted |-> BucketOf(e)]
            it == CHOOSE it : Sums(it, rollups, bs)
<1>1. IsFiniteSet(Counted)  BY CountedFinite
<1>2. IsFiniteSet(bs)
  <2>1. k \in Surjection(Counted, DOMAIN rollups)  BY DEF CountsRight, Surjection
  <2>2. IsFiniteSet(DOMAIN rollups)
    <3>. HIDE DEF k
    <3>. QED  BY <1>1, <2>1, FS_Surjection
  <2>. QED  BY <2>2, FS_Subset
<1>3. \A s : Into(Counted, k, s) = {e \in Counted : BucketOf(e) \in s}  BY DEF Into
<1>4. CountsOf(rollups, Counted, k, bs)
  <2>. SUFFICES ASSUME NEW x \in bs PROVE rollups[x] = Cardinality(Into(Counted, k, {x}))
       BY DEF CountsOf
  <2>1. rollups[x] = Cardinality(In(x))  BY DEF CountsRight
  <2>2. Into(Counted, k, {x}) = In(x)  BY <1>3 DEF In
  <2>. QED  BY <2>1, <2>2
<1>5. Total(bs) = it[bs]
      BY DEF Total, MapThenSumSet, MapThenFoldSet, Sums, AnyOf
<1>. HIDE DEF k
<1>6. Sums(it, rollups, bs)  BY <1>1, <1>2, <1>4, SumExists
<1>. HIDE DEF it
<1>7. it[bs] = Cardinality(Into(Counted, k, bs))  BY <1>1, <1>2, <1>4, <1>6, SumCounts
<1>. QED  BY <1>3, <1>5, <1>7

(* Every count a page shows is one of these sums. *)
LEMMA SplitCounts ==
  ASSUME Typed, CountsRight, NEW bs \in SUBSET (DOMAIN rollups),
         NEW v \in {"accepted", "rejected"}
  PROVE  Split(bs)[v] = Cardinality({e \in Counted : BucketOf(e) \in bs /\ BucketOf(e)[3] = v})
<1>. DEFINE part == {b \in bs : b[3] = v}
<1>1. Split(bs)[v] = Total(part)
  <2>1. CASE v = "accepted"  BY <2>1 DEF Split
  <2>2. CASE v = "rejected"  BY <2>2 DEF Split
  <2>. QED  BY <2>1, <2>2
<1>2. part \in SUBSET (DOMAIN rollups)  OBVIOUS
<1>3. {e \in Counted : BucketOf(e) \in part}
        = {e \in Counted : BucketOf(e) \in bs /\ BucketOf(e)[3] = v}
      OBVIOUS
<1>. HIDE DEF part
<1>. QED  BY <1>1, <1>2, <1>3, TotalCounts

(* The events of a window have their buckets in it. *)
LEMMA WindowCounts ==
  ASSUME Typed, CountsRight, NEW t, NEW hours, NEW v \in {"accepted", "rejected"}
  PROVE  SummaryWindow(t, hours)[v] = Cardinality(Shows(v, t, hours))
<1>. DEFINE bs == {b \in DOMAIN rollups : InWindow(b, t, hours)}
<1>1. bs \in SUBSET (DOMAIN rollups)  OBVIOUS
<1>2. \A e \in Counted : BucketOf(e) \in bs <=> InWindow(BucketOf(e), t, hours)
      BY DEF CountsRight
<1>3. Shows(v, t, hours) = {e \in Counted : BucketOf(e) \in bs /\ BucketOf(e)[3] = v}
      BY <1>2 DEF Shows
<1>4. SummaryWindow(t, hours) = Split(bs)  BY DEF SummaryWindow
<1>. HIDE DEF bs
<1>. QED  BY <1>1, <1>3, <1>4, SplitCounts

(* Nothing is written, heard or shown at the start. *)
LEMMA InitIInv == Init => IInv
<1>. SUFFICES ASSUME Init PROVE IInv  OBVIOUS
<1>1. written = {} /\ batch = <<>> /\ worker = "wait" /\ rollups = <<>>  BY DEF Init
<1>2. Typed  BY <1>1, FS_EmptySet, DashboardAssumption DEF Init, Typed
<1>3. Numbered  BY <1>1 DEF Numbered
<1>4. CountsRight
  <2>1. Counted = {} /\ DOMAIN rollups = {}  BY <1>1 DEF Counted
  <2>. QED  BY <2>1 DEF CountsRight
<1>5. Heard  BY <1>1 DEF Init, Heard, Never
<1>6. Shown  BY DEF Init, Shown, NoPage
<1>. QED  BY <1>2, <1>3, <1>4, <1>5, <1>6 DEF IInv

(* A batch that is taken is numbered on, and none of it is too far ahead.   *)
LEMMA TakeKeeps ==
  ASSUME IInv, NEW len \in 1..MaxBatch, NEW evs \in [1..len -> Incoming], Take(evs)
  PROVE  Typed' /\ Numbered' /\ Heard'
<1>. DEFINE c == Cardinality(written)
<1>1. len \in Nat /\ c \in Nat /\ now \in Nat /\ Start <= now
      BY DashboardAssumption, FS_CardinalityType DEF IInv, Typed
<1>2. Lead \in Nat /\ Start \in Nat /\ \A d \in Delays : d \in Int /\ -d <= Lead /\ d < Start
      BY LeadFacts, DashboardAssumption
<1>3. ASSUME NEW i \in 1..len
      PROVE  /\ evs[i].at \in Int /\ evs[i].at # Never /\ evs[i].at <= now + Lead
             /\ evs[i].kind \in Kinds
  <2>1. evs[i] \in Incoming  OBVIOUS
  <2>2. evs[i].at \in {now - d : d \in Delays} /\ evs[i].kind \in Kinds  BY <2>1 DEF Incoming
  <2>3. PICK d \in Delays : evs[i].at = now - d  BY <2>2
  <2>. QED  BY <1>1, <1>2, <2>2, <2>3 DEF Never
<1>4. batch' = [i \in 1..len |-> [n |-> c + i, at |-> evs[i].at, kind |-> evs[i].kind]]
      BY DEF Take
<1>. HIDE DEF c
<1>5. batch' \in Seq(Event)
  <2>1. \A i \in 1..len : [n |-> c + i, at |-> evs[i].at, kind |-> evs[i].kind] \in Event
        BY <1>1, <1>3 DEF Event
  <2>. QED  BY <1>1, <1>4, <2>1
<1>6. Len(batch') = len  BY <1>1, <1>4
<1>7. \A i \in 1..len : batch'[i].n = c + i /\ batch'[i].at = evs[i].at  BY <1>4
<1>8. batch' # <<>>  BY <1>1, <1>6
<1>9. /\ worker' = "insert"
      /\ UNCHANGED <<now, rows, lastIngest, written, flushedAt, heard>>
      BY DEF Take
<1>10. Typed'  BY <1>5, <1>8, <1>9 DEF IInv, Typed
<1>11. Numbered'  BY <1>6, <1>7, <1>9 DEF IInv, Numbered, c
<1>12. Heard'  BY <1>3, <1>6, <1>7, <1>9 DEF IInv, Heard
<1>. QED  BY <1>10, <1>11, <1>12

(* When a flush is over, the setting is as recent as the flush. *)
LEMMA SettingKeeps ==
  ASSUME IInv, Setting
  PROVE  Typed' /\ Numbered' /\ Heard'
<1>1. batch \in Seq(Event) /\ batch # <<>> /\ now \in Nat \ {0}  BY DEF IInv, Typed, Setting
<1>2. Len(batch) \in 1..Len(batch)  BY <1>1
<1>3. batch[Len(batch)] \in Event  BY <1>1, <1>2
<1>4. /\ batch[Len(batch)].at \in Int /\ batch[Len(batch)].at # Never
      /\ batch[Len(batch)].at <= now + Lead
      BY <1>2, <1>3 DEF IInv, Heard, Event
<1>5. batch' = <<>> /\ worker' = "wait" /\ now' = now /\ rows' = rows /\ written' = written
      BY DEF Setting
<1>6. /\ lastIngest' = batch[Len(batch)].at /\ flushedAt' = now
      /\ lastIngest' \in heard'
      BY <1>1, <1>2 DEF Setting
<1>7. Typed'  BY <1>5 DEF IInv, Typed
<1>8. Numbered'  BY <1>5 DEF IInv, Numbered
<1>9. Heard'  BY <1>1, <1>4, <1>5, <1>6 DEF Heard, Never
<1>. QED  BY <1>7, <1>8, <1>9

(* The cards that are read are right when they are read. *)
LEMMA ReadCardsKeeps ==
  ASSUME IInv, ReadCards
  PROVE  Shown'
<1>1. page.at \in Nat /\ page.hours \in Windows  BY DEF IInv, Shown, ReadCards
<1>2. page' = [stage |-> "chart", at |-> page.at, hours |-> page.hours,
               cards |-> SummaryWindow(page.at, page.hours)]
      BY DEF ReadCards
<1>3. page'.stage = "chart" /\ page'.at = page.at /\ page'.hours = page.hours
      /\ page'.cards = SummaryWindow(page.at, page.hours)
      BY <1>2
<1>4. Counted' = Counted  BY DEF ReadCards, Counted
<1>5. ASSUME NEW v \in {"accepted", "rejected"}
      PROVE  /\ page'.cards[v] \in Nat
             /\ page'.cards[v] <= Cardinality(Shows(v, page.at, page.hours)')
  <2>. DEFINE X == Shows(v, page.at, page.hours)
  <2>1. page'.cards[v] = Cardinality(X)  BY <1>3, WindowCounts DEF IInv
  <2>2. Shows(v, page.at, page.hours)' = X  BY <1>3, <1>4 DEF Shows
  <2>3. Cardinality(X) \in Nat
    <3>1. X \in SUBSET Counted  BY DEF Shows
    <3>2. IsFiniteSet(Counted)  BY CountedFinite DEF IInv
    <3>. QED  BY <3>1, <3>2, FS_Subset, FS_CardinalityType
  <2>. QED  BY <2>1, <2>2, <2>3
<1>. QED  BY <1>1, <1>3, <1>5 DEF Shown

(* Every step of the batcher, the sweep, the clock and a page keeps it. *)
LEMMA NextIInv == IInv /\ [Next]_vars => IInv'
<1>. SUFFICES ASSUME IInv, [Next]_vars PROVE IInv'  OBVIOUS
<1>1. ASSUME Typed', Counted' = Counted, UNCHANGED page PROVE Shown'
  <2>1. IsFiniteSet(Counted)  BY CountedFinite DEF IInv
  <2>. QED  BY <1>1, <2>1, CardsKept DEF IInv
<1>2. ASSUME Counted' = Counted, UNCHANGED rollups PROVE CountsRight'
      BY <1>2 DEF IInv, CountsRight, In
<1>3. ASSUME UNCHANGED <<worker, batch, written>> PROVE Numbered' /\ Counted' = Counted
      BY <1>3 DEF IInv, Numbered, Counted
<1>4. ASSUME UNCHANGED <<now, batch, lastIngest, flushedAt, heard>> PROVE Heard'
      BY <1>4 DEF IInv, Heard
<1>5. ASSUME UNCHANGED <<now, rows, written, worker, batch>> PROVE Typed'
      BY <1>5 DEF IInv, Typed
<1>6. ASSUME NEW len \in 1..MaxBatch, NEW evs \in [1..len -> Incoming], Take(evs) PROVE IInv'
  <2>1. Typed' /\ Numbered' /\ Heard'  BY <1>6, TakeKeeps
  <2>2. Counted' = Counted  BY <1>6 DEF Take, Counted
  <2>3. Shown' /\ CountsRight'  BY <1>1, <1>2, <1>6, <2>1, <2>2 DEF Take
  <2>. QED  BY <2>1, <2>3 DEF IInv
<1>7. CASE Insert
  <2>1. Typed' /\ Numbered' /\ Counted' = Counted  BY <1>7, InsertKeeps
  <2>2. Shown' /\ CountsRight' /\ Heard'  BY <1>1, <1>2, <1>4, <1>7, <2>1 DEF Insert
  <2>. QED  BY <2>1, <2>2 DEF IInv
<1>8. CASE Rollup
  <2>1. Typed'  BY <1>8 DEF Rollup, IInv, Typed
  <2>2. Numbered'  BY <1>8 DEF Rollup, IInv, Numbered
  <2>3. CountsRight' /\ Counted \subseteq Counted'  BY <1>8, RollupKeeps
  <2>4. Heard'  BY <1>4, <1>8 DEF Rollup
  <2>5. Shown'
    <3>1. IsFiniteSet(Counted')  BY <1>8 DEF Rollup, Counted, IInv, Typed
    <3>. QED  BY <1>8, <2>3, <3>1, CardsKept DEF Rollup, IInv
  <2>. QED  BY <2>1, <2>2, <2>3, <2>4, <2>5 DEF IInv
<1>9. CASE Setting
  <2>1. Typed' /\ Numbered' /\ Heard'  BY <1>9, SettingKeeps
  <2>2. Counted' = Counted  BY <1>9 DEF Setting, Counted
  <2>3. Shown' /\ CountsRight'  BY <1>1, <1>2, <1>9, <2>1, <2>2 DEF Setting
  <2>. QED  BY <2>1, <2>3 DEF IInv
<1>10. ASSUME NEW cutoff, Sweep(cutoff) PROVE IInv'
  <2>1. Typed'  BY <1>10 DEF Sweep, IInv, Typed
  <2>2. Numbered' /\ Counted' = Counted  BY <1>3, <1>10 DEF Sweep
  <2>3. Shown' /\ CountsRight' /\ Heard'  BY <1>1, <1>2, <1>4, <1>10, <2>1, <2>2 DEF Sweep
  <2>. QED  BY <2>1, <2>2, <2>3 DEF IInv
<1>11. CASE Tick
  <2>1. Typed'  BY <1>11, DashboardAssumption DEF Tick, IInv, Typed
  <2>2. Numbered' /\ Counted' = Counted  BY <1>3, <1>11 DEF Tick
  <2>3. Shown' /\ CountsRight'  BY <1>1, <1>2, <1>11, <2>1, <2>2 DEF Tick
  <2>4. Heard'
    <3>1. now' = now + 1 /\ now \in Nat  BY <1>11 DEF Tick, IInv, Typed
    <3>2. batch \in Seq(Event) /\ Lead \in Nat  BY LeadFacts DEF IInv, Typed
    <3>3. ASSUME NEW i \in 1..Len(batch) PROVE batch[i].at # Never /\ batch[i].at <= now' + Lead
      <4>1. batch[i] \in Event  BY <3>2
      <4>2. batch[i].at # Never /\ batch[i].at <= now + Lead  BY DEF IInv, Heard
      <4>3. batch[i].at \in Int  BY <4>1 DEF Event
      <4>. QED  BY <3>1, <3>2, <4>2, <4>3
    <3>4. lastIngest # Never => flushedAt \in Nat /\ flushedAt <= now  BY DEF IInv, Heard
    <3>5. lastIngest # Never => flushedAt <= now'  BY <3>1, <3>4
    <3>. QED  BY <1>11, <3>3, <3>5 DEF Tick, IInv, Heard
  <2>. QED  BY <2>1, <2>2, <2>3, <2>4 DEF IInv
<1>12. ASSUME NEW hours \in Windows, OpenPage(hours) PROVE IInv'
  <2>1. Typed' /\ Heard'  BY <1>4, <1>5, <1>12 DEF OpenPage
  <2>2. Numbered' /\ Counted' = Counted  BY <1>3, <1>12 DEF OpenPage
  <2>3. CountsRight'  BY <1>2, <1>12, <2>2 DEF OpenPage
  <2>4. now \in Nat  BY DEF IInv, Typed
  <2>5. Shown'
    <3>1. CASE HasAnyEvent
      <4>1. page' = [stage |-> "cards", at |-> now, hours |-> hours]  BY <1>12, <3>1 DEF OpenPage
      <4>. QED  BY <2>4, <4>1 DEF Shown
    <3>2. CASE ~HasAnyEvent
      <4>1. page' = [stage |-> "empty"]  BY <1>12, <3>2 DEF OpenPage
      <4>. QED  BY <4>1 DEF Shown
    <3>. QED  BY <3>1, <3>2
  <2>. QED  BY <2>1, <2>2, <2>3, <2>5 DEF IInv
<1>13. CASE ReadCards
  <2>1. Typed' /\ Heard'  BY <1>4, <1>5, <1>13 DEF ReadCards
  <2>2. Numbered' /\ Counted' = Counted  BY <1>3, <1>13 DEF ReadCards
  <2>3. CountsRight'  BY <1>2, <1>13, <2>2 DEF ReadCards
  <2>4. Shown'  BY <1>13, ReadCardsKeeps
  <2>. QED  BY <2>1, <2>2, <2>3, <2>4 DEF IInv
<1>14. CASE ReadChart \/ ShowEmpty
  <2>1. Typed' /\ Heard'  BY <1>4, <1>5, <1>14 DEF ReadChart, ShowEmpty
  <2>2. Numbered' /\ Counted' = Counted  BY <1>3, <1>14 DEF ReadChart, ShowEmpty
  <2>3. CountsRight'  BY <1>2, <1>14, <2>2 DEF ReadChart, ShowEmpty
  <2>4. Shown'  BY <1>14 DEF ReadChart, ShowEmpty, NoPage, Shown
  <2>. QED  BY <2>1, <2>2, <2>3, <2>4 DEF IInv
<1>15. CASE UNCHANGED vars
  <2>1. Typed' /\ Heard'  BY <1>4, <1>5, <1>15 DEF vars
  <2>2. Numbered' /\ Counted' = Counted  BY <1>3, <1>15 DEF vars
  <2>3. CountsRight' /\ Shown'  BY <1>1, <1>2, <1>15, <2>1, <2>2 DEF vars
  <2>. QED  BY <2>1, <2>2, <2>3 DEF IInv
<1>. QED  BY <1>6, <1>7, <1>8, <1>9, <1>10, <1>11, <1>12, <1>13, <1>14, <1>15 DEF Next

(* So it holds in every state. *)
LEMMA Invariance == Spec => []IInv
BY InitIInv, NextIInv, PTL DEF Spec

-----------------------------------------------------------------------------
(* Theorems *)

(* The strip says "connected" only if the last flush, which is not older    *)
(* than LIVENESS_WINDOW and what the gateway's clock may be ahead, brought  *)
(* an event of the window, and does if all it brought is of the window.     *)
THEOREM ConnectedAlwaysRecent == Spec => []ConnectedIsRecent
<1>1. ASSUME IInv PROVE ConnectedIsRecent
  <2>1. Lead \in Nat /\ LivenessWindow \in Nat /\ now \in Nat
        BY <1>1, LeadFacts, DashboardAssumption DEF IInv, Typed
  <2>2. ASSUME GatewayConnected(now)
        PROVE  /\ \E at \in heard : OfWindow(at)
               /\ flushedAt # Never /\ now - flushedAt <= LivenessWindow + Lead
    <3>1. lastIngest # Never /\ now - lastIngest <= LivenessWindow
          BY <2>2 DEF GatewayConnected
    <3>2. /\ lastIngest \in heard /\ lastIngest \in Int
          /\ flushedAt \in Nat \ {Never} /\ lastIngest <= flushedAt + Lead
          BY <1>1, <3>1 DEF IInv, Heard
    <3>3. OfWindow(lastIngest)  BY <3>1 DEF OfWindow
    <3>. QED  BY <2>1, <3>1, <3>2, <3>3
  <2>3. ASSUME heard # {}, \A at \in heard : OfWindow(at) PROVE GatewayConnected(now)
    <3>1. lastIngest # Never /\ lastIngest \in heard  BY <1>1, <2>3 DEF IInv, Heard
    <3>. QED  BY <2>3, <3>1 DEF GatewayConnected, OfWindow
  <2>. QED  BY <2>2, <2>3 DEF ConnectedIsRecent
<1>. QED  BY <1>1, Invariance, PTL

(* Hours are integers. *)
LEMMA HourIsInt == ASSUME NEW t \in Int PROVE Hour(t) \in Int
BY DashboardAssumption DEF Hour

(* A bar of the chart counts the events of its hour. *)
Bar(v, t, hours, i) == {e \in Shows(v, t, hours) : BucketOf(e)[1] = Hour(t) - hours + i}

LEMMA BarCounts ==
  ASSUME Typed, CountsRight, NEW t, NEW hours, NEW i \in 1..hours,
         NEW v \in {"accepted", "rejected"}
  PROVE  HourlyCountsWindow(t, hours)[i].counts[v] = Cardinality(Bar(v, t, hours, i))
<1>. DEFINE bs == {b \in DOMAIN rollups : InWindow(b, t, hours) /\ b[1] = Hour(t) - hours + i}
<1>1. HourlyCountsWindow(t, hours)[i].counts = Split(bs)  BY DEF HourlyCountsWindow
<1>2. \A e \in Counted : BucketOf(e) \in bs <=>
        InWindow(BucketOf(e), t, hours) /\ BucketOf(e)[1] = Hour(t) - hours + i
      BY DEF CountsRight
<1>3. {e \in Counted : BucketOf(e) \in bs /\ BucketOf(e)[3] = v}
        = Bar(v, t, hours, i)
      BY <1>2 DEF Shows, Bar
<1>4. bs \in SUBSET (DOMAIN rollups)  OBVIOUS
<1>. HIDE DEF bs
<1>. QED  BY <1>1, <1>3, <1>4, SplitCounts

(* All bars together count the events of the window. *)
LEMMA BarsTotal ==
  ASSUME Typed, CountsRight, page.at \in Int, page.hours \in Nat,
         NEW v \in {"accepted", "rejected"}
  PROVE  ChartTotal(v) = Cardinality(Shows(v, page.at, page.hours))
<1>. DEFINE C == Shows(v, page.at, page.hours)
            D == 1..page.hours
            first == Hour(page.at) - page.hours
            k == [e \in C |-> BucketOf(e)[1] - first]
            g == [i \in D |-> Chart[i].counts[v]]
            it == CHOOSE f : f = [s \in SUBSET D |->
                    IF s = {} THEN 0 ELSE Chart[AnyOf(s)].counts[v] + f[s \ {AnyOf(s)}]]
<1>1. first \in Int  BY HourIsInt
<1>2. IsFiniteSet(D)  BY UpTo
<1>3. IsFiniteSet(C)
  <2>1. C \in SUBSET Counted  BY DEF Shows
  <2>. QED  BY <2>1, CountedFinite, FS_Subset
<1>4. ASSUME NEW e \in C PROVE BucketOf(e)[1] \in Int /\ k[e] \in D
  <2>1. BucketOf(e)[1] \in Int
    <3>1. e \in Event  BY CountedFinite DEF Shows
    <3>. QED  BY <3>1, HourIsInt DEF Event, BucketOf
  <2>2. InWindow(BucketOf(e), page.at, page.hours)  BY DEF Shows
  <2>3. k[e] = BucketOf(e)[1] - first  OBVIOUS
  <2>4. Hour(page.at) \in Int  BY HourIsInt
  <2>5. BucketOf(e)[1] >= first + 1 /\ BucketOf(e)[1] <= first + page.hours
        BY <2>1, <2>2, <2>4 DEF InWindow
  <2>. HIDE DEF k, first
  <2>. QED  BY <1>1, <2>1, <2>3, <2>5
<1>5. CountsOf(g, C, k, D)
  <2>. SUFFICES ASSUME NEW i \in D PROVE g[i] = Cardinality(Into(C, k, {i}))  BY DEF CountsOf
  <2>1. g[i] = Cardinality({e \in C : BucketOf(e)[1] = first + i})
    <3>1. g[i] = HourlyCountsWindow(page.at, page.hours)[i].counts[v]  BY DEF Chart
    <3>2. i \in 1..page.hours  OBVIOUS
    <3>3. HourlyCountsWindow(page.at, page.hours)[i].counts[v]
            = Cardinality(Bar(v, page.at, page.hours, i))
          BY <3>2, BarCounts
    <3>4. Bar(v, page.at, page.hours, i) = {e \in C : BucketOf(e)[1] = first + i}  BY DEF Bar
    <3>. QED  BY <3>1, <3>3, <3>4
  <2>2. Into(C, k, {i}) = {e \in C : BucketOf(e)[1] = first + i}
    <3>1. ASSUME NEW e \in C PROVE k[e] = i <=> BucketOf(e)[1] = first + i
      <4>1. k[e] = BucketOf(e)[1] - first  OBVIOUS
      <4>2. BucketOf(e)[1] \in Int  BY <1>4
      <4>. HIDE DEF k, first
      <4>. QED  BY <1>1, <4>1, <4>2
    <3>. HIDE DEF k, C
    <3>. QED  BY <3>1 DEF Into
  <2>. QED  BY <2>1, <2>2
<1>6. DOMAIN Chart = D  BY DEF Chart, HourlyCountsWindow
<1>7. ChartTotal(v) = it[D]
      BY <1>6 DEF ChartTotal, MapThenSumSet, MapThenFoldSet, AnyOf
<1>8. ASSUME NEW f
      PROVE  [s \in SUBSET D |-> IF s = {} THEN 0 ELSE g[AnyOf(s)] + f[s \ {AnyOf(s)}]]
               = [s \in SUBSET D |->
                    IF s = {} THEN 0 ELSE Chart[AnyOf(s)].counts[v] + f[s \ {AnyOf(s)}]]
  <2>1. ASSUME NEW s \in SUBSET D, s # {} PROVE g[AnyOf(s)] = Chart[AnyOf(s)].counts[v]
    <3>1. AnyOf(s) \in D  BY <2>1 DEF AnyOf
    <3>. QED  BY <3>1
  <2>. HIDE DEF g, D
  <2>. QED  BY <2>1
<1>9. Sums(it, g, D)
  <2>. HIDE DEF k, C
  <2>1. PICK f : Sums(f, g, D)  BY <1>2, <1>3, <1>5, SumExists
  <2>2. f = [s \in SUBSET D |-> IF s = {} THEN 0 ELSE Chart[AnyOf(s)].counts[v] + f[s \ {AnyOf(s)}]]
        BY <1>8, <2>1 DEF Sums
  <2>3. it = [s \in SUBSET D |-> IF s = {} THEN 0 ELSE Chart[AnyOf(s)].counts[v] + it[s \ {AnyOf(s)}]]
    <3>. HIDE DEF D, g
    <3>. QED  BY <2>2
  <2>. QED  BY <1>8, <2>3 DEF Sums
<1>. HIDE DEF it, g
<1>10. Into(C, k, D) = C  BY <1>4 DEF Into
<1>. HIDE DEF k, C, D
<1>11. it[D] = Cardinality(Into(C, k, D))  BY <1>2, <1>3, <1>5, <1>9, SumCounts
<1>12. it[D] = Cardinality(C)  BY <1>10, <1>11
<1>. QED  BY <1>7, <1>12 DEF C

(* The cards of an Overview never show more than the chart below them.      *)
THEOREM CardsAlwaysWithinChart == Spec => CardsWithinChart
<1>. DEFINE Within == ReadChart => \A v \in {"accepted", "rejected"} : page.cards[v] <= ChartTotal(v)
<1>1. ASSUME IInv PROVE Within
  <2>. SUFFICES ASSUME ReadChart, NEW v \in {"accepted", "rejected"}
                PROVE  page.cards[v] <= ChartTotal(v)
       OBVIOUS
  <2>1. page.stage = "chart"  BY DEF ReadChart
  <2>2. page.cards[v] <= Cardinality(Shows(v, page.at, page.hours))
        BY <1>1, <2>1 DEF IInv, Shown
  <2>3. page.at \in Int
    <3>1. page.at \in Nat  BY <1>1, <2>1 DEF IInv, Shown
    <3>. QED  BY <3>1
  <2>5. page.hours \in Nat
    <3>1. page.hours \in Windows  BY <1>1, <2>1 DEF IInv, Shown
    <3>2. Windows \subseteq Nat  BY DashboardAssumption
    <3>. QED  BY <3>1, <3>2
  <2>4. ChartTotal(v) = Cardinality(Shows(v, page.at, page.hours))  BY <1>1, <2>3, <2>5, BarsTotal DEF IInv
  <2>. QED  BY <2>2, <2>4
<1>2. IInv /\ [Next]_vars => [Within]_vars  BY <1>1
<1>3. CardsWithinChart <=> [][Within]_vars  BY PTL DEF CardsWithinChart
<1>. QED  BY <1>2, <1>3, Invariance, PTL DEF Spec

(* The window of the queries is the window of hours. *)
LEMMA WindowIsHours ==
  ASSUME Typed, NEW hours \in Nat, NEW v
  PROVE  Shows(v, now, hours) = Of(v, hours)
<1>1. ASSUME NEW e \in Counted
      PROVE  InWindow(BucketOf(e), now, hours) /\ BucketOf(e)[3] = v
               <=> e.kind.verdict = v /\ Hour(now) - Hour(e.at) \in 0..(hours - 1)
  <2>1. e \in Event  BY CountedFinite
  <2>2. e.at \in Int /\ now \in Int  BY <2>1 DEF Event, Typed
  <2>3. Hour(e.at) \in Int /\ Hour(now) \in Int  BY <2>2, HourIsInt
  <2>4. BucketOf(e)[1] = Hour(e.at) /\ BucketOf(e)[3] = e.kind.verdict  BY DEF BucketOf
  <2>5. InWindow(BucketOf(e), now, hours) <=> Hour(now) - Hour(e.at) \in 0..(hours - 1)
        BY <2>3, <2>4 DEF InWindow
  <2>. QED  BY <2>4, <2>5
<1>. QED  BY <1>1 DEF Shows, Of

(* The card of a provider counts its events, whether it has a bucket or not. *)
OfProvider(v, hours, p) == {e \in Of(v, hours) : e.kind.provider = p}

LEMMA ProviderCounts ==
  ASSUME Typed, CountsRight, NEW hours \in Nat, NEW v \in {"accepted", "rejected"},
         NEW p \in Providers
  PROVE  ProviderCards(now, hours)[p][v] = Cardinality(OfProvider(v, hours, p))
<1>. DEFINE found == {b \in DOMAIN rollups : InWindow(b, now, hours)}
            bs == {b \in found : b[2] = p}
            stats == ProviderStatsWindow(now, hours)
<1>1. \A e \in Counted : BucketOf(e) \in bs <=>
        InWindow(BucketOf(e), now, hours) /\ e.kind.provider = p
  <2>1. \A e \in Counted : BucketOf(e) \in DOMAIN rollups  BY DEF CountsRight
  <2>2. \A e : BucketOf(e)[2] = e.kind.provider  BY DEF BucketOf
  <2>. QED  BY <2>1, <2>2
<1>2. {e \in Counted : BucketOf(e) \in bs /\ BucketOf(e)[3] = v} = OfProvider(v, hours, p)
  <2>1. Of(v, hours) = Shows(v, now, hours)  BY WindowIsHours
  <2>. HIDE DEF bs
  <2>. QED  BY <1>1, <2>1 DEF OfProvider, Shows
<1>3. DOMAIN stats = {b[2] : b \in found}  BY DEF ProviderStatsWindow
<1>4. ProviderCards(now, hours)[p] =
        IF p \in DOMAIN stats THEN stats[p] ELSE [accepted |-> 0, rejected |-> 0]
      BY DEF ProviderCards
<1>5. CASE p \in DOMAIN stats
  <2>1. stats[p] = Split(bs)  BY <1>3, <1>5 DEF ProviderStatsWindow
  <2>2. bs \in SUBSET (DOMAIN rollups)  OBVIOUS
  <2>. HIDE DEF bs, stats, found
  <2>3. Split(bs)[v] = Cardinality(OfProvider(v, hours, p))  BY <1>2, <2>2, SplitCounts
  <2>. QED  BY <1>4, <1>5, <2>1, <2>3
<1>6. CASE p \notin DOMAIN stats
  <2>1. bs = {}  BY <1>3, <1>6
  <2>. HIDE DEF bs, stats, found
  <2>2. OfProvider(v, hours, p) = {}  BY <1>2, <2>1
  <2>3. ProviderCards(now, hours)[p] = [accepted |-> 0, rejected |-> 0]  BY <1>4, <1>6
  <2>4. ProviderCards(now, hours)[p][v] = 0  BY <2>3
  <2>. QED  BY <2>2, <2>4, FS_EmptySet
<1>. QED  BY <1>5, <1>6

(* Cards, chart and provider cards count the same events: all that were     *)
(* ever written and counted in the window, whatever was swept since.        *)
THEOREM ViewsAlwaysAgree == Spec => []ViewsAgree
<1>1. ASSUME IInv PROVE ViewsAgree
  <2>. SUFFICES ASSUME NEW hours \in Windows, NEW v \in {"accepted", "rejected"}
       PROVE  /\ StatsSummary(hours)[v] = Cardinality(Of(v, hours))
              /\ \A i \in 1..hours :
                   HourlyCountsWindow(now, hours)[i].counts[v]
                     = Cardinality({e \in Of(v, hours) : Hour(e.at) = Hour(now) - hours + i})
              /\ \A p \in Providers :
                   ProviderCards(now, hours)[p][v]
                     = Cardinality({e \in Of(v, hours) : e.kind.provider = p})
       BY DEF ViewsAgree
  <2>1. hours \in Nat  BY DashboardAssumption
  <2>2. Typed /\ CountsRight  BY <1>1 DEF IInv
  <2>3. Shows(v, now, hours) = Of(v, hours)  BY <2>1, <2>2, WindowIsHours
  <2>4. StatsSummary(hours)[v] = Cardinality(Of(v, hours))
        BY <2>2, <2>3, WindowCounts DEF StatsSummary
  <2>5. ASSUME NEW i \in 1..hours
        PROVE  HourlyCountsWindow(now, hours)[i].counts[v]
                 = Cardinality({e \in Of(v, hours) : Hour(e.at) = Hour(now) - hours + i})
    <3>1. HourlyCountsWindow(now, hours)[i].counts[v] = Cardinality(Bar(v, now, hours, i))
          BY <2>2, BarCounts
    <3>2. Bar(v, now, hours, i) = {e \in Of(v, hours) : Hour(e.at) = Hour(now) - hours + i}
      <4>1. \A e : BucketOf(e)[1] = Hour(e.at)  BY DEF BucketOf
      <4>. QED  BY <2>3, <4>1 DEF Bar
    <3>. QED  BY <3>1, <3>2
  <2>6. ASSUME NEW p \in Providers
        PROVE  ProviderCards(now, hours)[p][v]
                 = Cardinality({e \in Of(v, hours) : e.kind.provider = p})
    <3>1. ProviderCards(now, hours)[p][v] = Cardinality(OfProvider(v, hours, p))
          BY <2>1, <2>2, ProviderCounts
    <3>. QED  BY <3>1 DEF OfProvider
  <2>. QED  BY <2>4, <2>5, <2>6
<1>. QED  BY <1>1, Invariance, PTL

-----------------------------------------------------------------------------
(* The median *)

(* What Sorted chooses. *)
Ascending(s) == \A i, j \in DOMAIN s : i < j => s[i].kind.latency <= s[j].kind.latency

(* One more element at the end of a sorted sequence. *)
LEMMA Appended ==
  ASSUME NEW T, T \subseteq Event, IsFiniteSet(T), NEW x \in T,
         \A y \in T : y.kind.latency <= x.kind.latency,
         NEW s \in SetToSeqs(T \ {x}), Ascending(s)
  PROVE  \E t \in SetToSeqs(T) : Ascending(t)
<1>. DEFINE n == Cardinality(T)
            t == [i \in 1..n |-> IF i = n THEN x ELSE s[i]]
<1>1. n \in Nat /\ n # 0
      BY FS_CardinalityType, FS_EmptySet
<1>2. Cardinality(T \ {x}) = n - 1  BY FS_RemoveElement
<1>. HIDE DEF n
<1>3. /\ s \in [1..(n - 1) -> T \ {x}]
      /\ \A i, j \in 1..(n - 1) : i # j => s[i] # s[j]
      BY <1>2 DEF SetToSeqs
<1>4. \A i \in 1..n : i = n \/ i \in 1..(n - 1)  BY <1>1
<1>5. t \in [1..n -> T]  BY <1>3, <1>4
<1>6. ASSUME NEW i \in 1..n, NEW j \in 1..n, i # j PROVE t[i] # t[j]
  <2>1. CASE i = n
    <3>1. j \in 1..(n - 1)  BY <1>4, <1>6, <2>1
    <3>2. t[i] = x /\ t[j] = s[j]  BY <1>6, <2>1
    <3>. QED  BY <1>3, <3>1, <3>2
  <2>2. CASE j = n
    <3>1. i \in 1..(n - 1)  BY <1>4, <1>6, <2>2
    <3>2. t[j] = x /\ t[i] = s[i]  BY <1>6, <2>2
    <3>. QED  BY <1>3, <3>1, <3>2
  <2>3. CASE i # n /\ j # n
    <3>1. i \in 1..(n - 1) /\ j \in 1..(n - 1)  BY <1>4, <2>3
    <3>2. t[i] = s[i] /\ t[j] = s[j]  BY <2>3
    <3>. QED  BY <1>3, <1>6, <3>1, <3>2
  <2>. QED  BY <2>1, <2>2, <2>3
<1>7. ASSUME NEW i \in 1..n, NEW j \in 1..n, i < j
      PROVE  t[i].kind.latency <= t[j].kind.latency
  <2>1. i \in 1..(n - 1)  BY <1>1, <1>7
  <2>2. t[i] = s[i] /\ s[i] \in T
    <3>1. i # n  BY <1>1, <2>1
    <3>2. s[i] \in T  BY <1>3, <2>1
    <3>. QED  BY <3>1, <3>2
  <2>3. CASE j = n
    <3>1. t[j] = x  BY <2>3
    <3>. QED  BY <2>2, <3>1
  <2>4. CASE j # n
    <3>1. j \in 1..(n - 1)  BY <1>4, <2>4
    <3>2. t[j] = s[j]  BY <2>4
    <3>3. DOMAIN s = 1..(n - 1)  BY <1>3
    <3>. QED  BY <1>7, <2>1, <2>2, <3>1, <3>2, <3>3 DEF Ascending
  <2>. QED  BY <2>3, <2>4
<1>8. DOMAIN t = 1..n  OBVIOUS
<1>. HIDE DEF t
<1>9. t \in SetToSeqs(T)  BY <1>5, <1>6 DEF SetToSeqs, n
<1>10. Ascending(t)  BY <1>7, <1>8 DEF Ascending
<1>. QED  BY <1>9, <1>10

(* Any sample can be sorted. *)
LEMMA OrderExists ==
  ASSUME NEW sample, sample \subseteq Event, IsFiniteSet(sample)
  PROVE  \E s \in SetToSeqs(sample) : Ascending(s)
<1>. DEFINE Has(T) == \E s \in SetToSeqs(T) : Ascending(s)
            bad == {T \in SUBSET sample : ~Has(T)}
<1>1. ASSUME bad # {} PROVE FALSE
  <2>1. PICK T \in bad : IsFiniteSet(T) /\ \A x \in T : T \ {x} \notin bad
    <3>1. bad \in SUBSET (SUBSET sample)  OBVIOUS
    <3>. HIDE DEF bad
    <3>. QED  BY <1>1, <3>1, SmallestSubset
  <2>2. T \subseteq sample /\ ~Has(T)  OBVIOUS
  <2>3. CASE T = {}
    <3>. DEFINE none == [i \in 1..0 |-> i]
    <3>1. Cardinality(T) = 0  BY <2>3, FS_EmptySet
    <3>2. 1..0 = {}  OBVIOUS
    <3>3. none \in [1..0 -> T]  BY <3>2
    <3>4. none \in SetToSeqs(T)  BY <3>1, <3>2, <3>3 DEF SetToSeqs
    <3>5. Ascending(none)  BY <3>2 DEF Ascending
    <3>. HIDE DEF none
    <3>. QED  BY <2>2, <3>4, <3>5
  <2>4. CASE T # {}
    <3>. DEFINE w == [e \in T |-> e.kind.latency]
    <3>1. \A e \in T : w[e] = e.kind.latency  OBVIOUS
    <3>2. ASSUME NEW e \in T PROVE w[e] \in Int
      <4>1. e.kind \in Kinds  BY <2>2 DEF Event
      <4>2. e.kind.latency \in Int  BY <4>1, DashboardAssumption
      <4>. QED  BY <3>1, <4>2
    <3>. HIDE DEF w
    <3>3. PICK x \in T : \A y \in T : w[y] <= w[x]  BY <2>1, <2>4, <3>2, LargestExists
    <3>4. \A y \in T : y.kind.latency <= x.kind.latency  BY <3>1, <3>3
    <3>5. T \ {x} \in SUBSET sample /\ T \ {x} \notin bad  BY <2>1, <2>2
    <3>6. PICK s \in SetToSeqs(T \ {x}) : Ascending(s)  BY <3>5
    <3>7. T \subseteq Event  BY <2>2
    <3>. HIDE DEF bad
    <3>8. Has(T)  BY <2>1, <3>4, <3>6, <3>7, Appended
    <3>. QED  BY <2>2, <3>8
  <2>. QED  BY <2>3, <2>4
<1>2. sample \notin bad  BY <1>1
<1>. QED  BY <1>2

(* The median of a sorted sample of n is that of its position (n + 1) \div 2. *)
LEMMA P50IsMiddle ==
  ASSUME NEW sample, sample \subseteq Event, IsFiniteSet(sample), sample # {}
  PROVE  \E s \in SetToSeqs(sample), k \in 1..Cardinality(sample) :
           /\ Ascending(s)
           /\ 2 * k >= Cardinality(sample) /\ 2 * (k - 1) < Cardinality(sample)
           /\ P50(sample) = s[k].kind.latency
<1>. DEFINE s == CHOOSE s \in SetToSeqs(sample) :
                   \A i, j \in DOMAIN s : i < j => s[i].kind.latency <= s[j].kind.latency
            n == Cardinality(sample)
            m == n \div 2
            k == IF n % 2 = 1 THEN m + 1 ELSE m
            latencies == [i \in DOMAIN s |-> s[i].kind.latency]
<1>1. n \in Nat /\ n # 0  BY FS_CardinalityType, FS_EmptySet
<1>2. s \in SetToSeqs(sample) /\ Ascending(s)  BY OrderExists DEF Ascending
<1>3. Sorted(sample) = latencies  BY DEF Sorted
<1>. HIDE DEF s
<1>4. s \in [1..n -> sample]  BY <1>2 DEF SetToSeqs
<1>. HIDE DEF n
<1>5. Len(latencies) = n
  <2>1. DOMAIN latencies = 1..n  BY <1>4
  <2>2. latencies \in Seq(Int)
    <3>1. ASSUME NEW i \in 1..n PROVE s[i].kind.latency \in Int
      <4>1. s[i] \in Event  BY <1>4
      <4>2. s[i].kind \in Kinds  BY <4>1 DEF Event
      <4>. QED  BY <4>2, DashboardAssumption
    <3>2. latencies = [i \in 1..n |-> s[i].kind.latency]  BY <1>4
    <3>. HIDE DEF latencies
    <3>. QED  BY <1>1, <3>1, <3>2
  <2>. HIDE DEF latencies
  <2>3. DOMAIN latencies = 1..Len(latencies) /\ Len(latencies) \in Nat  BY <2>2
  <2>. QED  BY <1>1, <2>1, <2>3
<1>6. k \in 1..n /\ 2 * k >= n /\ 2 * (k - 1) < n
  <2>1. CASE n % 2 = 1  BY <1>1, <2>1
  <2>2. CASE n % 2 # 1  BY <1>1, <2>2
  <2>. QED  BY <2>1, <2>2
<1>7. \A i \in 1..n : latencies[i] = s[i].kind.latency  BY <1>4
<1>. HIDE DEF latencies
<1>8. Median(latencies) = latencies[k]  BY <1>5 DEF Median
<1>. HIDE DEF k
<1>9. P50(sample) = s[k].kind.latency  BY <1>3, <1>6, <1>7, <1>8 DEF P50
<1>. QED  BY <1>2, <1>6, <1>9 DEF n

AtMost(sample, p) == {r \in sample : r.kind.latency <= p}
Below(sample, p) == {r \in sample : r.kind.latency < p}

(* In a sorted sample the first k are not above the k-th, and whatever is   *)
(* below it comes before it.                                                *)
LEMMA MiddleSplits ==
  ASSUME NEW sample, sample \subseteq Event, IsFiniteSet(sample),
         NEW s \in SetToSeqs(sample), Ascending(s), NEW k \in 1..Cardinality(sample),
         NEW p, p = s[k].kind.latency
  PROVE  /\ Cardinality(AtMost(sample, p)) \in Nat /\ Cardinality(AtMost(sample, p)) >= k
         /\ Cardinality(Below(sample, p)) \in Nat /\ Cardinality(Below(sample, p)) <= k - 1
<1>. DEFINE n == Cardinality(sample)
            low == {r \in sample : r.kind.latency <= p}
            below == {r \in sample : r.kind.latency < p}
            before == {s[i] : i \in 1..(k - 1)}
            f == [i \in 1..k |-> s[i]]
            g == [i \in 1..(k - 1) |-> s[i]]
<1>1. n \in Nat  BY FS_CardinalityType
<1>2. s \in [1..n -> sample] /\ \A i, j \in 1..n : i # j => s[i] # s[j]  BY DEF SetToSeqs
<1>3. DOMAIN s = 1..n  BY <1>2
<1>4. ASSUME NEW i \in 1..n PROVE s[i] \in sample /\ s[i].kind.latency \in Int
  <2>1. s[i] \in sample /\ s[i] \in Event  BY <1>2
  <2>2. s[i].kind \in Kinds  BY <2>1 DEF Event
  <2>. QED  BY <2>1, <2>2, DashboardAssumption
<1>5. k \in Nat /\ 1 <= k /\ k <= n  BY <1>1
<1>. HIDE DEF n
<1>6. ASSUME NEW i \in 1..n, i <= k PROVE s[i].kind.latency <= p
  <2>1. CASE i = k  BY <1>4, <2>1
  <2>2. CASE i # k
    <3>1. i < k /\ k \in 1..n  BY <1>1, <1>5, <1>6, <2>2
    <3>. QED  BY <1>3, <3>1 DEF Ascending
  <2>. QED  BY <2>1, <2>2
<1>7. ASSUME NEW i \in 1..n, ~(i <= k - 1) PROVE p <= s[i].kind.latency
  <2>1. CASE i = k  BY <1>4, <2>1
  <2>2. CASE i # k
    <3>1. k < i /\ k \in 1..n  BY <1>1, <1>5, <1>7, <2>2
    <3>. QED  BY <1>3, <3>1 DEF Ascending
  <2>. QED  BY <2>1, <2>2
<1>8. IsFiniteSet(low) /\ IsFiniteSet(below)
  <2>1. low \in SUBSET sample /\ below \in SUBSET sample  OBVIOUS
  <2>. HIDE DEF low, below
  <2>. QED  BY <2>1, FS_Subset
<1>9. Cardinality(low) \in Nat /\ Cardinality(below) \in Nat
  <2>. HIDE DEF low, below
  <2>. QED  BY <1>8, FS_CardinalityType
<1>10. k <= Cardinality(low)
  <2>1. \A i \in 1..k : i \in 1..n /\ i <= k  BY <1>1, <1>5
  <2>2. f \in [1..k -> low]  BY <1>4, <1>6, <2>1
  <2>3. \A i, j \in 1..k : f[i] = f[j] => i = j
    <3>1. \A i \in 1..k : f[i] = s[i]  OBVIOUS
    <3>. HIDE DEF f
    <3>. QED  BY <1>2, <2>1, <3>1
  <2>. HIDE DEF f, low
  <2>4. f \in Injection(1..k, low)  BY <2>2, <2>3 DEF Injection, IsInjective
  <2>5. Cardinality(1..k) <= Cardinality(low)  BY <1>8, <2>4, FS_Injection
  <2>6. Cardinality(1..k) = k  BY <1>5, UpTo
  <2>. QED  BY <2>5, <2>6
<1>11. Cardinality(below) <= k - 1
  <2>1. IsFiniteSet(1..(k - 1)) /\ Cardinality(1..(k - 1)) = k - 1
    <3>1. k - 1 \in Nat  BY <1>5
    <3>. QED  BY <3>1, UpTo
  <2>2. g \in Surjection(1..(k - 1), before)  BY DEF Surjection
  <2>3. below \in SUBSET before
    <3>. SUFFICES ASSUME NEW r \in below PROVE r \in before  OBVIOUS
    <3>1. s \in Surjection(1..n, sample)
      <4>1. s \in Injection(1..n, sample)  BY <1>2 DEF Injection, IsInjective
      <4>2. Cardinality(1..n) = n  BY <1>1, UpTo
      <4>. QED  BY <4>1, <4>2, FS_Injection DEF n
    <3>2. PICK i \in 1..n : s[i] = r  BY <3>1 DEF Surjection
    <3>3. s[i].kind.latency < p  BY <3>2
    <3>4. s[i].kind.latency \in Int /\ p \in Int  BY <1>4, <1>1, <1>5
    <3>5. i <= k - 1  BY <1>7, <3>3, <3>4
    <3>6. i \in 1..(k - 1)  BY <1>1, <1>5, <3>5
    <3>. QED  BY <3>2, <3>6
  <2>. HIDE DEF g, before, below
  <2>4. IsFiniteSet(before) /\ Cardinality(before) <= k - 1  BY <2>1, <2>2, FS_Surjection
  <2>5. Cardinality(below) <= Cardinality(before)  BY <2>3, <2>4, FS_Subset
  <2>6. Cardinality(before) \in Nat  BY <2>4, FS_CardinalityType
  <2>. QED  BY <1>5, <1>9, <2>4, <2>5, <2>6 DEF below
<1>. QED  BY <1>9, <1>10, <1>11 DEF AtMost, Below

(* The p50 is the lower median of what was sampled.                         *)
THEOREM P50AlwaysMedian == Spec => []P50IsMedian
<1>1. ASSUME IInv PROVE P50IsMedian
  <2>. SUFFICES ASSUME NEW t, NEW s \in Samples(t), s # {}
       PROVE  /\ 2 * Cardinality({r \in s : r.kind.latency <= P50(s)}) >= Cardinality(s)
              /\ 2 * Cardinality({r \in s : r.kind.latency < P50(s)}) < Cardinality(s)
       BY DEF P50IsMedian
  <2>1. s \in SUBSET written  BY <1>1 DEF Samples, Newest, IInv, Typed
  <2>2. s \subseteq Event /\ IsFiniteSet(s)
    <3>1. written \subseteq Event /\ IsFiniteSet(written)  BY <1>1 DEF IInv, Typed
    <3>2. IsFiniteSet(s)  BY <2>1, <3>1, FS_Subset
    <3>. QED  BY <2>1, <3>1, <3>2
  <2>3. PICK order \in SetToSeqs(s), k \in 1..Cardinality(s) :
          /\ Ascending(order)
          /\ 2 * k >= Cardinality(s) /\ 2 * (k - 1) < Cardinality(s)
          /\ P50(s) = order[k].kind.latency
        BY <2>2, P50IsMiddle
  <2>. DEFINE low == Cardinality(AtMost(s, P50(s)))
              below == Cardinality(Below(s, P50(s)))
  <2>4. low \in Nat /\ low >= k /\ below \in Nat /\ below <= k - 1
        BY <2>2, <2>3, MiddleSplits
  <2>5. Cardinality(s) \in Nat  BY <2>2, FS_CardinalityType
  <2>. HIDE DEF low, below
  <2>6. 2 * low >= Cardinality(s) /\ 2 * below < Cardinality(s)  BY <2>3, <2>4, <2>5
  <2>. QED  BY <2>6 DEF low, below, AtMost, Below
<1>. QED  BY <1>1, Invariance, PTL
================================================================================
