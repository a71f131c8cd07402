---------------------------- MODULE BatcherProofs ----------------------------
(***************************************************************************)
(* Proofs about the console's ingest path, for any size of the queue, any  *)
(* number of events, instants, retention settings and kills.               *)
(*                                                                         *)
(* The queue is the unbroken run of the newest accepted events (Suffix),   *)
(* the batch an unbroken run of older ones, newer than all that was ever   *)
(* inserted before it (Run); everything else that was accepted is settled  *)
(* (Front).  Hence a batch gets ids beyond all in the table in the order   *)
(* of arrival (Table), and what the rollups still lack of the rows is what *)
(* the batch being written will add (Counts, Agreement).                   *)
(***************************************************************************)
EXTENDS Batcher, FiniteSetTheorems, WellFoundedInduction, TLAPS

Writing == worker \in {"insert", "rollup", "setting"}

(* The queue is the run of the newest events, in order. *)
Suffix ==
  /\ Len(queue) <= accepted
  /\ \A i \in 1..Len(queue) : queue[i].n = accepted - Len(queue) + i

(* The batch is a run of older events, all in the table or newer than all   *)
(* that is.                                                                 *)
Run ==
  /\ batch # <<>> <=> Writing
  /\ \A i \in 1..Len(batch) : /\ batch[i].n = batch[1].n + i - 1
                              /\ batch[i].n \in 1..(accepted - Len(queue))
  /\ worker = "insert" => \A i \in 1..Len(batch) : \A x \in inserted : x < batch[i].n
  /\ worker \in {"rollup", "setting"} => Numbers(batch) \subseteq inserted

(* The events before the queue are settled or in the batch. *)
Front ==
  /\ Numbers(batch) \union Settled = 1..(accepted - Len(queue))
  /\ Numbers(batch) \intersect (lost \union dropped \union crashed) = {}
  /\ dropped \intersect (inserted \union lost \union crashed) = {}
  /\ crashed \intersect (inserted \union lost) = {}

(* The attribute `dropped` counts what overflowed since the process started. *)
Drops ==
  /\ drops <= Cardinality(dropped)
  /\ crashes = 0 => drops = Cardinality(dropped)

(* The process and its task agree; nothing is queued behind the last drain. *)
Control ==
  /\ phase = "off" <=> worker = "off"
  /\ stopping <=> phase \in {"closing", "closed"}
  /\ worker \in {"finally", "exited"} \/ last => stopping
  /\ worker = "exited" \/ last \/ phase = "off" => queue = <<>>
  /\ phase = "closed" => worker = "exited"

(* The table: one row for each inserted event at most, ids in the order of  *)
(* arrival and never larger than the event's number.                        *)
Table ==
  /\ IsFiniteSet(rows)
  /\ \A r \in rows : r.ev.n \in inserted /\ r.id <= r.ev.n
  /\ \A r, s \in rows : r.id = s.id => r = s
  /\ IdsFollowArrival

(* The batch's events in a bucket. *)
Share(t) == {i \in 1..Len(batch) : batch[i].at = t}

(* The rollups never count more than the rows; while the batch is not yet   *)
(* counted, they fall short by its events at least.                         *)
Counts ==
  \A t \in Times : /\ rollups[t] <= Cardinality(Written(t))
                   /\ worker = "rollup" =>
                        rollups[t] + Cardinality(Share(t)) <= Cardinality(Written(t))

(* While nothing has failed, the three writes differ by what is left to do. *)
Latest(at) == \E r \in rows : r.id = LatestId /\ r.ev.at = at

Agreement ==
  ~faults =>
    /\ \A t \in Times :
         Cardinality(Written(t)) = rollups[t] + IF worker = "rollup" THEN Cardinality(Share(t)) ELSE 0
    /\ worker \in {"rollup", "setting"} => Latest(batch[Len(batch)].at)
    /\ worker \notin {"rollup", "setting"} =>
         IF rows = {} THEN lastIngest = Never ELSE Latest(lastIngest)

(* The events' whereabouts; that holds also where rows are deleted. *)
Core == TypeOK /\ Suffix /\ Run /\ Front /\ Drops /\ Control /\ Table

IInv == Core /\ Counts /\ Agreement

USE StoreAssumption, BatcherAssumption

-----------------------------------------------------------------------------
(* Rows and their ids *)

(* A non-empty set of naturals with a bound has a largest element. *)
LEMMA MaxIsLargest ==
  ASSUME NEW n \in Nat, NEW S \in SUBSET (1..n), S # {}
  PROVE  Max(S) \in S /\ \A x \in S : x <= Max(S)
<1> DEFINE gaps == {k \in Nat : n - k \in S}
           less == {ss \in Nat \X Nat : ss[1] < ss[2]}
<1>1. gaps \subseteq Nat /\ gaps # {}
  <2>1. PICK x \in S : TRUE
    OBVIOUS
  <2>2. n - x \in gaps
    BY <2>1
  <2> QED BY <2>2
<1>2. IsWellFoundedOn({ss \in Nat \X Nat : ss[1] < ss[2]}, Nat)
  BY NatLessThanWellFounded DEF OpToRel
<1>3. PICK least \in gaps : \A k \in gaps : ~(<<k, least>> \in less)
  <2> HIDE DEF gaps, less
  <2> QED BY <1>1, <1>2, WFMin DEF less
<1>4. ASSUME NEW k \in gaps PROVE least <= k
  <2>1. ~(<<k, least>> \in less) /\ least \in Nat /\ k \in Nat
    BY <1>3
  <2>2. <<k, least>> \in Nat \X Nat /\ <<k, least>>[1] = k /\ <<k, least>>[2] = least
    BY <2>1
  <2>3. ~(k < least)
    BY <2>1, <2>2
  <2> QED BY <2>1, <2>3
<1>5. \A x \in S : n - x \in gaps
  OBVIOUS
<1>6. n - least \in S /\ \A x \in S : n - least >= x
  BY <1>4, <1>5
<1>7. \E m \in S : \A x \in S : m >= x
  BY <1>6
<1> QED
  BY <1>7 DEF Max

(* latest_event_id is the largest id in the table, and that of a row. *)
LEMMA LatestIdFacts ==
  ASSUME TypeOK, Table
  PROVE  /\ LatestId \in 0..accepted
         /\ \A r \in rows : r.id \in 1..LatestId
         /\ rows # {} => \E r \in rows : r.id = LatestId
         /\ rows = {} => LatestId = 0
<1>1. accepted \in Nat /\ \A r \in rows : r.id \in 1..accepted
  <2>1. accepted \in Nat
    BY DEF TypeOK
  <2>2. ASSUME NEW r \in rows PROVE r.id \in 1..accepted
    <3>1. r \in [id : Nat \ {0}, ev : Event]
      BY DEF TypeOK, StoreTypeOK
    <3>2. r.ev.n \in inserted /\ r.id <= r.ev.n
      BY DEF Table
    <3>3. inserted \subseteq 1..accepted
      BY DEF TypeOK
    <3>4. r.id \in Nat \ {0} /\ r.ev.n \in 1..accepted
      BY <3>1, <3>2, <3>3
    <3> QED BY <2>1, <3>2, <3>4
  <2> QED BY <2>1, <2>2
<1>2. CASE rows = {}
  BY <1>1, <1>2 DEF LatestId
<1>3. CASE rows # {}
  <2> DEFINE ids == {r.id : r \in rows}
  <2>1. ids \in SUBSET (1..accepted) /\ ids # {}
    BY <1>1, <1>3
  <2>2. LatestId = Max(ids)
    BY <1>3 DEF LatestId
  <2>3. \A r \in rows : r.id \in ids
    OBVIOUS
  <2>4. Max(ids) \in ids /\ \A x \in ids : x <= Max(ids)
    <3> HIDE DEF ids
    <3> QED BY <1>1, <2>1, MaxIsLargest
  <2>5. \E r \in rows : r.id = Max(ids)
    BY <2>4
  <2> HIDE DEF ids
  <2>6. Max(ids) \in 1..accepted
    BY <2>1, <2>4
  <2>7. ASSUME NEW r \in rows PROVE r.id \in 1..Max(ids)
    BY <1>1, <2>3, <2>4, <2>6
  <2> QED BY <1>3, <2>2, <2>5, <2>6, <2>7
<1> QED
  BY <1>2, <1>3

(* A run of events newer than all that were inserted. *)
NewRun(evs) ==
  /\ evs \in Seq(Event)
  /\ \A i \in 1..Len(evs) : /\ evs[i].n = evs[1].n + i - 1
                            /\ evs[i].n \in Nat \ {0}
                            /\ \A x \in inserted : x < evs[i].n

NewRow(evs, i) == [id |-> LatestId + i, ev |-> evs[i]]
NewRows(evs) == {NewRow(evs, i) : i \in 1..Len(evs)}
ShareOf(evs, t) == {i \in 1..Len(evs) : evs[i].at = t}

(* insert_events gives a new run ids beyond all in use, in its order. *)
LEMMA InsertedRows ==
  ASSUME TypeOK, Table, NEW evs, NewRun(evs)
  PROVE  /\ WithRows(evs) = rows \union NewRows(evs)
         /\ \A i \in 1..Len(evs) : /\ NewRow(evs, i).id = LatestId + i
                                   /\ NewRow(evs, i).ev = evs[i]
                                   /\ NewRow(evs, i) \in [id : Nat \ {0}, ev : Event]
                                   /\ NewRow(evs, i) \notin rows
                                   /\ NewRow(evs, i).id <= evs[i].n
                                   /\ \A r \in rows : r.id < LatestId + i /\ r.ev.n < evs[i].n
<1>1. DOMAIN evs = 1..Len(evs) /\ Len(evs) \in Nat /\ evs \in [1..Len(evs) -> Event]
  BY DEF NewRun
<1>2. WithRows(evs) = rows \union NewRows(evs)
  BY <1>1 DEF WithRows, NewRows, NewRow
<1>3. ASSUME NEW i \in 1..Len(evs)
      PROVE  /\ NewRow(evs, i).id = LatestId + i /\ NewRow(evs, i).ev = evs[i]
             /\ NewRow(evs, i) \in [id : Nat \ {0}, ev : Event]
             /\ NewRow(evs, i).id <= evs[i].n
             /\ \A r \in rows : r.id < LatestId + i /\ r.ev.n < evs[i].n
  <2>1. NewRow(evs, i).id = LatestId + i /\ NewRow(evs, i).ev = evs[i]
    BY DEF NewRow
  <2>2. LatestId \in Nat /\ LatestId + i \in Nat \ {0} /\ evs[i] \in Event
    <3>1. accepted \in Nat
      BY DEF TypeOK
    <3>2. LatestId \in 0..accepted
      BY LatestIdFacts
    <3>3. LatestId \in Nat
      BY <3>1, <3>2
    <3>4. evs[i] \in Event
      BY <1>1
    <3> QED BY <3>3, <3>4
  <2>3. NewRow(evs, i) \in [id : Nat \ {0}, ev : Event]
    BY <2>2 DEF NewRow
  <2>4. \A r \in rows : r.id < LatestId + i
    BY <2>2, LatestIdFacts
  <2>5. \A r \in rows : r.ev.n < evs[i].n
    BY DEF NewRun, Table
  <2>6. LatestId + i <= evs[i].n
    <3>1. evs[i].n = evs[1].n + i - 1 /\ 1 \in 1..Len(evs) /\ evs[1].n \in Nat \ {0}
      BY <1>1 DEF NewRun
    <3>2. CASE rows = {}
      BY <3>1, <3>2, LatestIdFacts
    <3>3. CASE rows # {}
      <4>1. PICK r \in rows : r.id = LatestId
        BY <3>3, LatestIdFacts
      <4>2. r.id <= r.ev.n /\ r.ev.n < evs[1].n /\ r.ev.n \in Nat
        BY <3>1, <4>1 DEF Table, NewRun, TypeOK, StoreTypeOK, Event
      <4> QED BY <2>2, <3>1, <4>1, <4>2
    <3> QED BY <3>2, <3>3
  <2> QED BY <2>1, <2>2, <2>3, <2>4, <2>5, <2>6
<1>4. ASSUME NEW i \in 1..Len(evs) PROVE NewRow(evs, i) \notin rows
  <2>1. LatestId + i \in Nat /\ NewRow(evs, i).id = LatestId + i /\ \A r \in rows : r.id < LatestId + i
    <3>1. accepted \in Nat /\ LatestId \in 0..accepted
      BY LatestIdFacts DEF TypeOK
    <3> QED BY <1>3, <3>1
  <2> QED BY <2>1
<1> QED
  BY <1>2, <1>3, <1>4

(* New rows are counted by their places in the run. *)
LEMMA RowsCounted ==
  ASSUME TypeOK, Table, NEW evs, NewRun(evs), NEW I \in SUBSET (1..Len(evs))
  PROVE  /\ IsFiniteSet(I) /\ Cardinality(I) \in Nat
         /\ IsFiniteSet({NewRow(evs, i) : i \in I})
         /\ Cardinality({NewRow(evs, i) : i \in I}) = Cardinality(I)
<1> DEFINE new == {NewRow(evs, i) : i \in I}
           f == [i \in I |-> NewRow(evs, i)]
<1>1. Len(evs) \in Nat /\ LatestId \in Nat
  BY LatestIdFacts DEF NewRun, TypeOK
<1>2. IsFiniteSet(I) /\ Cardinality(I) \in Nat
  <2>1. IsFiniteSet(1..Len(evs))
    BY <1>1, FS_Interval
  <2>2. IsFiniteSet(I)
    BY <2>1, FS_Subset
  <2> QED BY <2>2, FS_CardinalityType
<1>3. \A i, j \in I : NewRow(evs, i) = NewRow(evs, j) => i = j
  <2> SUFFICES ASSUME NEW i \in I, NEW j \in I, NewRow(evs, i) = NewRow(evs, j) PROVE i = j
    OBVIOUS
  <2>1. NewRow(evs, i).id = LatestId + i /\ NewRow(evs, j).id = LatestId + j
    BY DEF NewRow
  <2> QED BY <1>1, <2>1
<1>4. f \in Bijection(I, new)
  <2>1. f \in [I -> new]
    OBVIOUS
  <2>2. \A a, b \in I : f[a] = f[b] => a = b
    BY <1>3
  <2>3. \A y \in new : \E i \in I : f[i] = y
    OBVIOUS
  <2> HIDE DEF f, new
  <2> QED BY <2>1, <2>2, <2>3 DEF Bijection, Injection, Surjection, IsInjective
<1> HIDE DEF f, new
<1>5. IsFiniteSet(new) /\ Cardinality(new) = Cardinality(I)
  BY <1>2, <1>4, FS_Bijection DEF ExistsBijection
<1> QED
  BY <1>2, <1>5 DEF new

(* The table after insert_events, whole or cut short. *)
LEMMA TableAfterInsert ==
  ASSUME TypeOK, Table, NEW evs, NewRun(evs),
         rows' = WithRows(evs), inserted' = inserted \union Numbers(evs)
  PROVE  /\ Table' /\ rows' \subseteq [id : Nat \ {0}, ev : Event]
         /\ \A t \in Times : Cardinality(Written(t))' = Cardinality(Written(t)) + Cardinality(ShareOf(evs, t))
<1> DEFINE row(i) == NewRow(evs, i)
           N == Len(evs)
<1>1. /\ rows' = rows \union NewRows(evs)
      /\ \A i \in 1..N : /\ row(i).id = LatestId + i /\ row(i).ev = evs[i]
                         /\ row(i) \in [id : Nat \ {0}, ev : Event]
                         /\ row(i) \notin rows /\ row(i).id <= evs[i].n
                         /\ \A r \in rows : r.id < LatestId + i /\ r.ev.n < evs[i].n
  BY InsertedRows
<1>2. \A r \in rows' : r \in rows \/ \E i \in 1..N : r = row(i)
  BY <1>1 DEF NewRows
<1>3. /\ LatestId \in Nat /\ N \in Nat /\ DOMAIN evs = 1..N
      /\ \A i \in 1..N : evs[i].n = evs[1].n + i - 1 /\ evs[i].n \in Nat \ {0} /\ evs[i] \in Event
      /\ 1..N # {} => evs[1].n \in Nat
  BY LatestIdFacts DEF TypeOK, NewRun
<1>4. rows' \subseteq [id : Nat \ {0}, ev : Event]
  BY <1>1, <1>2 DEF TypeOK, StoreTypeOK
<1>5. \A r \in rows' : r.ev.n \in inserted' /\ r.id <= r.ev.n
  <2>1. \A i \in 1..N : evs[i].n \in inserted'
    BY <1>3 DEF Numbers
  <2> QED BY <1>1, <1>2, <2>1 DEF Table
<1>6. \A i, j \in 1..N : /\ evs[i].n < evs[j].n <=> i < j
                         /\ row(i).id < row(j).id <=> i < j
                         /\ row(i).id = row(j).id => i = j
  <2> SUFFICES ASSUME NEW i \in 1..N, NEW j \in 1..N
               PROVE  /\ evs[i].n < evs[j].n <=> i < j
                      /\ row(i).id < row(j).id <=> i < j
                      /\ row(i).id = row(j).id => i = j
    OBVIOUS
  <2>1. evs[i].n = evs[1].n + i - 1 /\ evs[j].n = evs[1].n + j - 1 /\ evs[1].n \in Nat
    BY <1>3
  <2>2. row(i).id = LatestId + i /\ row(j).id = LatestId + j
    BY <1>1
  <2> HIDE DEF row
  <2> QED BY <1>3, <2>1, <2>2
<1> HIDE DEF row, N
<1>7. \A r, s \in rows' : r.id = s.id => r = s
  <2>1. \A r \in rows, i \in 1..N : r.id # row(i).id
    <3> SUFFICES ASSUME NEW r \in rows, NEW i \in 1..N PROVE r.id # row(i).id
      OBVIOUS
    <3>1. r.id < LatestId + i /\ row(i).id = LatestId + i /\ r.id \in Nat
      BY <1>1, <1>4
    <3> QED BY <1>3, <3>1
  <2> QED BY <1>2, <1>6, <2>1 DEF Table
<1>8. IdsFollowArrival'
  <2> SUFFICES ASSUME NEW r \in rows', NEW s \in rows' PROVE r.ev.n < s.ev.n <=> r.id < s.id
    BY DEF IdsFollowArrival
  <2>1. r.id \in Nat /\ s.id \in Nat /\ r.ev.n \in Nat /\ s.ev.n \in Nat
    BY <1>4 DEF Event
  <2>2. CASE r \in rows /\ s \in rows
    BY <2>2 DEF Table, IdsFollowArrival
  <2>3. ASSUME NEW p \in rows, NEW i \in 1..N
        PROVE  /\ p.ev.n < row(i).ev.n /\ p.id < row(i).id
               /\ ~(row(i).ev.n < p.ev.n) /\ ~(row(i).id < p.id)
    <3>1. p.id < row(i).id /\ p.ev.n < row(i).ev.n
      BY <1>1
    <3>2. p \in rows' /\ row(i) \in rows'
      BY <1>1 DEF NewRows, row, N
    <3>3. p.id \in Nat /\ p.ev.n \in Nat /\ row(i).id \in Nat /\ row(i).ev.n \in Nat
      BY <1>4, <3>2 DEF Event
    <3> QED BY <3>1, <3>3
  <2>4. ASSUME NEW i \in 1..N, NEW j \in 1..N, r = row(i), s = row(j) PROVE r.ev.n < s.ev.n <=> r.id < s.id
    BY <2>4, <1>1, <1>6
  <2> QED BY <1>2, <2>2, <2>3, <2>4
<1>9. IsFiniteSet(rows')
  <2>1. IsFiniteSet(NewRows(evs))
    BY RowsCounted DEF NewRows
  <2>2. IsFiniteSet(rows)
    BY DEF Table
  <2>3. IsFiniteSet(rows \union NewRows(evs))
    BY <2>1, <2>2, FS_Union
  <2> QED BY <1>1, <2>3
<1>10. ASSUME NEW t \in Times
       PROVE  Cardinality(Written(t))' = Cardinality(Written(t)) + Cardinality(ShareOf(evs, t))
  <2> DEFINE new == {NewRow(evs, i) : i \in ShareOf(evs, t)}
  <2>1. IsFiniteSet(new) /\ Cardinality(new) = Cardinality(ShareOf(evs, t)) /\ Cardinality(new) \in Nat
    <3>1. ShareOf(evs, t) \in SUBSET (1..Len(evs))
      BY DEF ShareOf
    <3>2. IsFiniteSet(new) /\ Cardinality(new) = Cardinality(ShareOf(evs, t))
      BY <3>1, RowsCounted
    <3> HIDE DEF new
    <3> QED BY <3>2, FS_CardinalityType
  <2>2. IsFiniteSet(Written(t)) /\ Cardinality(Written(t)) \in Nat
    BY FS_Subset, FS_CardinalityType DEF Table, Written
  <2>3. Written(t)' = Written(t) \union new
    BY <1>1 DEF Written, NewRows, ShareOf, row, N
  <2>4. Written(t) \intersect new = {}
    BY <1>1 DEF Written, ShareOf, row, N
  <2> HIDE DEF new
  <2>5. Cardinality(Written(t) \union new) = Cardinality(Written(t)) + Cardinality(new) - Cardinality({})
    BY <2>1, <2>2, <2>4, FS_Union
  <2> QED BY <2>1, <2>2, <2>3, <2>5, FS_EmptySet
<1> QED
  BY <1>4, <1>5, <1>7, <1>8, <1>9, <1>10 DEF Table

(* The last row of a run that was inserted completely has the latest id. *)
LEMMA LatestAfterInsert ==
  ASSUME TypeOK, Table, NEW evs, NewRun(evs), evs # <<>>, rows' = WithRows(evs)
  PROVE  Latest(evs[Len(evs)].at)' /\ rows' # {}
<1> DEFINE N == Len(evs)
           ids == {r.id : r \in rows'}
<1>1. LatestId \in Nat /\ N \in Nat \ {0} /\ N \in 1..N
  BY LatestIdFacts DEF TypeOK, NewRun
<1>2. NewRow(evs, N) \in rows' /\ NewRow(evs, N).id = LatestId + N /\ NewRow(evs, N).ev = evs[N]
  BY <1>1, InsertedRows DEF NewRows
<1>3. ASSUME NEW r \in rows' PROVE r.id \in 1..(LatestId + N)
  <2>1. CASE r \in rows
    BY <1>1, <2>1, LatestIdFacts
  <2>2. CASE r \in NewRows(evs)
    <3>1. PICK i \in 1..N : r = NewRow(evs, i)
      BY <2>2 DEF NewRows
    <3> QED BY <1>1, <3>1, InsertedRows
  <2> QED BY <2>1, <2>2, InsertedRows
<1>4. ids \in SUBSET (1..(LatestId + N)) /\ ids # {} /\ LatestId + N \in ids
  BY <1>2, <1>3
<1>5. LatestId' = Max(ids) /\ rows' # {}
  BY <1>2 DEF LatestId
<1> HIDE DEF ids
<1>6. LatestId + N \in Nat
  BY <1>1
<1>7. Max(ids) \in ids /\ \A x \in ids : x <= Max(ids)
  BY <1>4, <1>6, MaxIsLargest
<1>8. Max(ids) = LatestId + N
  <2>1. Max(ids) \in 1..(LatestId + N) /\ LatestId + N <= Max(ids)
    BY <1>4, <1>7
  <2> QED BY <1>6, <2>1
<1> QED
  BY <1>2, <1>5, <1>8 DEF Latest

-----------------------------------------------------------------------------
(* Every step preserves the invariant *)

LEMMA InitIInv == Init => IInv
<1> SUFFICES ASSUME Init PROVE IInv
  OBVIOUS
<1> USE DEF Init, StoreInit
<1>1. TypeOK
  <2>1. StoreTypeOK
    BY DEF StoreTypeOK, Never
  <2>2. stopping \in BOOLEAN /\ last \in BOOLEAN /\ faults \in BOOLEAN
    OBVIOUS
  <2>3. queue \in Seq(Event) /\ Len(queue) <= QueueSize /\ batch \in Seq(Event) /\ Len(batch) <= QueueSize
    OBVIOUS
  <2>4. now \in Times /\ phase = "off" /\ worker = "off"
    BY DEF Times
  <2>5. /\ drops \in 0..MaxEvents /\ accepted \in 0..MaxEvents /\ crashes \in 0..MaxCrashes
        /\ atClose \in 0..accepted
        /\ \A x \in {inserted, lost, dropped, crashed} : x \subseteq 1..accepted
    OBVIOUS
  <2> QED BY <2>1, <2>2, <2>3, <2>4, <2>5 DEF TypeOK
<1>2. Suffix /\ Run /\ Front
  BY DEF Suffix, Run, Writing, Front, Settled, Numbers
<1>3. Drops
  BY FS_EmptySet DEF Drops
<1>4. Control
  BY DEF Control
<1>5. Table
  BY FS_EmptySet DEF Table, IdsFollowArrival
<1>6. ASSUME NEW t \in Times PROVE Cardinality(Written(t)) = 0 /\ rollups[t] = 0
  <2>1. Written(t) = {}
    BY DEF Written
  <2> QED BY <2>1, FS_EmptySet
<1>7. Counts
  BY <1>6 DEF Counts
<1>8. Agreement
  BY <1>6 DEF Agreement
<1> QED
  BY <1>1, <1>2, <1>3, <1>4, <1>5, <1>7, <1>8 DEF IInv, Core

(* The rows are left alone. *)
LEMMA SameTable == ASSUME Table, UNCHANGED <<rows, inserted>> PROVE Table'
  BY DEF Table, IdsFollowArrival

(* Steps of the lifespan and the clock. *)
LEMMA LifespanStep == ASSUME Core, Start \/ Close \/ CloseReturn \/ Tick PROVE Core'
<1> USE DEF Core
<1>1. UNCHANGED <<tables, queue, drops, last, batch, accepted, inserted, lost, dropped, crashed, faults, crashes>>
  BY DEF Start, Close, CloseReturn, Tick, memory, history
<1>2. UNCHANGED <<rows, rollups, lastIngest, retention>>
  BY <1>1 DEF tables
<1>3. TypeOK'
  <2>1. StoreTypeOK'
    BY <1>2 DEF TypeOK, StoreTypeOK
  <2>2. stopping' \in BOOLEAN
    BY Zenon DEF TypeOK, Start, Close, CloseReturn, Tick, memory
  <2>3. now' \in Times
    BY DEF TypeOK, Start, Close, CloseReturn, Tick, Times
  <2>4. atClose' \in 0..accepted'
    BY <1>1 DEF TypeOK, Start, Close, CloseReturn, Tick, history
  <2>5. /\ phase' \in {"off", "running", "closing", "closed"}
        /\ worker' \in {"off", "wait", "insert", "rollup", "setting", "finally", "exited"}
    BY DEF TypeOK, Start, Close, CloseReturn, Tick, memory
  <2> QED BY <1>1, <2>1, <2>2, <2>3, <2>4, <2>5 DEF TypeOK
<1>4. Suffix' /\ Front' /\ Drops'
  BY <1>1 DEF Suffix, Front, Settled, Numbers, Drops
<1>5. Run'
  BY <1>1 DEF Run, Writing, Numbers, Control, Start, Close, CloseReturn, Tick, memory
<1>6. Control'
  BY <1>1 DEF Control, Start, Close, CloseReturn, Tick, memory
<1>7. Table'
  BY <1>1, <1>2, SameTable
<1> QED
  BY <1>3, <1>4, <1>5, <1>6, <1>7

(* A set of event numbers is finite, and no larger than the largest. *)
LEMMA CountNumbers ==
  ASSUME NEW n \in Nat, NEW S \in SUBSET (1..n)
  PROVE  IsFiniteSet(S) /\ Cardinality(S) \in 0..n
<1>1. IsFiniteSet(1..n) /\ Cardinality(1..n) = n
  BY FS_Interval
<1>2. IsFiniteSet(S) /\ Cardinality(S) <= n
  <2> DEFINE T == 1..n
  <2>1. IsFiniteSet(T) /\ Cardinality(T) = n /\ S \in SUBSET T
    BY <1>1
  <2> HIDE DEF T
  <2>2. IsFiniteSet(S) /\ Cardinality(S) <= Cardinality(T)
    BY <2>1, FS_Subset
  <2> QED BY <2>1, <2>2
<1>3. Cardinality(S) \in Nat
  BY <1>2, FS_CardinalityType
<1> QED
  BY <1>2, <1>3

(* The queue after an ingest: the event last, the oldest gone if it was full. *)
LEMMA QueueAfterIngest ==
  ASSUME Core, NEW at \in Times, Ingest(at)
  PROVE  /\ queue' \in Seq(Event) /\ Len(queue') \in 1..QueueSize
         /\ accepted' = accepted + 1 /\ accepted' \in 0..MaxEvents
         /\ Len(queue') <= accepted'
         /\ \A i \in 1..Len(queue') : queue'[i].n = accepted' - Len(queue') + i
         /\ \/ /\ dropped' = dropped /\ drops' = drops
               /\ accepted' - Len(queue') = accepted - Len(queue)
            \/ /\ dropped' = dropped \union {accepted - Len(queue) + 1} /\ drops' = drops + 1
               /\ accepted' - Len(queue') = accepted - Len(queue) + 1
               /\ accepted - Len(queue) + 1 \in 1..accepted
<1> DEFINE full == Len(queue) >= QueueSize
           kept == IF full THEN Tail(queue) ELSE queue
           e == [n |-> accepted + 1, at |-> at]
<1>1. /\ accepted < MaxEvents /\ accepted' = accepted + 1 /\ queue' = Append(kept, e)
      /\ dropped' = IF full THEN dropped \union {Head(queue).n} ELSE dropped
      /\ drops' = IF full THEN drops + 1 ELSE drops
  BY DEF Ingest, Enqueue
<1>2. accepted \in Nat /\ e \in Event /\ e.n = accepted + 1
  BY DEF Core, TypeOK, Event
<1>3. queue \in Seq(Event) /\ Len(queue) \in 0..QueueSize
  BY DEF Core, TypeOK
<1>4. CASE full
  <2>1. queue # <<>> /\ kept = Tail(queue) /\ Len(queue) = QueueSize
    BY <1>3, <1>4
  <2>2. /\ kept \in Seq(Event) /\ Len(kept) = Len(queue) - 1
        /\ \A i \in 1..Len(kept) : kept[i] = queue[i + 1]
        /\ Head(queue) = queue[1]
    BY <1>3, <2>1
  <2>3. \A i \in 1..Len(queue) : queue[i].n = accepted - Len(queue) + i
    BY DEF Core, Suffix
  <2>4. Head(queue).n = accepted - Len(queue) + 1 /\ accepted - Len(queue) + 1 \in 1..accepted
    <3>1. queue[1].n = accepted - Len(queue) + 1 /\ queue[1] \in Event
      BY <1>3, <2>1, <2>3
    <3>2. accepted - Len(queue) \in Nat
      BY <1>2, <1>3 DEF Core, Suffix
    <3> QED BY <1>2, <1>3, <2>1, <2>2, <3>1, <3>2
  <2> HIDE DEF kept, e
  <2>5. /\ queue' \in Seq(Event) /\ Len(queue') = Len(kept) + 1 /\ queue'[Len(kept) + 1] = e
        /\ \A i \in 1..Len(kept) : queue'[i] = kept[i]
    BY <1>1, <1>2, <2>2
  <2>6. ASSUME NEW i \in 1..Len(queue') PROVE queue'[i].n = accepted' - Len(queue') + i
    <3>1. CASE i = Len(kept) + 1
      BY <3>1, <1>1, <1>2, <1>3, <2>2, <2>5
    <3>2. CASE i \in 1..Len(kept)
      <4>1. queue'[i] = queue[i + 1] /\ i + 1 \in 1..Len(queue)
        <5>1. queue'[i] = kept[i] /\ kept[i] = queue[i + 1]
          BY <2>2, <2>5, <3>2
        <5>2. Len(queue) \in Nat /\ Len(kept) = Len(queue) - 1
          BY <1>3, <2>2
        <5>3. i + 1 \in 1..Len(queue)
          BY <3>2, <5>2
        <5> QED BY <5>1, <5>3
      <4>2. queue'[i].n = accepted - Len(queue) + (i + 1)
        BY <2>3, <4>1
      <4> QED BY <1>1, <1>2, <1>3, <2>2, <2>5, <4>2
    <3> QED BY <1>3, <2>2, <2>5, <3>1, <3>2
  <2>7. dropped' = dropped \union {accepted - Len(queue) + 1} /\ drops' = drops + 1
    BY <1>1, <1>4, <2>4
  <2>8. Len(queue') = Len(queue) /\ accepted \in 0..MaxEvents /\ Len(queue) <= accepted
    BY <1>3, <2>2, <2>5 DEF Core, TypeOK, Suffix
  <2>9. Len(queue') \in 1..QueueSize /\ accepted' \in 0..MaxEvents /\ Len(queue') <= accepted'
    BY <1>1, <2>1, <2>8
  <2>10. accepted' - Len(queue') = accepted - Len(queue) + 1
    BY <1>1, <1>2, <1>3, <2>8
  <2> QED BY <1>1, <2>4, <2>5, <2>6, <2>7, <2>9, <2>10, Zenon
<1>5. CASE ~full
  <2>1. kept = queue /\ Len(queue) < QueueSize
    BY <1>3, <1>5
  <2> HIDE DEF kept, e
  <2>2. /\ queue' \in Seq(Event) /\ Len(queue') = Len(queue) + 1 /\ queue'[Len(queue) + 1] = e
        /\ \A i \in 1..Len(queue) : queue'[i] = queue[i]
    BY <1>1, <1>2, <1>3, <2>1
  <2>3. ASSUME NEW i \in 1..Len(queue') PROVE queue'[i].n = accepted' - Len(queue') + i
    <3>1. CASE i = Len(queue) + 1
      BY <3>1, <1>1, <1>2, <1>3, <2>2
    <3>2. CASE i \in 1..Len(queue)
      <4>1. queue'[i].n = accepted - Len(queue) + i
        BY <2>2, <3>2 DEF Core, Suffix
      <4> QED BY <1>1, <1>2, <1>3, <2>2, <4>1
    <3> QED BY <1>3, <2>2, <3>1, <3>2
  <2>4. dropped' = dropped /\ drops' = drops /\ accepted \in 0..MaxEvents /\ Len(queue) <= accepted
    BY <1>1, <1>5 DEF Core, TypeOK, Suffix
  <2> HIDE DEF full
  <2> QED BY <1>1, <1>2, <1>3, <2>1, <2>2, <2>3, <2>4
<1> QED
  BY <1>4, <1>5

(* What precedes the queue has been settled or is in the batch. *)
LEMMA FrontNumbers ==
  ASSUME Core
  PROVE  /\ accepted \in Nat /\ Len(queue) \in Nat /\ accepted - Len(queue) \in Nat
         /\ queue \in Seq(Event) /\ batch \in Seq(Event) /\ Len(batch) \in Nat
         /\ inserted \subseteq 1..(accepted - Len(queue))
         /\ dropped \subseteq 1..(accepted - Len(queue))
         /\ Numbers(batch) = {batch[i].n : i \in 1..Len(batch)}
         /\ Numbers(queue) = {queue[i].n : i \in 1..Len(queue)}
<1>1. accepted \in Nat /\ queue \in Seq(Event) /\ batch \in Seq(Event) /\ Len(queue) <= accepted
  BY DEF Core, TypeOK, Suffix
<1>2. DOMAIN queue = 1..Len(queue) /\ DOMAIN batch = 1..Len(batch) /\ Len(queue) \in Nat /\ Len(batch) \in Nat
  BY <1>1
<1>3. Settled \subseteq 1..(accepted - Len(queue))
  BY DEF Core, Front
<1> QED
  BY <1>1, <1>2, <1>3 DEF Settled, Numbers

(* The queue holds the newest events. *)
LEMMA QueueNumbers ==
  ASSUME Core
  PROVE  Numbers(queue) = (accepted - Len(queue) + 1)..accepted
<1> DEFINE F == accepted - Len(queue)
<1>1. /\ accepted \in Nat /\ Len(queue) \in Nat /\ F \in Nat /\ accepted = F + Len(queue)
      /\ Numbers(queue) = {queue[i].n : i \in 1..Len(queue)}
      /\ \A i \in 1..Len(queue) : queue[i].n = F + i
  BY FrontNumbers DEF Core, Suffix
<1> HIDE DEF F
<1>2. ASSUME NEW x \in (F + 1)..accepted PROVE x \in Numbers(queue)
  <2>1. x - F \in 1..Len(queue) /\ F + (x - F) = x
    BY <1>1
  <2>2. queue[x - F].n = x
    BY <1>1, <2>1
  <2> QED BY <1>1, <2>1, <2>2
<1>3. ASSUME NEW x \in Numbers(queue) PROVE x \in (F + 1)..accepted
  <2>1. PICK i \in 1..Len(queue) : x = F + i
    BY <1>1
  <2> QED BY <1>1, <2>1
<1> QED
  BY <1>2, <1>3 DEF F

LEMMA IngestStep == ASSUME Core, NEW at \in Times, Ingest(at) PROVE Core'
<1> DEFINE F == accepted - Len(queue)
           G == accepted' - Len(queue')
<1>1. /\ phase = "running"
      /\ UNCHANGED <<rows, rollups, lastIngest, retention, now, phase, stopping, worker, last, batch,
                     inserted, lost, crashed, faults, crashes, atClose>>
  BY DEF Ingest, tables
<1>2. /\ queue' \in Seq(Event) /\ Len(queue') \in 1..QueueSize
      /\ accepted' = accepted + 1 /\ accepted' \in 0..MaxEvents /\ Len(queue') <= accepted'
      /\ \A i \in 1..Len(queue') : queue'[i].n = accepted' - Len(queue') + i
  BY QueueAfterIngest
<1>3. \/ dropped' = dropped /\ drops' = drops /\ G = F
      \/ dropped' = dropped \union {F + 1} /\ drops' = drops + 1 /\ G = F + 1 /\ F + 1 \in 1..accepted
  BY QueueAfterIngest
<1>4. F \in Nat /\ accepted \in Nat /\ dropped \subseteq 1..F /\ inserted \subseteq 1..F
  BY FrontNumbers
<1> HIDE DEF F, G
<1>5. 1..F \subseteq 1..G /\ (G = F + 1 => 1..G = 1..F \union {F + 1})
  BY <1>3, <1>4
<1>6. dropped' \subseteq 1..accepted'
  <2>1. dropped \subseteq 1..accepted
    BY DEF Core, TypeOK
  <2>2. 1..accepted \subseteq 1..accepted'
    BY <1>2, <1>4
  <2>3. dropped' \subseteq dropped \union 1..accepted
    BY <1>3
  <2> QED BY <2>1, <2>2, <2>3
<1>7. Drops' /\ drops' \in 0..MaxEvents
  <2>1. Cardinality(dropped) \in Nat /\ drops \in Nat /\ drops <= Cardinality(dropped)
    <3>1. IsFiniteSet(dropped) /\ Cardinality(dropped) \in 0..F
      BY <1>4, CountNumbers
    <3> QED BY <3>1, <1>4 DEF Core, Drops, TypeOK
  <2>2. accepted' \in Nat /\ dropped' \in SUBSET (1..accepted')
    BY <1>2, <1>6
  <2>3. Cardinality(dropped') \in 0..accepted'
    BY <2>2, CountNumbers
  <2>4. \/ drops' = drops /\ dropped' = dropped
        \/ drops' = drops + 1 /\ Cardinality(dropped') = Cardinality(dropped) + 1
    <3>1. IsFiniteSet(dropped) /\ F + 1 \notin dropped
      BY <1>4, CountNumbers
    <3>2. Cardinality(dropped \union {F + 1}) = Cardinality(dropped) + 1
      BY <3>1, FS_AddElement
    <3> QED BY <1>3, <3>2
  <2>5. drops' \in Nat /\ drops' <= Cardinality(dropped')
    BY <2>1, <2>4
  <2>6. crashes' = 0 => drops' = Cardinality(dropped')
    BY <1>1, <2>1, <2>4 DEF Core, Drops
  <2>7. drops' \in 0..MaxEvents
    BY <1>2, <2>2, <2>3, <2>5
  <2> QED BY <2>5, <2>6, <2>7 DEF Drops
<1>8. TypeOK'
  <2>1. StoreTypeOK'
    BY <1>1 DEF Core, TypeOK, StoreTypeOK
  <2>2. atClose' \in 0..accepted' /\ \A x \in {inserted', lost', dropped', crashed'} : x \subseteq 1..accepted'
    BY <1>1, <1>2, <1>4, <1>6 DEF Core, TypeOK
  <2> QED BY <1>1, <1>2, <1>7, <2>1, <2>2 DEF Core, TypeOK
<1>9. Suffix'
  BY <1>2 DEF Suffix
<1>10. Run'
  BY <1>1, <1>5 DEF Core, Run, Writing, Numbers, F, G
<1>11. Front'
  <2>1. Numbers(batch) \union Settled = 1..F
    BY DEF Core, Front, F
  <2>2. Numbers(batch') = Numbers(batch)
    BY <1>1 DEF Numbers
  <2>3. Numbers(batch') \union Settled' = 1..G
    BY <1>1, <1>3, <1>5, <2>1, <2>2 DEF Settled
  <2>4. F + 1 \notin Numbers(batch) \union Settled
    BY <1>4, <2>1
  <2> QED BY <1>1, <1>3, <2>2, <2>3, <2>4 DEF Core, Front, Settled, G
<1>12. Control'
  BY <1>1 DEF Core, Control
<1>13. Table'
  BY <1>1, SameTable DEF Core
<1> QED
  BY <1>7, <1>8, <1>9, <1>10, <1>11, <1>12, <1>13 DEF Core

(* All that is queued becomes the batch, or there is nothing to write. *)
LEMMA DrainStep == ASSUME Core, DrainTick \/ DrainFinally PROVE Core'
<1>1. /\ worker \in {"wait", "finally"} /\ batch' = queue /\ queue' = <<>>
      /\ worker' = "insert" <=> queue # <<>>
      /\ queue = <<>> => worker' \in {"wait", "finally", "exited"} /\ stopping
      /\ last' = last \/ (last' = TRUE /\ worker = "finally")
      /\ UNCHANGED <<rows, rollups, lastIngest, retention, now, phase, stopping, drops, accepted, inserted,
                     lost, dropped, crashed, faults, crashes, atClose>>
  <2>1. CASE DrainTick
    <3>1. queue = <<>> => stopping /\ worker' \in {"finally", "exited"}
      BY <2>1 DEF DrainTick, AfterPersist
    <3>2. queue # <<>> => worker' = "insert"
      BY <2>1 DEF DrainTick
    <3> QED BY <2>1, <3>1, <3>2 DEF DrainTick, tables, history
  <2>2. CASE DrainFinally
    <3>1. stopping
      BY <2>2 DEF DrainFinally, Core, Control
    <3>2. worker' = IF queue = <<>> THEN "exited" ELSE "insert"
      BY <2>2 DEF DrainFinally
    <3>3. worker = "finally" /\ last' = TRUE
      BY <2>2, Zenon DEF DrainFinally
    <3>4. queue # <<>> <=> worker' = "insert"
      BY <3>2
    <3>5. /\ batch' = queue /\ queue' = <<>>
          /\ UNCHANGED <<rows, rollups, lastIngest, retention, now, phase, stopping, drops, accepted,
                         inserted, lost, dropped, crashed, faults, crashes, atClose>>
      BY <2>2 DEF DrainFinally, tables, history
    <3> QED BY <3>1, <3>2, <3>3, <3>4, <3>5, Zenon
  <2> QED BY <2>1, <2>2
<1>2. batch = <<>> /\ Numbers(batch) = {}
  BY <1>1, FrontNumbers DEF Core, Run, Writing
<1>3. TypeOK'
  <2>1. StoreTypeOK'
    BY <1>1 DEF Core, TypeOK, StoreTypeOK
  <2>2. last' \in BOOLEAN
    BY <1>1, Zenon DEF Core, TypeOK
  <2>3. queue' \in Seq(Event) /\ Len(queue') <= QueueSize /\ batch' \in Seq(Event) /\ Len(batch') <= QueueSize
    BY <1>1 DEF Core, TypeOK
  <2>4. worker' \in {"off", "wait", "insert", "rollup", "setting", "finally", "exited"}
    BY <1>1
  <2> QED BY <1>1, <2>1, <2>2, <2>3, <2>4 DEF Core, TypeOK
<1>4. Suffix'
  BY <1>1, FrontNumbers DEF Suffix
<1>5. Len(queue') = 0 /\ accepted' - Len(queue') = accepted /\ Len(batch') = Len(queue)
  BY <1>1, FrontNumbers
<1>6. \A i \in 1..Len(queue) : queue[i].n = accepted - Len(queue) + i
  BY DEF Core, Suffix
<1>7. Run'
  <2>1. batch' # <<>> <=> Writing'
    BY <1>1 DEF Writing
  <2>2. ASSUME NEW i \in 1..Len(queue)
        PROVE  /\ queue[i].n = queue[1].n + i - 1 /\ queue[i].n \in 1..accepted
               /\ \A x \in inserted : x < queue[i].n
    <3>1. queue[i].n = accepted - Len(queue) + i /\ queue[1].n = accepted - Len(queue) + 1
      BY <1>6, FrontNumbers
    <3> QED BY <3>1, FrontNumbers
  <2>3. worker' \notin {"rollup", "setting"}
    BY <1>1
  <2> QED BY <1>1, <1>5, <2>1, <2>2, <2>3 DEF Run
<1>8. Numbers(queue) = (accepted - Len(queue) + 1)..accepted
  BY QueueNumbers
<1>9. Front'
  <2>1. Settled = 1..(accepted - Len(queue)) /\ Settled' = Settled /\ Numbers(batch') = Numbers(queue)
    BY <1>1, <1>2 DEF Core, Front, Settled, Numbers
  <2>2. Numbers(queue) \union Settled = 1..accepted /\ Numbers(queue) \intersect Settled = {}
    BY <1>8, <2>1, FrontNumbers
  <2> QED BY <1>1, <1>5, <2>1, <2>2 DEF Core, Front, Settled
<1>10. Drops'
  BY <1>1 DEF Core, Drops
<1>11. Control'
  BY <1>1 DEF Core, Control
<1>12. Table'
  BY <1>1, SameTable DEF Core
<1> QED
  BY <1>3, <1>4, <1>7, <1>9, <1>10, <1>11, <1>12 DEF Core

(* The rows written of a batch, all or the first few, are a new run. *)
LEMMA PrefixIsNewRun ==
  ASSUME Core, worker = "insert", NEW k \in 0..Len(batch)
  PROVE  /\ NewRun(SubSeq(batch, 1, k)) /\ Numbers(SubSeq(batch, 1, k)) \subseteq Numbers(batch)
         /\ NewRun(batch)
<1> DEFINE evs == SubSeq(batch, 1, k)
<1>1. batch \in Seq(Event) /\ Len(batch) \in Nat /\ Numbers(batch) = {batch[i].n : i \in 1..Len(batch)}
  BY FrontNumbers
<1>2. \A i \in 1..Len(batch) : /\ batch[i].n = batch[1].n + i - 1
                               /\ batch[i].n \in Nat \ {0}
                               /\ \A x \in inserted : x < batch[i].n
  BY FrontNumbers DEF Core, Run
<1>3. NewRun(batch)
  BY <1>1, <1>2 DEF NewRun
<1>4. evs \in Seq(Event) /\ Len(evs) = k /\ \A i \in 1..k : evs[i] = batch[i]
  BY <1>1
<1> HIDE DEF evs
<1>5. NewRun(evs)
  <2>1. \A i \in 1..k : i \in 1..Len(batch) /\ 1 \in 1..k
    BY <1>1
  <2> QED BY <1>2, <1>4, <2>1 DEF NewRun
<1>6. Numbers(evs) \subseteq Numbers(batch)
  <2>1. DOMAIN evs = 1..k /\ 1..k \subseteq 1..Len(batch)
    BY <1>1, <1>4
  <2> QED BY <1>1, <1>4, <2>1 DEF Numbers
<1> QED
  BY <1>3, <1>5, <1>6 DEF evs

(* Where _run goes on when a batch is done with. *)
LEMMA AfterPersistFacts ==
  ASSUME Core
  PROVE  /\ AfterPersist \in {"wait", "finally", "exited"}
         /\ AfterPersist \in {"finally", "exited"} => stopping
         /\ AfterPersist = "exited" => queue = <<>>
  BY DEF AfterPersist, Core, Control

(* A batch that is done with leaves its events settled. *)
LEMMA BatchDoneStep ==
  ASSUME Core, Writing, batch' = <<>>, worker' = AfterPersist,
         UNCHANGED <<queue, accepted, phase, stopping, last, dropped, crashed, drops, crashes>>,
         inserted \subseteq inserted', inserted' \subseteq inserted \union Numbers(batch),
         lost \subseteq lost', lost' \subseteq lost \union Numbers(batch),
         Numbers(batch) \subseteq inserted' \union lost'
  PROVE  Suffix' /\ Run' /\ Front' /\ Drops' /\ Control'
<1>1. worker' \in {"wait", "finally", "exited"} /\ Numbers(batch') = {} /\ Len(batch') = 0
  BY AfterPersistFacts DEF Numbers
<1>2. Suffix' /\ Drops'
  BY DEF Core, Suffix, Drops
<1>3. Run'
  BY <1>1 DEF Run, Writing
<1>4. Front'
  BY <1>1 DEF Core, Front, Settled
<1>5. Control'
  <2>1. worker # "off" /\ phase # "off"
    BY DEF Core, Control, Writing
  <2>2. phase = "closed" => worker = "exited"
    BY DEF Core, Control
  <2> QED BY <1>1, <2>1, <2>2, AfterPersistFacts DEF Core, Control, Writing
<1> QED
  BY <1>2, <1>3, <1>4, <1>5

(* Numbers in a batch have been accepted. *)
LEMMA BatchNumbers == ASSUME Core PROVE Numbers(batch) \subseteq 1..accepted
<1>1. Numbers(batch) \subseteq 1..(accepted - Len(queue))
  BY DEF Core, Front
<1>2. 1..(accepted - Len(queue)) \subseteq 1..accepted
  BY FrontNumbers
<1> QED
  BY <1>1, <1>2

LEMMA InsertFailsStep == ASSUME Core, NEW k \in 0..Len(batch), InsertFails(k) PROVE Core'
<1> DEFINE evs == SubSeq(batch, 1, k)
<1>1. /\ worker = "insert" /\ rows' = WithRows(evs) /\ inserted' = inserted \union Numbers(evs)
      /\ lost' = lost \union Numbers(batch) /\ worker' = AfterPersist /\ batch' = <<>>
      /\ UNCHANGED <<rollups, lastIngest, retention, now, phase, stopping, queue, drops, last,
                     accepted, dropped, crashed, crashes, atClose>>
  BY DEF InsertFails
<1>2. faults' = TRUE
  BY DEF InsertFails
<1>3. NewRun(evs) /\ Numbers(evs) \subseteq Numbers(batch)
  BY <1>1, PrefixIsNewRun
<1> HIDE DEF evs
<1>4. /\ Table' /\ rows' \subseteq [id : Nat \ {0}, ev : Event]
      /\ \A t \in Times : Cardinality(Written(t))' = Cardinality(Written(t)) + Cardinality(ShareOf(evs, t))
  BY <1>1, <1>3, TableAfterInsert DEF Core
<1>5. Suffix' /\ Run' /\ Front' /\ Drops' /\ Control'
  BY <1>1, <1>3, BatchDoneStep DEF Writing
<1>6. worker' \in {"wait", "finally", "exited"}
  BY <1>1, AfterPersistFacts
<1>7. TypeOK'
  <2>1. StoreTypeOK'
    BY <1>1, <1>4 DEF Core, TypeOK, StoreTypeOK
  <2>2. inserted' \subseteq 1..accepted /\ lost' \subseteq 1..accepted
    BY <1>1, <1>3, BatchNumbers DEF Core, TypeOK
  <2>3. faults' \in BOOLEAN
    BY <1>2, Zenon
  <2> QED BY <1>1, <1>6, <2>1, <2>2, <2>3 DEF Core, TypeOK
<1> QED
  BY <1>4, <1>5, <1>7 DEF Core

(* The numbers the counting argument is about. *)
LEMMA CountsAreNumbers ==
  ASSUME Core, NEW t \in Times
  PROVE  /\ Cardinality(Written(t)) \in Nat /\ rollups[t] \in Nat
         /\ IsFiniteSet(Share(t)) /\ Cardinality(Share(t)) \in Nat
<1>1. IsFiniteSet(Written(t))
  BY FS_Subset DEF Core, Table, Written
<1>2. Cardinality(Written(t)) \in Nat
  BY <1>1, FS_CardinalityType
<1>3. rollups[t] \in Nat
  BY DEF Core, TypeOK, StoreTypeOK
<1>4. Len(batch) \in Nat /\ Share(t) \in SUBSET (1..Len(batch))
  BY FrontNumbers DEF Share
<1>5. IsFiniteSet(Share(t)) /\ Cardinality(Share(t)) \in 0..Len(batch)
  BY <1>4, CountNumbers
<1> QED
  BY <1>2, <1>3, <1>4, <1>5

LEMMA InsertStep == ASSUME Core, Insert PROVE Core'
<1>1. /\ worker = "insert" /\ rows' = WithRows(batch) /\ inserted' = inserted \union Numbers(batch)
      /\ worker' = "rollup"
      /\ UNCHANGED <<rollups, lastIngest, retention, now, phase, stopping, queue, drops, last, batch,
                     accepted, lost, dropped, crashed, faults, crashes, atClose>>
  BY DEF Insert
<1>2. NewRun(batch) /\ batch # <<>>
  <2>1. 0 \in 0..Len(batch)
    BY FrontNumbers
  <2>2. NewRun(batch)
    BY <1>1, <2>1, PrefixIsNewRun
  <2> QED BY <1>1, <2>2 DEF Core, Run, Writing
<1>3. /\ Table' /\ rows' \subseteq [id : Nat \ {0}, ev : Event]
      /\ \A t \in Times : Cardinality(Written(t))' = Cardinality(Written(t)) + Cardinality(Share(t))
  <2>1. \A t : ShareOf(batch, t) = Share(t)
    BY DEF ShareOf, Share
  <2> QED BY <1>1, <1>2, <2>1, TableAfterInsert DEF Core
<1>4. TypeOK'
  <2>1. StoreTypeOK'
    BY <1>1, <1>3 DEF Core, TypeOK, StoreTypeOK
  <2>2. inserted' \subseteq 1..accepted
    BY <1>1, BatchNumbers DEF Core, TypeOK
  <2> QED BY <1>1, <2>1, <2>2 DEF Core, TypeOK
<1>5. Suffix' /\ Drops'
  BY <1>1 DEF Core, Suffix, Drops
<1>6. Numbers(batch)' = Numbers(batch)
  BY <1>1 DEF Numbers
<1>7. Run'
  BY <1>1, <1>6 DEF Core, Run, Writing
<1>8. Front'
  BY <1>1, <1>6 DEF Core, Front, Settled
<1>9. Control'
  BY <1>1 DEF Core, Control
<1> QED
  BY <1>3, <1>4, <1>5, <1>7, <1>8, <1>9 DEF Core

(* insert_events puts newer events at the end of the table. *)
LEMMA InsertAddsNewer ==
  ASSUME Core, Insert
  PROVE  /\ rows \subseteq rows'
         /\ \A r \in rows' \ rows : /\ \A s \in rows : s.id < r.id
                                   /\ \A x \in inserted : x < r.ev.n
<1>1. worker = "insert" /\ rows' = WithRows(batch) /\ 0 \in 0..Len(batch)
  BY FrontNumbers DEF Insert
<1>2. NewRun(batch)
  BY <1>1, PrefixIsNewRun
<1>3. /\ rows' = rows \union NewRows(batch)
      /\ \A i \in 1..Len(batch) : /\ NewRow(batch, i).id = LatestId + i
                                 /\ NewRow(batch, i).ev = batch[i]
                                 /\ \A s \in rows : s.id < LatestId + i
  BY <1>1, <1>2, InsertedRows DEF Core
<1>4. \A r \in rows' \ rows : \E i \in 1..Len(batch) : r = NewRow(batch, i)
  BY <1>3 DEF NewRows
<1> QED
  BY <1>2, <1>3, <1>4 DEF NewRun

(* upsert_rollups, whole or cut short, adds no more than the batch's share. *)
LEMMA RollupsAfter ==
  ASSUME Core, NEW k \in 0..Len(batch), NEW t \in Times
  PROVE  LET new == WithRollups(batch, Buckets(k))
         IN  /\ new \in [Times -> Nat]
             /\ new[t] \in Nat /\ new[t] <= rollups[t] + Cardinality(Share(t))
             /\ Buckets(k) = Buckets(Len(batch)) => new[t] = rollups[t] + Cardinality(Share(t))
<1> DEFINE add(u) == IF u \in Buckets(k) THEN Cardinality(Share(u)) ELSE 0
           new == WithRollups(batch, Buckets(k))
<1>1. \A u \in Times : add(u) \in Nat /\ rollups[u] \in Nat
  BY CountsAreNumbers
<1>2. new = [u \in Times |-> rollups[u] + add(u)]
  <2>1. DOMAIN batch = 1..Len(batch)
    BY FrontNumbers
  <2> QED BY <2>1 DEF WithRollups, Share
<1>3. Buckets(k) = Buckets(Len(batch)) => add(t) = Cardinality(Share(t))
  <2>1. CASE t \in Buckets(k)
    BY <2>1
  <2>2. CASE t \notin Buckets(Len(batch))
    <3>1. Share(t) = {}
      BY <2>2 DEF Share, Buckets
    <3> QED BY <2>2, <3>1, FS_EmptySet
  <2> QED BY <2>1, <2>2
<1>4. add(t) <= Cardinality(Share(t))
  BY CountsAreNumbers
<1> HIDE DEF add, new
<1>5. new \in [Times -> Nat] /\ new[t] = rollups[t] + add(t)
  BY <1>1, <1>2
<1>6. new[t] \in Nat /\ new[t] <= rollups[t] + Cardinality(Share(t))
  BY <1>1, <1>4, <1>5, CountsAreNumbers
<1>7. Buckets(k) = Buckets(Len(batch)) => new[t] = rollups[t] + Cardinality(Share(t))
  BY <1>3, <1>5
<1> QED
  BY <1>5, <1>6, <1>7 DEF new

LEMMA RollupStep == ASSUME Core, NEW k \in 0..Len(batch), Rollup(k) PROVE Core'
<1>1. /\ worker = "rollup" /\ rollups' = WithRollups(batch, Buckets(k)) /\ worker' = "setting"
      /\ UNCHANGED <<rows, lastIngest, retention, now, phase, stopping, queue, drops, last, batch,
                     accepted, inserted, lost, dropped, crashed, crashes, atClose>>
  BY DEF Rollup
<1>2. faults' = (faults \/ Buckets(k) # Buckets(Len(batch)))
  BY Zenon DEF Rollup
<1>3. faults' \in BOOLEAN
  BY <1>2, Zenon
<1>5. TypeOK'
  <2>1. 1 \in Times
    BY DEF Times
  <2>2. rollups' \in [Times -> Nat]
    BY <1>1, <2>1, RollupsAfter
  <2>3. StoreTypeOK'
    BY <1>1, <2>2 DEF Core, TypeOK, StoreTypeOK
  <2> QED BY <1>1, <1>3, <2>3 DEF Core, TypeOK
<1>6. Suffix' /\ Drops'
  BY <1>1 DEF Core, Suffix, Drops
<1>7. Numbers(batch)' = Numbers(batch)
  BY <1>1 DEF Numbers
<1>8. Run'
  BY <1>1, <1>7 DEF Core, Run, Writing
<1>9. Front'
  BY <1>1, <1>7 DEF Core, Front, Settled
<1>10. Control'
  BY <1>1 DEF Core, Control
<1>11. Table'
  BY <1>1 DEF Core, Table, IdsFollowArrival
<1> QED
  BY <1>5, <1>6, <1>8, <1>9, <1>10, <1>11 DEF Core

(* set_setting(last_ingest_at), done or failed, finishes the batch. *)
LEMMA SettingStep == ASSUME Core, Setting \/ SettingFails PROVE Core'
<1>1. /\ worker = "setting" /\ worker' = AfterPersist /\ batch' = <<>>
      /\ UNCHANGED <<rows, rollups, retention, now, phase, stopping, queue, drops, last,
                     accepted, inserted, lost, dropped, crashed, crashes, atClose>>
  BY DEF Setting, SettingFails, tables, history
<1>2. \/ lastIngest' = batch[Len(batch)].at /\ faults' = faults
      \/ lastIngest' = lastIngest /\ faults' = TRUE
  BY Zenon DEF Setting, SettingFails, tables, history
<1>3. batch # <<>> /\ Numbers(batch) \subseteq inserted
  BY <1>1 DEF Core, Run, Writing
<1>4. Suffix' /\ Run' /\ Front' /\ Drops' /\ Control'
  BY <1>1, <1>3, BatchDoneStep DEF Writing
<1>5. worker' \in {"wait", "finally", "exited"}
  BY <1>1, AfterPersistFacts
<1>6. TypeOK'
  <2>1. batch[Len(batch)].at \in Times
    <3>1. Len(batch) \in 1..Len(batch) /\ batch \in Seq(Event)
      BY <1>3, FrontNumbers
    <3>2. batch[Len(batch)] \in Event
      BY <3>1
    <3> QED BY <3>2 DEF Event
  <2>2. StoreTypeOK'
    BY <1>1, <1>2, <2>1 DEF Core, TypeOK, StoreTypeOK
  <2>3. faults' \in BOOLEAN
    BY <1>2, Zenon DEF Core, TypeOK
  <2> QED BY <1>1, <1>5, <2>2, <2>3 DEF Core, TypeOK
<1>7. Table'
  BY <1>1, SameTable DEF Core
<1> QED
  BY <1>4, <1>6, <1>7 DEF Core

(* A kill: the table keeps a prefix of a batch that was being written, and  *)
(* what was in memory alone is gone.                                        *)
LEMMA CrashStep == ASSUME Core, NEW k \in 0..Len(batch), Crash(k) PROVE Core'
<1> DEFINE evs == SubSeq(batch, 1, k)
<1>1. /\ phase \in {"running", "closing"} /\ crashes < MaxCrashes /\ crashes' = crashes + 1
      /\ phase' = "off" /\ queue' = <<>> /\ drops' = 0 /\ worker' = "off" /\ batch' = <<>>
      /\ UNCHANGED <<lastIngest, retention, now, accepted, lost, dropped, atClose>>
  BY DEF Crash
<1>2. faults' = TRUE /\ stopping' = FALSE /\ last' = FALSE
  BY Zenon DEF Crash
<1>3. /\ worker = "insert" => rows' = WithRows(evs) /\ inserted' = inserted \union Numbers(evs)
      /\ worker # "insert" => rows' = rows /\ inserted' = inserted
  BY DEF Crash
<1>4. /\ worker = "rollup" => rollups' = WithRollups(batch, Buckets(k))
      /\ worker # "rollup" => rollups' = rollups
  BY DEF Crash
<1>5. crashed' = crashed \union (Numbers(queue) \union (Numbers(batch) \ inserted'))
  BY DEF Crash
<1>6. worker = "insert" => NewRun(evs) /\ Numbers(evs) \subseteq Numbers(batch)
  BY PrefixIsNewRun
<1> HIDE DEF evs
<1>7. Table' /\ rows' \subseteq [id : Nat \ {0}, ev : Event]
  <2>1. CASE worker = "insert"
    BY <1>3, <1>6, <2>1, TableAfterInsert DEF Core
  <2>2. CASE worker # "insert"
    BY <1>3, <2>2, SameTable DEF Core, TypeOK, StoreTypeOK
  <2> QED BY <2>1, <2>2
<1>8. inserted \subseteq inserted' /\ inserted' \subseteq inserted \union Numbers(batch)
  BY <1>3, <1>6
<1>9. /\ Numbers(batch) \union Settled = 1..(accepted - Len(queue))
      /\ Numbers(queue) = (accepted - Len(queue) + 1)..accepted
  BY QueueNumbers DEF Core, Front
<1>10. /\ 1..accepted = Numbers(queue) \union (Numbers(batch) \union Settled)
       /\ Numbers(queue) \intersect (Numbers(batch) \union Settled) = {}
  BY <1>9, FrontNumbers
<1>11. Front'
  <2>1. Numbers(batch') = {} /\ accepted' - Len(queue') = accepted
    BY <1>1, FrontNumbers DEF Numbers
  <2>2. Settled' = 1..accepted
    BY <1>1, <1>5, <1>8, <1>10 DEF Settled
  <2>3. crashed' \intersect (inserted' \union lost') = {}
    BY <1>1, <1>5, <1>8, <1>10 DEF Core, Front, Settled
  <2>4. dropped' \intersect (inserted' \union lost' \union crashed') = {}
    BY <1>1, <1>5, <1>8, <1>10 DEF Core, Front, Settled
  <2> QED BY <2>1, <2>2, <2>3, <2>4 DEF Front
<1>12. Suffix' /\ Run'
  BY <1>1, FrontNumbers DEF Suffix, Run, Writing
<1>13. Drops'
  <2>1. dropped \in SUBSET (1..accepted) /\ accepted \in Nat /\ crashes \in Nat
    BY DEF Core, TypeOK
  <2>2. Cardinality(dropped) \in 0..accepted
    BY <2>1, CountNumbers
  <2> QED BY <1>1, <2>1, <2>2 DEF Drops
<1>14. Control'
  BY <1>1, <1>2 DEF Control
<1>15. TypeOK'
  <2>1. rollups' \in [Times -> Nat]
    <3>1. 1 \in Times
      BY DEF Times
    <3>2. worker = "rollup" => rollups' \in [Times -> Nat]
      BY <1>4, <3>1, RollupsAfter
    <3> QED BY <1>4, <3>2 DEF Core, TypeOK, StoreTypeOK
  <2>2. StoreTypeOK'
    BY <1>1, <1>7, <2>1 DEF Core, TypeOK, StoreTypeOK
  <2>3. inserted' \subseteq 1..accepted /\ crashed' \subseteq 1..accepted
    BY <1>5, <1>8, <1>10 DEF Settled
  <2>4. stopping' \in BOOLEAN /\ last' \in BOOLEAN /\ faults' \in BOOLEAN
    BY <1>2, Zenon
  <2>5. /\ queue' \in Seq(Event) /\ Len(queue') <= QueueSize
        /\ batch' \in Seq(Event) /\ Len(batch') <= QueueSize
    BY <1>1
  <2>6. crashes' \in 0..MaxCrashes /\ drops' \in 0..MaxEvents
    BY <1>1 DEF Core, TypeOK
  <2> QED BY <1>1, <2>2, <2>3, <2>4, <2>5, <2>6 DEF Core, TypeOK
<1> QED
  BY <1>7, <1>11, <1>12, <1>13, <1>14, <1>15 DEF Core

(* Nothing the invariant is about changes. *)
LEMMA SameCore ==
  ASSUME Core,
         UNCHANGED <<rows, rollups, lastIngest, retention, now, phase, stopping, queue, drops, worker, last,
                     batch, accepted, inserted, lost, dropped, crashed, faults, crashes, atClose>>
  PROVE  Core'
<1>1. TypeOK'
  BY DEF Core, TypeOK, StoreTypeOK
<1>2. Suffix' /\ Run' /\ Front'
  BY DEF Core, Suffix, Run, Front, Writing, Settled, Numbers
<1>3. Drops' /\ Control'
  BY DEF Core, Drops, Control
<1>4. Table'
  BY SameTable DEF Core
<1> QED
  BY <1>1, <1>2, <1>3, <1>4 DEF Core

LEMMA StepCore == Core /\ [Next]_vars => Core'
<1> SUFFICES ASSUME Core, [Next]_vars PROVE Core'
  OBVIOUS
<1>1. CASE Start \/ Close \/ CloseReturn \/ Tick
  BY <1>1, LifespanStep
<1>2. ASSUME NEW at \in Times, Ingest(at) PROVE Core'
  BY <1>2, IngestStep
<1>3. CASE PersistOk
  <2>1. Len(batch) \in 0..Len(batch)
    BY FrontNumbers
  <2> QED
    BY <1>1, <1>3, <2>1, DrainStep, InsertStep, RollupStep, SettingStep DEF PersistOk
<1>4. CASE PersistFails
  <2>1. \A k \in 0..(Len(batch) - 1) : k \in 0..Len(batch)
    BY FrontNumbers
  <2> QED
    BY <1>4, <2>1, InsertFailsStep, RollupStep, SettingStep DEF PersistFails
<1>5. ASSUME NEW k \in 0..Len(batch), Crash(k) PROVE Core'
  BY <1>5, CrashStep
<1>6. CASE UNCHANGED vars
  BY <1>6, SameCore DEF vars, tables, memory, history
<1> QED
  BY <1>1, <1>2, <1>3, <1>4, <1>5, <1>6 DEF Next, Persist, Finished

-----------------------------------------------------------------------------
(* Every step preserves the counts and the agreement of the tables *)

(* The tables are left alone, and so is the batch that is being counted. *)
LEMMA QuietCounts ==
  ASSUME IInv, UNCHANGED <<rows, rollups, lastIngest, faults>>,
         \/ worker \notin {"rollup", "setting"} /\ worker' \notin {"rollup", "setting"}
         \/ UNCHANGED <<worker, batch>>
  PROVE  Counts' /\ Agreement'
<1>1. Counts'
  BY DEF IInv, Counts, Written, Share
<1>2. Agreement'
  BY DEF IInv, Agreement, Written, Share, Latest, LatestId
<1> QED
  BY <1>1, <1>2

LEMMA LifespanCounts == ASSUME IInv, Start \/ Close \/ CloseReturn \/ Tick PROVE Counts' /\ Agreement'
<1>1. UNCHANGED <<rows, rollups, lastIngest, faults, batch>>
  BY DEF Start, Close, CloseReturn, Tick, tables, memory, history
<1>2. worker' = worker \/ (worker = "off" /\ worker' = "wait")
  BY DEF IInv, Core, Control, Start, Close, CloseReturn, Tick, memory
<1> QED
  BY <1>1, <1>2, QuietCounts

LEMMA IngestCounts == ASSUME IInv, NEW at \in Times, Ingest(at) PROVE Counts' /\ Agreement'
<1>1. UNCHANGED <<rows, rollups, lastIngest, faults, worker, batch>>
  BY DEF Ingest, tables
<1> QED
  BY <1>1, QuietCounts

LEMMA DrainCounts == ASSUME IInv, DrainTick \/ DrainFinally PROVE Counts' /\ Agreement'
<1>1. UNCHANGED <<rows, rollups, lastIngest, faults>>
  BY DEF DrainTick, DrainFinally, tables, history
<1>2. worker \notin {"rollup", "setting"} /\ worker' \notin {"rollup", "setting"}
  BY DEF DrainTick, DrainFinally, AfterPersist
<1> QED
  BY <1>1, <1>2, QuietCounts

(* Rows are added, the rollups stay behind. *)
LEMMA InsertFailsCounts ==
  ASSUME IInv, NEW k \in 0..Len(batch), InsertFails(k)
  PROVE  Counts' /\ Agreement'
<1> DEFINE evs == SubSeq(batch, 1, k)
<1>1. /\ worker = "insert" /\ rows' = WithRows(evs) /\ inserted' = inserted \union Numbers(evs)
      /\ rollups' = rollups /\ worker' = AfterPersist
  BY DEF InsertFails
<1>2. faults' = TRUE
  BY DEF InsertFails
<1>3. NewRun(evs)
  BY <1>1, PrefixIsNewRun DEF IInv
<1> HIDE DEF evs
<1>4. \A t \in Times : Cardinality(Written(t))' = Cardinality(Written(t)) + Cardinality(ShareOf(evs, t))
  BY <1>1, <1>3, TableAfterInsert DEF IInv, Core
<1>5. worker' # "rollup"
  BY <1>1, AfterPersistFacts DEF IInv
<1>6. ASSUME NEW t \in Times PROVE rollups'[t] <= Cardinality(Written(t))'
  <2>1. Cardinality(ShareOf(evs, t)) \in Nat
    BY <1>3, RowsCounted DEF IInv, Core, ShareOf
  <2>2. rollups[t] <= Cardinality(Written(t))
    BY DEF IInv, Counts
  <2> QED BY <1>1, <1>4, <2>1, <2>2, CountsAreNumbers DEF IInv
<1> QED
  BY <1>2, <1>5, <1>6 DEF Counts, Agreement

LEMMA InsertCounts == ASSUME IInv, Insert PROVE Counts' /\ Agreement'
<1>1. /\ worker = "insert" /\ rows' = WithRows(batch) /\ inserted' = inserted \union Numbers(batch)
      /\ worker' = "rollup" /\ UNCHANGED <<rollups, faults, batch>>
  BY DEF Insert
<1>2. NewRun(batch) /\ batch # <<>>
  <2>1. 0 \in 0..Len(batch)
    BY FrontNumbers DEF IInv
  <2> QED BY <1>1, <2>1, PrefixIsNewRun DEF IInv, Core, Run, Writing
<1>3. \A t \in Times : Cardinality(Written(t))' = Cardinality(Written(t)) + Cardinality(Share(t))
  <2>1. \A t : ShareOf(batch, t) = Share(t)
    BY DEF ShareOf, Share
  <2> QED BY <1>1, <1>2, <2>1, TableAfterInsert DEF IInv, Core
<1>4. ASSUME NEW t \in Times
      PROVE  /\ Share(t)' = Share(t)
             /\ rollups[t]' <= Cardinality(Written(t))'
             /\ rollups[t]' + Cardinality(Share(t)) <= Cardinality(Written(t))'
             /\ ~faults => Cardinality(Written(t))' = rollups[t]' + Cardinality(Share(t))
  <2>1. Share(t)' = Share(t)
    BY <1>1 DEF Share
  <2>2. rollups[t] <= Cardinality(Written(t)) /\ (~faults => Cardinality(Written(t)) = rollups[t])
    BY <1>1, CountsAreNumbers DEF IInv, Counts, Agreement
  <2> QED BY <1>1, <1>3, <2>1, <2>2, CountsAreNumbers DEF IInv
<1>5. Counts'
  BY <1>4 DEF Counts
<1>6. Agreement'
  <2>1. Latest(batch[Len(batch)].at)'
    BY <1>1, <1>2, LatestAfterInsert DEF IInv, Core, Latest
  <2> QED BY <1>1, <1>4, <2>1 DEF Agreement
<1> QED
  BY <1>5, <1>6

LEMMA RollupCounts ==
  ASSUME IInv, NEW k \in 0..Len(batch), Rollup(k)
  PROVE  Counts' /\ Agreement'
<1>1. /\ worker = "rollup" /\ rollups' = WithRollups(batch, Buckets(k)) /\ worker' = "setting"
      /\ UNCHANGED <<rows, batch>>
  BY DEF Rollup
<1>2. faults' = (faults \/ Buckets(k) # Buckets(Len(batch)))
  BY Zenon DEF Rollup
<1>3. ~faults' => ~faults /\ Buckets(k) = Buckets(Len(batch))
  BY <1>2, Zenon
<1>4. ASSUME NEW t \in Times
      PROVE  /\ rollups'[t] \in Nat /\ rollups'[t] <= Cardinality(Written(t))'
             /\ ~faults' => Cardinality(Written(t))' = rollups'[t]
  <2>1. Written(t)' = Written(t)
    BY <1>1 DEF Written
  <2>2. rollups[t] + Cardinality(Share(t)) <= Cardinality(Written(t))
    BY <1>1 DEF IInv, Counts
  <2>3. /\ rollups'[t] \in Nat /\ rollups'[t] <= rollups[t] + Cardinality(Share(t))
        /\ Buckets(k) = Buckets(Len(batch)) => rollups'[t] = rollups[t] + Cardinality(Share(t))
    BY <1>1, RollupsAfter DEF IInv
  <2>4. ~faults => Cardinality(Written(t)) = rollups[t] + Cardinality(Share(t))
    BY <1>1 DEF IInv, Agreement
  <2>5. rollups'[t] <= Cardinality(Written(t))
    BY <2>2, <2>3, CountsAreNumbers DEF IInv
  <2> QED BY <1>3, <2>1, <2>3, <2>4, <2>5
<1>5. Counts'
  BY <1>1, <1>4 DEF Counts
<1>6. Agreement'
  <2>1. ~faults' => Latest(batch[Len(batch)].at)'
    BY <1>1, <1>3 DEF IInv, Agreement, Latest, LatestId
  <2>2. ASSUME NEW t \in Times, ~faults' PROVE Cardinality(Written(t))' = rollups'[t] + 0
    BY <1>4, <2>2
  <2> QED BY <1>1, <2>1, <2>2 DEF Agreement
<1> QED
  BY <1>5, <1>6

LEMMA SettingCounts == ASSUME IInv, Setting \/ SettingFails PROVE Counts' /\ Agreement'
<1>1. worker = "setting" /\ worker' = AfterPersist /\ UNCHANGED <<rows, rollups>>
  BY DEF Setting, SettingFails, tables
<1>2. \/ lastIngest' = batch[Len(batch)].at /\ faults' = faults
      \/ lastIngest' = lastIngest /\ faults' = TRUE
  BY Zenon DEF Setting, SettingFails, tables, history
<1>3. worker' \in {"wait", "finally", "exited"}
  BY <1>1, AfterPersistFacts DEF IInv
<1>4. Counts'
  BY <1>1, <1>3 DEF IInv, Counts, Written
<1>5. Agreement'
  <2>1. CASE faults'
    BY <2>1 DEF Agreement
  <2>2. CASE ~faults'
    <3>1. lastIngest' = batch[Len(batch)].at /\ ~faults
      <4>1. CASE lastIngest' = batch[Len(batch)].at /\ faults' = faults
        BY <2>2, <4>1
      <4>2. CASE faults' = TRUE
        BY <2>2, <4>2
      <4> QED BY <1>2, <4>1, <4>2
    <3>2. Latest(lastIngest') /\ \A t \in Times : Cardinality(Written(t)) = rollups[t] + 0
      BY <1>1, <3>1 DEF IInv, Agreement
    <3>3. Latest(lastIngest)' /\ rows' # {}
      BY <1>1, <3>2 DEF Latest, LatestId
    <3> QED BY <1>1, <1>3, <3>2, <3>3 DEF Agreement, Written
  <2> QED BY <2>1, <2>2
<1> QED
  BY <1>4, <1>5

LEMMA CrashCounts ==
  ASSUME IInv, NEW k \in 0..Len(batch), Crash(k)
  PROVE  Counts' /\ Agreement'
<1> DEFINE evs == SubSeq(batch, 1, k)
<1>1. worker' = "off"
  BY DEF Crash
<1>2. faults' = TRUE
  BY DEF Crash
<1>3. /\ worker = "insert" => rows' = WithRows(evs) /\ inserted' = inserted \union Numbers(evs)
      /\ worker # "insert" => rows' = rows
      /\ worker = "rollup" => rollups' = WithRollups(batch, Buckets(k))
      /\ worker # "rollup" => rollups' = rollups
  BY DEF Crash
<1>4. worker = "insert" => NewRun(evs)
  BY PrefixIsNewRun DEF IInv
<1> HIDE DEF evs
<1>5. ASSUME NEW t \in Times PROVE rollups'[t] <= Cardinality(Written(t))'
  <2>1. rollups[t] <= Cardinality(Written(t))
    BY DEF IInv, Counts
  <2>2. CASE worker = "insert"
    <3>1. Cardinality(Written(t))' = Cardinality(Written(t)) + Cardinality(ShareOf(evs, t))
      BY <1>3, <1>4, <2>2, TableAfterInsert DEF IInv, Core
    <3>2. Cardinality(ShareOf(evs, t)) \in Nat
      BY <1>4, <2>2, RowsCounted DEF IInv, Core, ShareOf
    <3> QED BY <1>3, <2>1, <2>2, <3>1, <3>2, CountsAreNumbers DEF IInv
  <2>3. CASE worker # "insert"
    <3>1. Written(t)' = Written(t)
      BY <1>3, <2>3 DEF Written
    <3>2. CASE worker = "rollup"
      <4>1. rollups[t] + Cardinality(Share(t)) <= Cardinality(Written(t))
        BY <3>2 DEF IInv, Counts
      <4>2. rollups'[t] \in Nat /\ rollups'[t] <= rollups[t] + Cardinality(Share(t))
        BY <1>3, <3>2, RollupsAfter DEF IInv
      <4> QED BY <3>1, <4>1, <4>2, CountsAreNumbers DEF IInv
    <3>3. CASE worker # "rollup"
      BY <1>3, <2>1, <3>1, <3>3
    <3> QED BY <3>2, <3>3
  <2> QED BY <2>2, <2>3
<1> QED
  BY <1>1, <1>2, <1>5 DEF Counts, Agreement

LEMMA StepIInv == IInv /\ [Next]_vars => IInv'
<1> SUFFICES ASSUME IInv, [Next]_vars PROVE Counts' /\ Agreement'
  BY StepCore DEF IInv
<1>1. CASE Start \/ Close \/ CloseReturn \/ Tick
  BY <1>1, LifespanCounts
<1>2. ASSUME NEW at \in Times, Ingest(at) PROVE Counts' /\ Agreement'
  BY <1>2, IngestCounts
<1>3. CASE PersistOk
  <2>1. Len(batch) \in 0..Len(batch)
    BY FrontNumbers DEF IInv
  <2> QED
    BY <1>1, <1>3, <2>1, DrainCounts, InsertCounts, RollupCounts, SettingCounts DEF PersistOk
<1>4. CASE PersistFails
  <2>1. \A k \in 0..(Len(batch) - 1) : k \in 0..Len(batch)
    BY FrontNumbers DEF IInv
  <2> QED
    BY <1>4, <2>1, InsertFailsCounts, RollupCounts, SettingCounts DEF PersistFails
<1>5. ASSUME NEW k \in 0..Len(batch), Crash(k) PROVE Counts' /\ Agreement'
  BY <1>5, CrashCounts
<1>6. CASE UNCHANGED vars
  BY <1>6, QuietCounts DEF vars, tables, memory, history
<1> QED
  BY <1>1, <1>2, <1>3, <1>4, <1>5, <1>6 DEF Next, Persist, Finished

LEMMA InvariantHolds == Spec => []IInv
  BY InitIInv, StepIInv, PTL DEF Spec

-----------------------------------------------------------------------------
(* The theorems *)

(* Type correctness of the ingest path: the queue and the batch never exceed *)
(* QUEUE_SIZE, and every history only names accepted events.                 *)
THEOREM TypeCorrect == Spec => []TypeOK
<1>1. IInv => TypeOK
  BY DEF IInv, Core
<1> QED
  BY <1>1, InvariantHolds, PTL

(* Every event handle_ingest answered with 202 is in the queue, in the batch *)
(* _persist is writing, in the table, or accounted for once by an overflow,  *)
(* a logged failure or a kill; and once aclose has returned nothing that was *)
(* accepted before is left in memory.                                        *)
THEOREM EventsAccounted == Spec => []Accounted
<1>1. ASSUME Core PROVE Accounted
  <2>1. /\ Numbers(batch) \union Settled = 1..(accepted - Len(queue))
        /\ Numbers(queue) = (accepted - Len(queue) + 1)..accepted
    BY <1>1, QueueNumbers DEF Core, Front
  <2>2. /\ 1..accepted = Numbers(queue) \union Numbers(batch) \union Settled
        /\ Numbers(queue) \intersect (Numbers(batch) \union Settled) = {}
    BY <1>1, <2>1, FrontNumbers
  <2>3. ASSUME phase = "closed" PROVE 1..atClose \subseteq Settled
    <3>1. queue = <<>> /\ batch = <<>>
      BY <1>1, <2>3 DEF Core, Control, Run, Writing
    <3>2. Numbers(queue) = {} /\ Numbers(batch) = {}
      BY <3>1 DEF Numbers
    <3>3. 1..atClose \subseteq 1..accepted
      BY <1>1 DEF Core, TypeOK
    <3> QED BY <2>2, <3>2, <3>3
  <2> QED
    BY <1>1, <2>2, <2>3 DEF Accounted, Core, Front, Drops
<1>2. IInv => Accounted
  BY <1>1 DEF IInv
<1> QED
  BY <1>2, InvariantHolds, PTL

(* Ids follow the order of arrival, whatever failed or was killed between:  *)
(* the next insert_events starts from the largest id in the table, and only *)
(* newer events are left to write.                                          *)
THEOREM IdsKeepArrivalOrder == Spec => []IdsFollowArrival
<1>1. IInv => IdsFollowArrival
  BY DEF IInv, Core, Table
<1> QED
  BY <1>1, InvariantHolds, PTL

(* upsert_rollups runs after insert_events, so no bucket ever counts an     *)
(* event that is not in the table.                                          *)
THEOREM RollupsStayBelowRows == Spec => []RollupsNeverOvercount
<1>1. IInv => RollupsNeverOvercount
  BY DEF IInv, Counts, RollupsNeverOvercount
<1> QED
  BY <1>1, InvariantHolds, PTL

(* Until a statement fails, a finished _persist leaves rows, rollups and    *)
(* last_ingest_at in agreement.                                             *)
THEOREM FlushesLeaveAgreement == Spec => []FlushesAgree
<1>1. ASSUME IInv, ~faults, worker \in {"wait", "exited"}
      PROVE  /\ \A t \in Times : rollups[t] = Cardinality(Written(t))
             /\ lastIngest = IF rows = {} THEN Never
                             ELSE (CHOOSE r \in rows : r.id = LatestId).ev.at
  <2>1. ASSUME NEW t \in Times PROVE rollups[t] = Cardinality(Written(t))
    <3>1. Cardinality(Written(t)) = rollups[t] + 0
      BY <1>1 DEF IInv, Agreement
    <3> QED BY <1>1, <3>1, CountsAreNumbers DEF IInv
  <2>2. IF rows = {} THEN lastIngest = Never ELSE Latest(lastIngest)
    BY <1>1 DEF IInv, Agreement
  <2>3. ASSUME rows # {} PROVE lastIngest = (CHOOSE r \in rows : r.id = LatestId).ev.at
    <3>1. PICK r \in rows : r.id = LatestId /\ r.ev.at = lastIngest
      BY <2>2, <2>3 DEF Latest
    <3>2. (CHOOSE s \in rows : s.id = LatestId) = r
      BY <1>1, <3>1 DEF IInv, Core, Table
    <3> QED BY <3>1, <3>2
  <2> QED BY <2>1, <2>2, <2>3
<1>2. IInv => FlushesAgree
  BY <1>1 DEF FlushesAgree
<1> QED
  BY <1>2, InvariantHolds, PTL
=============================================================================
