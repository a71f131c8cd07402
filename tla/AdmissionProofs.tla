---------------------------- MODULE AdmissionProofs ----------------------------
(***************************************************************************)
(* What decides whether the gateway lets a request through: the routes it  *)
(* was given (Routes) and the verifiers that stand before them             *)
(* (Verifiers).  Neither has a variable of the other, so each has its own  *)
(* invariant.                                                              *)
(*                                                                         *)
(* Routes, for every set of paths, any files and any number of rows: every *)
(* row, and every route the seed has still to insert, has passed the       *)
(* validation; no two rows share a path; a row that was switched off is    *)
(* inactive.                                                               *)
(*                                                                         *)
(* Verifiers, for every set of urls and certificates, every lifetime of    *)
(* the cache and every replay window: what is cached came from a pinned    *)
(* url, chains to a trusted root and is as old as its last fetch; only     *)
(* pinned urls are fetched from; and the captured request was only ever    *)
(* accepted within a window of its timestamp.                              *)
(***************************************************************************)
EXTENDS Routes, Verifiers, TLAPS

RowsValid ==
  /\ rows = [id \in DOMAIN rows |-> rows[id]]
  /\ DOMAIN rows \subseteq 1..MaxId
  /\ \A id \in DOMAIN rows :
       \E r \in [Fields -> Text], a \in BOOLEAN : Validate(r) /\ rows[id] = Row(r, a)

PathsDiffer ==
  \A id, other \in DOMAIN rows : rows[id].path = rows[other].path => id = other

TodoValid ==
  /\ todo \in Seq([Fields -> Text])
  /\ \A i \in 1..Len(todo) : Validate(todo[i])
  /\ absent \in BOOLEAN
  /\ absent => todo # << >>

OffInactive == \A id \in off : id \in DOMAIN rows /\ ~rows[id].active

IInv == RowsValid /\ PathsDiffer /\ TodoValid /\ OffInactive

-----------------------------------------------------------------------------
(* Rows and JSON objects *)

(* A row has the fields of its route, and from_endpoint gives it back. *)
LEMMA RowOfRoute ==
  ASSUME NEW r \in [Fields -> Text], NEW a \in BOOLEAN
  PROVE  /\ Row(r, a).path = r.path
         /\ Row(r, a).secret_env = r.secret_env
         /\ Row(r, a).active = a
         /\ FromRow(Row(r, a)) = r
<1>1. "active" \notin Fields  BY DEF Fields, Required
<1>2. "path" \in Fields /\ "secret_env" \in Fields  BY DEF Fields, Required
<1>3. \A k \in Fields : Row(r, a)[k] = r[k]  BY <1>1 DEF Row
<1>4. Row(r, a).active = a  BY DEF Row
<1>5. FromRow(Row(r, a)) = r  BY <1>3 DEF FromRow
<1>. QED  BY <1>2, <1>3, <1>4, <1>5

(* marshal and the loader's defaults undo each other. *)
LEMMA LoadOfMarshal ==
  ASSUME NEW r \in [Fields -> Text]
  PROVE  WellFormed(Marshal(r)) /\ Load(Marshal(r)) = r /\ Marshal(r).path = r.path
<1>. DEFINE D == {f \in Fields : f = "webhook_id" => r[f] # ""}
<1>1. DOMAIN Marshal(r) = D  BY DEF Marshal
<1>2. \A k \in D : Marshal(r)[k] = r[k]  BY DEF Marshal
<1>3. Required \subseteq D /\ D \subseteq Fields  BY DEF Fields, Required
<1>4. WellFormed(Marshal(r))  BY <1>1, <1>3 DEF WellFormed
<1>5. \A k \in Fields : Load(Marshal(r))[k] = r[k]  BY <1>1, <1>2 DEF Load
<1>6. Load(Marshal(r)) = r  BY <1>5 DEF Load
<1>7. "path" \in D  BY DEF Fields, Required
<1>8. Marshal(r).path = r.path  BY <1>2, <1>7
<1>. QED  BY <1>4, <1>6, <1>8

(* A route that has been validated can be built, given its secret. *)
LEMMA ValidBuilds ==
  ASSUME NEW r, Validate(r), NEW env, r.secret_env # "" => r.secret_env \in env
  PROVE  Builds(r, env)
BY DEF Validate, Builds, SecretProviders

-----------------------------------------------------------------------------
(* The steps *)

(* A route joins the table under a path that no row has. *)
LEMMA InsertKeeps ==
  ASSUME IInv, NEW id \in 1..MaxId, NEW r \in [Fields -> Text], Validate(r),
         TableAccepts(0, r), Insert(id, r), off' = off
  PROVE  (RowsValid /\ PathsDiffer /\ OffInactive)'
<1>. USE DEF IInv
<1>1. DOMAIN rows \subseteq Nat /\ 0 \notin DOMAIN rows
  <2>1. DOMAIN rows \subseteq 1..MaxId  BY DEF RowsValid
  <2>2. MaxId \in Nat  BY RoutesAssumption
  <2>. QED  BY <2>1, <2>2
<1>2. id \notin DOMAIN rows  BY <1>1 DEF Insert, IsNewId
<1>3. DOMAIN rows' = DOMAIN rows \union {id}  BY DEF Insert
<1>4. rows'[id] = Row(r, TRUE)  BY DEF Insert
<1>5. \A n \in DOMAIN rows : rows'[n] = rows[n]  BY <1>2 DEF Insert
<1>6. RowsValid'
  <2>1. rows' = [n \in DOMAIN rows' |-> rows'[n]]  BY DEF Insert
  <2>2. DOMAIN rows' \subseteq 1..MaxId  BY <1>3 DEF RowsValid
  <2>3. ASSUME NEW n \in DOMAIN rows'
        PROVE  \E q \in [Fields -> Text], a \in BOOLEAN : Validate(q) /\ rows'[n] = Row(q, a)
    <3>1. CASE n = id  BY <3>1, <1>4
    <3>2. CASE n \in DOMAIN rows  BY <3>2, <1>5 DEF RowsValid
    <3>. QED  BY <3>1, <3>2, <1>3
  <2>. QED  BY <2>1, <2>2, <2>3 DEF RowsValid
<1>7. PathsDiffer'
  <2>1. rows'[id].path = r.path  BY <1>4, RowOfRoute
  <2>2. \A n \in DOMAIN rows : rows'[n].path # r.path  BY <1>1, <1>5 DEF TableAccepts
  <2>. QED  BY <1>3, <1>5, <2>1, <2>2 DEF PathsDiffer
<1>8. OffInactive'  BY <1>3, <1>5 DEF OffInactive
<1>. QED  BY <1>6, <1>7, <1>8

(* Rewriting a row keeps its activity, and its path is its own. *)
LEMMA UpdateKeeps ==
  ASSUME IInv, NEW id \in DOMAIN rows, NEW r \in [Fields -> Text], Update(id, r)
  PROVE  (RowsValid /\ PathsDiffer /\ OffInactive)'
<1>. USE DEF IInv
<1>. DEFINE a == rows[id].active
<1>1. a \in BOOLEAN  BY RowOfRoute DEF RowsValid
<1>2. DOMAIN rows' = DOMAIN rows /\ rows' = [n \in DOMAIN rows |-> rows'[n]]
      BY DEF Update, RowsValid
<1>3. rows'[id] = Row(r, a)  BY DEF Update, RowsValid
<1>4. \A n \in DOMAIN rows \ {id} : rows'[n] = rows[n]  BY DEF Update, RowsValid
<1>5. Validate(r) /\ TableAccepts(id, r) /\ off' = off  BY DEF Update, FormValid
<1>6. rows'[id].path = r.path /\ rows'[id].active = a  BY <1>1, <1>3, RowOfRoute
<1>7. RowsValid'
  <2>1. ASSUME NEW n \in DOMAIN rows'
        PROVE  \E q \in [Fields -> Text], b \in BOOLEAN : Validate(q) /\ rows'[n] = Row(q, b)
    <3>1. CASE n = id  BY <3>1, <1>1, <1>3, <1>5
    <3>2. CASE n # id  BY <3>2, <1>2, <1>4 DEF RowsValid
    <3>. QED  BY <3>1, <3>2
  <2>. QED  BY <2>1, <1>2 DEF RowsValid
<1>8. PathsDiffer'
  <2>1. \A n \in DOMAIN rows \ {id} : rows'[n].path # r.path  BY <1>4, <1>5 DEF TableAccepts
  <2>. QED  BY <1>2, <1>4, <1>6, <2>1 DEF PathsDiffer
<1>9. OffInactive'  BY <1>2, <1>4, <1>5, <1>6 DEF OffInactive
<1>. QED  BY <1>7, <1>8, <1>9

(* Switching a row moves it in or out of the rows that are off. *)
LEMMA ToggleKeeps ==
  ASSUME IInv, NEW id \in DOMAIN rows, Toggle(id)
  PROVE  (RowsValid /\ PathsDiffer /\ OffInactive)'
<1>. USE DEF IInv
<1>1. PICK r \in [Fields -> Text], a \in BOOLEAN : Validate(r) /\ rows[id] = Row(r, a)
      BY DEF RowsValid
<1>2. DOMAIN rows' = DOMAIN rows /\ rows' = [n \in DOMAIN rows |-> rows'[n]]
      BY DEF Toggle, RowsValid
<1>3. \A n \in DOMAIN rows \ {id} : rows'[n] = rows[n]  BY DEF Toggle, RowsValid
<1>4. rows'[id] = [rows[id] EXCEPT !.active = ~rows[id].active]  BY DEF Toggle, RowsValid
<1>5. rows[id].active = a /\ rows[id].path = r.path  BY <1>1, RowOfRoute
<1>6. rows'[id] = Row(r, ~a)  BY <1>1, <1>4, <1>5 DEF Row, Fields, Required
<1>7. rows'[id].active = ~a /\ rows'[id].path = r.path  BY <1>6, RowOfRoute
<1>8. RowsValid'
  <2>1. ASSUME NEW n \in DOMAIN rows'
        PROVE  \E q \in [Fields -> Text], b \in BOOLEAN : Validate(q) /\ rows'[n] = Row(q, b)
    <3>1. CASE n = id  BY <3>1, <1>1, <1>6
    <3>2. CASE n # id  BY <3>2, <1>2, <1>3 DEF RowsValid
    <3>. QED  BY <3>1, <3>2
  <2>. QED  BY <2>1, <1>2 DEF RowsValid
<1>9. PathsDiffer'  BY <1>2, <1>3, <1>5, <1>7 DEF PathsDiffer
<1>10. OffInactive'
  <2>1. CASE a
    <3>1. off' = off \union {id}  BY <2>1, <1>5 DEF Toggle
    <3>. QED  BY <2>1, <3>1, <1>2, <1>3, <1>7 DEF OffInactive
  <2>2. CASE ~a
    <3>1. off' = off \ {id}  BY <2>2, <1>5 DEF Toggle
    <3>. QED  BY <3>1, <1>2, <1>3 DEF OffInactive
  <2>. QED  BY <2>1, <2>2
<1>. QED  BY <1>8, <1>9, <1>10

(* A validated file, and what is left of it, is a sequence of valid routes. *)
LEMMA SeedBeginKeeps ==
  ASSUME IInv, NEW file \in Files, SeedBegin(file)
  PROVE  TodoValid'
<1>1. DOMAIN file = 1..Len(file)  BY FilesAssumption
<1>2. ASSUME NEW i \in 1..Len(file)
      PROVE  Load(file[i]) \in [Fields -> Text] /\ Validate(Load(file[i]))
  <2>1. \A k \in DOMAIN file[i] : file[i][k] \in Text  BY <1>1, FilesAssumption
  <2>2. Validate(Load(file[i]))  BY <1>1 DEF SeedBegin, Importable
  <2>. DEFINE item == file[i]
  <2>3. \A k \in Fields : (IF k \in DOMAIN item THEN item[k] ELSE "") \in Text  BY <2>1 DEF Text
  <2>. HIDE DEF item
  <2>4. Load(item) \in [Fields -> Text]  BY <2>3 DEF Load
  <2>. QED  BY <2>2, <2>4 DEF item
<1>3. Len(file) \in Nat  BY <1>1, FilesAssumption
<1>4. todo' = [i \in 1..Len(file) |-> Load(file[i])]  BY <1>1 DEF SeedBegin
<1>5. todo' \in Seq([Fields -> Text]) /\ Len(todo') = Len(file)  BY <1>2, <1>3, <1>4
<1>6. absent' = absent /\ ~absent  BY DEF SeedBegin, IInv, TodoValid
<1>. QED  BY <1>2, <1>4, <1>5, <1>6 DEF TodoValid, IInv

(* What is left of a file after its first route. *)
LEMMA TailKeeps ==
  ASSUME TodoValid, todo # << >>, todo' = Tail(todo), absent' = FALSE
  PROVE  TodoValid'
<1>1. todo' \in Seq([Fields -> Text]) /\ Len(todo') = Len(todo) - 1  BY DEF TodoValid
<1>2. \A i \in 1..Len(todo') : todo'[i] = todo[i + 1] /\ i + 1 \in 1..Len(todo)  BY <1>1 DEF TodoValid
<1>. QED  BY <1>1, <1>2 DEF TodoValid

-----------------------------------------------------------------------------
(* The invariant *)

(* The table starts empty, with no seed under way. *)
LEMMA InitIInv == Init => IInv
<1>. SUFFICES ASSUME Init PROVE IInv  OBVIOUS
<1>1. DOMAIN rows = {} /\ rows = [id \in DOMAIN rows |-> rows[id]]  BY DEF Init
<1>2. TodoValid
  <2>1. todo = << >> /\ absent = FALSE  BY DEF Init
  <2>2. todo \in Seq([Fields -> Text]) /\ 1..Len(todo) = {}  BY <2>1
  <2>3. absent \in BOOLEAN /\ ~absent  BY <2>1
  <2>. QED  BY <2>2, <2>3 DEF TodoValid
<1>3. off = {}  BY DEF Init
<1>. QED  BY <1>1, <1>2, <1>3 DEF IInv, RowsValid, PathsDiffer, OffInactive

(* Every step of the handlers and of the seed keeps it. *)
LEMMA NextIInv == IInv /\ [Next]_vars => IInv'
<1>. SUFFICES ASSUME IInv, [Next]_vars PROVE IInv'  OBVIOUS
<1>0. ASSUME NEW r \in Route PROVE r \in [Fields -> Text]
      BY DEF Route, Text, Fields, Required
<1>1. ASSUME NEW id \in 1..MaxId, NEW r \in Route, Create(id, r) PROVE IInv'
  <2>1. (RowsValid /\ PathsDiffer /\ OffInactive)'
        BY <1>0, <1>1, InsertKeeps DEF Create, FormValid
  <2>2. TodoValid'  BY <1>1 DEF Create, IInv, TodoValid
  <2>. QED  BY <2>1, <2>2 DEF IInv
<1>2. ASSUME NEW id \in DOMAIN rows, NEW r \in Route, Update(id, r) PROVE IInv'
  <2>1. (RowsValid /\ PathsDiffer /\ OffInactive)'  BY <1>0, <1>2, UpdateKeeps
  <2>2. TodoValid'  BY <1>2 DEF Update, IInv, TodoValid
  <2>. QED  BY <2>1, <2>2 DEF IInv
<1>3. ASSUME NEW id \in DOMAIN rows, Toggle(id) PROVE IInv'
  <2>1. (RowsValid /\ PathsDiffer /\ OffInactive)'  BY <1>3, ToggleKeeps
  <2>2. TodoValid'  BY <1>3 DEF Toggle, IInv, TodoValid
  <2>. QED  BY <2>1, <2>2 DEF IInv
<1>4. ASSUME NEW id \in DOMAIN rows, Delete(id) PROVE IInv'
  <2>1. /\ DOMAIN rows' = DOMAIN rows \ {id}
        /\ rows' = [n \in DOMAIN rows' |-> rows'[n]]
        /\ \A n \in DOMAIN rows' : rows'[n] = rows[n]
        BY <1>4 DEF Delete
  <2>2. RowsValid'  BY <2>1 DEF IInv, RowsValid
  <2>3. PathsDiffer'  BY <2>1 DEF IInv, PathsDiffer
  <2>4. OffInactive'  BY <1>4, <2>1 DEF Delete, IInv, OffInactive
  <2>5. TodoValid'  BY <1>4 DEF Delete, IInv, TodoValid
  <2>. QED  BY <2>2, <2>3, <2>4, <2>5 DEF IInv
<1>5. ASSUME rows' = rows, off' = off, TodoValid' PROVE IInv'
      BY <1>5 DEF IInv, RowsValid, PathsDiffer, OffInactive
<1>6. ASSUME NEW file \in Files, SeedBegin(file) PROVE IInv'
      BY <1>5, <1>6, SeedBeginKeeps DEF SeedBegin
<1>7. CASE SeedSkip
  <2>1. TodoValid /\ absent' = FALSE  BY <1>7 DEF SeedSkip, IInv, TodoValid
  <2>2. TodoValid'  BY <1>7, <2>1, TailKeeps DEF SeedSkip
  <2>. QED  BY <1>5, <1>7, <2>2 DEF SeedSkip
<1>8. CASE SeedMiss
  <2>1. TodoValid'  BY <1>8 DEF SeedMiss, IInv, TodoValid
  <2>. QED  BY <1>5, <1>8, <2>1 DEF SeedMiss
<1>9. CASE SeedDies
  <2>1. TodoValid'
    <3>1. todo' = << >> /\ absent' = FALSE  BY <1>9 DEF SeedDies
    <3>2. todo' \in Seq([Fields -> Text]) /\ 1..Len(todo') = {}  BY <3>1
    <3>3. absent' \in BOOLEAN /\ ~absent'  BY <3>1
    <3>. QED  BY <3>2, <3>3 DEF TodoValid
  <2>. QED  BY <1>5, <1>9, <2>1 DEF SeedDies
<1>10. ASSUME NEW id \in 1..MaxId, SeedInsert(id) PROVE IInv'
  <2>1. TodoValid /\ todo # << >>  BY <1>10 DEF SeedInsert, IInv, TodoValid
  <2>2. todo[1] \in [Fields -> Text] /\ Validate(todo[1])  BY <2>1 DEF TodoValid
  <2>3. (RowsValid /\ PathsDiffer /\ OffInactive)'  BY <1>10, <2>2, InsertKeeps DEF SeedInsert
  <2>4. TodoValid'  BY <1>10, <2>1, TailKeeps DEF SeedInsert
  <2>. QED  BY <2>3, <2>4 DEF IInv
<1>11. CASE UNCHANGED vars
  <2>1. TodoValid'  BY <1>11 DEF vars, IInv, TodoValid
  <2>. QED  BY <1>5, <1>11, <2>1 DEF vars
<1>. QED  BY <1>1, <1>2, <1>3, <1>4, <1>6, <1>7, <1>8, <1>9, <1>10, <1>11 DEF Next, Seed

(* So it holds in every state the console and the command can reach. *)
LEMMA Invariance == Spec => []IInv
BY InitIInv, NextIInv, PTL DEF Spec

-----------------------------------------------------------------------------
(* What it gives *)

(* A row that is exported is its route, validated. *)
LEMMA Exported ==
  ASSUME IInv, NEW item \in Export
  PROVE  \E id \in DOMAIN rows : \E r \in [Fields -> Text] :
           /\ Validate(r) /\ rows[id] = Row(r, TRUE) /\ rows[id].active
           /\ item = Marshal(r)
<1>1. PICK id \in DOMAIN rows : rows[id].active /\ item = Marshal(FromRow(rows[id]))
      BY DEF Export
<1>2. PICK r \in [Fields -> Text], a \in BOOLEAN : Validate(r) /\ rows[id] = Row(r, a)
      BY DEF IInv, RowsValid
<1>3. a = TRUE /\ FromRow(rows[id]) = r  BY <1>1, <1>2, RowOfRoute
<1>. QED  BY <1>1, <1>2, <1>3

(* Whatever was created, edited, switched and seeded through the handlers   *)
(* and the command, a gateway that has the named secrets starts on each     *)
(* exported route, unless the framework refuses its path (gwconfig.validate *)
(* asks all that the factories ask, and nothing of the path's pattern).     *)
THEOREM OnlyPathsEverKeepFromStarting == Spec => []OnlyPathsKeepFromStarting
<1>1. ASSUME IInv PROVE OnlyPathsKeepFromStarting
  <2>1. SUFFICES ASSUME NEW item \in Export, Registers(Load(item))
                 PROVE  WellFormed(item) /\ Builds(Load(item), Secrets)
        BY DEF OnlyPathsKeepFromStarting, Starts
  <2>2. PICK id \in DOMAIN rows, r \in [Fields -> Text] :
          Validate(r) /\ rows[id] = Row(r, TRUE) /\ item = Marshal(r)
        BY <1>1, Exported
  <2>3. WellFormed(item) /\ Load(item) = r  BY <2>2, LoadOfMarshal
  <2>4. rows[id].secret_env = r.secret_env  BY <2>2, RowOfRoute
  <2>5. r.secret_env # "" => r.secret_env \in Secrets  BY <2>4 DEF Secrets
  <2>6. Builds(r, Secrets)  BY <2>2, <2>5, ValidBuilds
  <2>. QED  BY <2>3, <2>6
<1>. QED  BY <1>1, Invariance, PTL

(* The export of any reachable table, seeded into an empty console, is      *)
(* accepted and restores exactly the active routes.                         *)
THEOREM ImportAlwaysRestores == Spec => []ImportRestores
<1>1. ASSUME IInv PROVE ImportRestores
  <2>. DEFINE Active == {i \in DOMAIN rows : rows[i].active}
  <2>1. ASSUME NEW item \in Export PROVE Importable(item)
    <3>1. PICK r \in [Fields -> Text] : Validate(r) /\ item = Marshal(r)  BY <1>1, <2>1, Exported
    <3>. QED  BY <3>1, LoadOfMarshal DEF Importable
  <2>2. ASSUME NEW a \in Export, NEW b \in Export, a.path = b.path PROVE a = b
    <3>1. PICK i \in DOMAIN rows, r \in [Fields -> Text] : rows[i] = Row(r, TRUE) /\ a = Marshal(r)
          BY <1>1, <2>2, Exported
    <3>2. PICK j \in DOMAIN rows, q \in [Fields -> Text] : rows[j] = Row(q, TRUE) /\ b = Marshal(q)
          BY <1>1, <2>2, Exported
    <3>3. a.path = r.path /\ b.path = q.path  BY <3>1, <3>2, LoadOfMarshal
    <3>4. rows[i].path = r.path /\ rows[j].path = q.path
      <4>1. TRUE \in BOOLEAN  OBVIOUS
      <4>2. Row(r, TRUE).path = r.path  BY <4>1, RowOfRoute
      <4>3. Row(q, TRUE).path = q.path  BY <4>1, RowOfRoute
      <4>. QED  BY <3>1, <3>2, <4>2, <4>3
    <3>5. i = j  BY <1>1, <2>2, <3>3, <3>4 DEF IInv, PathsDiffer
    <3>6. r = FromRow(rows[i]) /\ q = FromRow(rows[j])  BY <3>1, <3>2, RowOfRoute
    <3>. QED  BY <3>1, <3>2, <3>5, <3>6
  <2>3. ASSUME NEW item \in Export PROVE \E i \in Active : Row(Load(item), TRUE) = rows[i]
    <3>1. PICK i \in DOMAIN rows, r \in [Fields -> Text] :
            rows[i] = Row(r, TRUE) /\ rows[i].active /\ item = Marshal(r)
          BY <1>1, <2>3, Exported
    <3>. QED  BY <3>1, LoadOfMarshal
  <2>4. ASSUME NEW i \in Active PROVE \E item \in Export : Row(Load(item), TRUE) = rows[i]
    <3>1. PICK r \in [Fields -> Text], a \in BOOLEAN : rows[i] = Row(r, a)
          BY <1>1 DEF IInv, RowsValid
    <3>2. a = TRUE /\ FromRow(rows[i]) = r  BY <3>1, RowOfRoute
    <3>3. Marshal(r) \in Export  BY <3>2 DEF Export
    <3>4. Load(Marshal(r)) = r  BY LoadOfMarshal
    <3>. QED  BY <3>1, <3>2, <3>3, <3>4
  <2>5. {Row(Load(item), TRUE) : item \in Export} = {rows[i] : i \in Active}  BY <2>3, <2>4
  <2>. QED  BY <2>1, <2>2, <2>5 DEF ImportRestores
<1>. QED  BY <1>1, Invariance, PTL

(* A row that was switched off stays out of the export until it is switched *)
(* on, through every edit and every seed.                                   *)
THEOREM DisabledAlwaysOut == Spec => []DisabledStaysOut
<1>1. ASSUME IInv PROVE DisabledStaysOut
  <2>1. SUFFICES ASSUME NEW id \in off, Marshal(FromRow(rows[id])) \in Export PROVE FALSE
        BY <1>1 DEF DisabledStaysOut, IInv, OffInactive
  <2>2. id \in DOMAIN rows /\ ~rows[id].active  BY <1>1 DEF IInv, OffInactive
  <2>3. PICK r \in [Fields -> Text], a \in BOOLEAN : rows[id] = Row(r, a)
        BY <1>1, <2>2 DEF IInv, RowsValid
  <2>4. PICK j \in DOMAIN rows, q \in [Fields -> Text] :
          rows[j] = Row(q, TRUE) /\ rows[j].active /\ Marshal(FromRow(rows[id])) = Marshal(q)
        BY <1>1, <2>1, Exported
  <2>5. FromRow(rows[id]) = r /\ rows[id].path = r.path /\ rows[j].path = q.path
    <3>1. TRUE \in BOOLEAN  OBVIOUS
    <3>2. FromRow(Row(r, a)) = r /\ Row(r, a).path = r.path  BY RowOfRoute
    <3>3. Row(q, TRUE).path = q.path  BY <3>1, RowOfRoute
    <3>. QED  BY <2>3, <2>4, <3>2, <3>3
  <2>6. r.path = q.path  BY <2>4, <2>5, LoadOfMarshal
  <2>7. id = j  BY <1>1, <2>2, <2>5, <2>6 DEF IInv, PathsDiffer
  <2>. QED  BY <2>2, <2>4, <2>7
<1>. QED  BY <1>1, Invariance, PTL

-----------------------------------------------------------------------------
(* Verifiers *)

Typed ==
  /\ now \in 0..MaxTime
  /\ cache \in [Urls -> [cert : Certs \union {None}, at : 0..MaxTime]]
  /\ fetched \in [Urls -> [Certs -> Int]]
  /\ fetching = NoRequest \/ fetching.url \in Pinned

CacheVerified ==
  \A u \in Urls : cache[u] # NoEntry =>
    /\ u \in Pinned
    /\ cache[u].cert \in Chained
    /\ fetched[u][cache[u].cert] = cache[u].at

Near(t) == t \in Int /\ Captured - Window <= t /\ t <= Captured + Window

ReplaysNear ==
  /\ replays.from \in Int /\ replays.to \in Int
  /\ replays.from = -1 => replays.to = -1
  /\ Window > 0 /\ replays.from # -1 => Near(replays.from) /\ Near(replays.to)

VerifiersInv == Typed /\ CacheVerified /\ ReplaysNear

(* What is fetched at this moment satisfies what the cache promises. *)
LEMMA FetchedKeeps ==
  ASSUME VerifiersInv, Fetched
  PROVE  Typed' /\ CacheVerified'
<1>. DEFINE v == fetching.url
            c == served[v]
<1>1. v \in Pinned /\ v \in Urls  BY VerifiersAssumption DEF VerifiersInv, Typed, Fetched, Idle
<1>2. c \in Chained /\ c \in Certs  BY VerifiersAssumption DEF Fetched
<1>3. now \in 0..MaxTime /\ now' = now  BY DEF VerifiersInv, Typed, Fetched
<1>. HIDE DEF v, c
<1>4. cache' = [cache EXCEPT ![v] = [cert |-> c, at |-> now]]  BY DEF Fetched, v, c
<1>5. fetched' = [fetched EXCEPT ![v][c] = now]  BY DEF Fetched, v, c
<1>6. fetching' = NoRequest  BY DEF Fetched
<1>7. Typed'
  <2>1. cache' \in [Urls -> [cert : Certs \union {None}, at : 0..MaxTime]]
        BY <1>2, <1>3, <1>4 DEF VerifiersInv, Typed
  <2>2. fetched' \in [Urls -> [Certs -> Int]]
        BY <1>1, <1>2, <1>3, <1>5 DEF VerifiersInv, Typed
  <2>. QED  BY <1>3, <1>6, <2>1, <2>2 DEF Typed
<1>8. CacheVerified'
  <2>. SUFFICES ASSUME NEW u \in Urls, cache'[u] # NoEntry
                PROVE  /\ u \in Pinned
                       /\ cache'[u].cert \in Chained
                       /\ fetched'[u][cache'[u].cert] = cache'[u].at
       BY DEF CacheVerified
  <2>1. CASE u = v
    <3>1. cache'[u].cert = c /\ cache'[u].at = now  BY <1>4, <2>1 DEF VerifiersInv, Typed
    <3>2. fetched'[u][c] = now  BY <1>2, <1>5, <2>1 DEF VerifiersInv, Typed
    <3>. QED  BY <1>1, <1>2, <2>1, <3>1, <3>2
  <2>2. CASE u # v
    <3>1. cache'[u] = cache[u] /\ fetched'[u] = fetched[u]  BY <1>4, <1>5, <2>2 DEF VerifiersInv, Typed
    <3>. QED  BY <3>1 DEF VerifiersInv, CacheVerified
  <2>. QED  BY <2>1, <2>2
<1>. QED  BY <1>7, <1>8

(* A timestamp is only accepted near it. *)
LEMMA StripeKeeps ==
  ASSUME VerifiersInv, NEW ts \in 0..MaxTime, NEW sigs, Stripe(ts, sigs)
  PROVE  ReplaysNear'
<1>. USE VerifiersAssumption
<1>1. now \in Int /\ ts \in Int /\ Window \in Int /\ Captured \in Int  BY DEF VerifiersInv, Typed
<1>2. CASE ts # Captured  BY <1>2 DEF Stripe, VerifiersInv, ReplaysNear, Near
<1>3. CASE ts = Captured
  <2>1. Window > 0 => Near(now)  BY <1>1, <1>3 DEF Stripe, Fresh, Near
  <2>2. replays' = [from |-> IF replays.from = -1 THEN now ELSE replays.from, to |-> now]
        BY <1>3 DEF Stripe
  <2>3. replays'.to = now /\ replays'.from = IF replays.from = -1 THEN now ELSE replays.from
        BY <2>2
  <2>4. now # -1  BY DEF VerifiersInv, Typed
  <2>. QED  BY <1>1, <2>1, <2>3, <2>4 DEF VerifiersInv, ReplaysNear
<1>. QED  BY <1>2, <1>3

(* Nothing is cached, fetched or accepted at the start. *)
LEMMA VerifiersInitInv == VerifiersInit => VerifiersInv
<1>. SUFFICES ASSUME VerifiersInit PROVE VerifiersInv  OBVIOUS
<1>1. Typed  BY VerifiersAssumption DEF VerifiersInit, Typed, NoEntry
<1>2. CacheVerified  BY DEF VerifiersInit, CacheVerified
<1>3. ReplaysNear  BY DEF VerifiersInit, ReplaysNear
<1>. QED  BY <1>1, <1>2, <1>3 DEF VerifiersInv

(* Every verification, and every step of the world around it, keeps it. *)
LEMMA VerifiersNextInv == VerifiersInv /\ [VerifiersNext]_verifiersVars => VerifiersInv'
<1>. SUFFICES ASSUME VerifiersInv, [VerifiersNext]_verifiersVars PROVE VerifiersInv'  OBVIOUS
<1>. USE VerifiersAssumption
<1>1. ASSUME UNCHANGED <<cache, fetched>> PROVE CacheVerified'
      BY <1>1 DEF VerifiersInv, CacheVerified
<1>2. ASSUME UNCHANGED replays PROVE ReplaysNear'
      BY <1>2 DEF VerifiersInv, ReplaysNear, Near
<1>3. CASE Tick
  <2>1. Typed'  BY <1>3 DEF Tick, VerifiersInv, Typed
  <2>. QED  BY <1>1, <1>2, <1>3, <2>1 DEF Tick, VerifiersInv
<1>4. ASSUME NEW u \in Urls, NEW c \in Certs \union {None}, Serve(u, c) PROVE VerifiersInv'
  <2>1. Typed'  BY <1>4 DEF Serve, VerifiersInv, Typed
  <2>. QED  BY <1>1, <1>2, <1>4, <2>1 DEF Serve, VerifiersInv
<1>5. ASSUME NEW ts \in 0..MaxTime, NEW sigs, Stripe(ts, sigs) PROVE VerifiersInv'
  <2>1. Typed'  BY <1>5 DEF Stripe, VerifiersInv, Typed
  <2>2. CacheVerified'  BY <1>1, <1>5 DEF Stripe
  <2>. QED  BY <1>5, <2>1, <2>2, StripeKeeps DEF VerifiersInv
<1>6. ASSUME NEW provider, NEW sig, Hmac(provider, sig) PROVE VerifiersInv'
  <2>1. Typed'  BY <1>6 DEF Hmac, VerifiersInv, Typed
  <2>. QED  BY <1>1, <1>2, <1>6, <2>1 DEF Hmac, VerifiersInv
<1>7. ASSUME NEW u \in Urls, NEW sig, PayPalHit(u, sig) PROVE VerifiersInv'
  <2>1. Typed'  BY <1>7 DEF PayPalHit, VerifiersInv, Typed
  <2>. QED  BY <1>1, <1>2, <1>7, <2>1 DEF PayPalHit, VerifiersInv
<1>8. ASSUME NEW u \in Urls, NEW sig, PayPalMiss(u, sig) PROVE VerifiersInv'
  <2>1. fetching'.url \in Pinned  BY <1>8 DEF PayPalMiss
  <2>2. Typed'  BY <1>8, <2>1 DEF PayPalMiss, VerifiersInv, Typed
  <2>. QED  BY <1>1, <1>2, <1>8, <2>2 DEF PayPalMiss, VerifiersInv
<1>9. CASE Fetched
  <2>1. ReplaysNear'  BY <1>2, <1>9 DEF Fetched
  <2>. QED  BY <1>9, <2>1, FetchedKeeps DEF VerifiersInv
<1>10. CASE FetchFails
  <2>1. Typed'  BY <1>10 DEF FetchFails, VerifiersInv, Typed
  <2>. QED  BY <1>1, <1>2, <1>10, <2>1 DEF FetchFails, VerifiersInv
<1>11. CASE UNCHANGED verifiersVars
  <2>1. Typed'  BY <1>11 DEF verifiersVars, VerifiersInv, Typed
  <2>. QED  BY <1>1, <1>2, <1>11, <2>1 DEF verifiersVars, VerifiersInv
<1>. QED  BY <1>3, <1>4, <1>5, <1>6, <1>7, <1>8, <1>9, <1>10, <1>11
    DEF VerifiersNext, GitHub, Shopify

(* So it holds in every state. *)
LEMMA VerifiersInvariance == VerifiersSpec => []VerifiersInv
BY VerifiersInitInv, VerifiersNextInv, PTL DEF VerifiersSpec

-----------------------------------------------------------------------------

(* What a step that accepts a request shows of it. *)
Authentic ==
  last' # last =>
    /\ last'.covers
    /\ \/ last'.provider # "paypal" /\ last'.by = Secret
       \/ /\ last'.provider = "paypal"
          /\ last'.by \in Chained \intersect Rsa
          /\ \E u \in Pinned : /\ fetched'[u][last'.by] # -1
                               /\ now - fetched'[u][last'.by] <= CertTtl

(* A decision with a certificate that a pinned url has served in time. *)
LEMMA DecideAuthentic ==
  ASSUME NEW cert \in Chained, NEW sig, Decide(cert, sig),
         NEW u \in Pinned, fetched'[u][cert] # -1, now - fetched'[u][cert] <= CertTtl
  PROVE  Authentic
<1>1. CASE cert \in Rsa /\ Matches(sig, cert)
  <2>1. last' = [provider |-> "paypal", by |-> sig.by, covers |-> sig.covers, at |-> now]
        BY <1>1 DEF Decide, Accept
  <2>2. sig.by = cert /\ sig.covers  BY <1>1 DEF Matches
  <2>3. last'.provider = "paypal" /\ last'.by = cert  BY <2>1, <2>2
  <2>4. last'.covers = sig.covers  BY <2>1
  <2>5. last'.covers  BY <2>2, <2>4
  <2>. QED  BY <1>1, <2>3, <2>5 DEF Authentic
<1>2. CASE ~(cert \in Rsa /\ Matches(sig, cert))  BY <1>2 DEF Decide, Authentic
<1>. QED  BY <1>1, <1>2

(* A decision with the shared secret. *)
LEMMA SecretAuthentic ==
  ASSUME NEW provider, provider # "paypal", NEW sig, Matches(sig, Secret), Accept(provider, sig)
  PROVE  Authentic
<1>1. last' = [provider |-> provider, by |-> sig.by, covers |-> sig.covers, at |-> now]  BY DEF Accept
<1>2. sig.by = Secret /\ sig.covers  BY DEF Matches
<1>3. last'.provider # "paypal" /\ last'.by = Secret  BY <1>1, <1>2
<1>4. last'.covers = sig.covers  BY <1>1
<1>5. last'.covers  BY <1>2, <1>4
<1>. QED  BY <1>3, <1>5 DEF Authentic

(* Every accepted request is signed with the route's secret or, for PayPal, *)
(* with the key of a trusted RSA certificate that a pinned host has served  *)
(* within CERT_TTL, whether it came from the cache or from a fetch.         *)
THEOREM AcceptedAlwaysAuthentic == VerifiersSpec => AcceptedIsAuthentic
<1>1. ASSUME VerifiersInv, [VerifiersNext]_verifiersVars PROVE [Authentic]_verifiersVars
  <2>. SUFFICES ASSUME VerifiersNext PROVE Authentic  BY <1>1
  <2>. USE VerifiersAssumption
  <2>1. ASSUME UNCHANGED last PROVE Authentic  BY <2>1 DEF Authentic
  <2>2. CASE Tick  BY <2>1, <2>2 DEF Tick
  <2>3. ASSUME NEW u \in Urls, NEW c \in Certs \union {None}, Serve(u, c) PROVE Authentic
        BY <2>1, <2>3 DEF Serve
  <2>4. ASSUME NEW ts \in 0..MaxTime, NEW sigs, Stripe(ts, sigs) PROVE Authentic
    <3>1. PICK sig \in sigs : Matches(sig, Secret) /\ Accept("stripe", sig)  BY <2>4 DEF Stripe
    <3>. QED  BY <3>1, SecretAuthentic
  <2>5. ASSUME NEW provider \in {"github", "shopify"}, NEW sig, Hmac(provider, sig) PROVE Authentic
        BY <2>5, SecretAuthentic DEF Hmac
  <2>6. ASSUME NEW u \in Urls, NEW sig, PayPalHit(u, sig) PROVE Authentic
    <3>. DEFINE c == cache[u].cert
    <3>1. u \in Pinned /\ c \in Chained /\ fetched[u][c] = cache[u].at
          BY <1>1, <2>6 DEF PayPalHit, Cached, VerifiersInv, CacheVerified
    <3>2. cache[u].at \in 0..MaxTime  BY <1>1 DEF VerifiersInv, Typed
    <3>3. now - cache[u].at <= CertTtl /\ fetched' = fetched /\ Decide(c, sig)
          BY <2>6 DEF PayPalHit, Cached
    <3>4. fetched'[u][c] # -1 /\ now - fetched'[u][c] <= CertTtl  BY <3>1, <3>2, <3>3
    <3>. HIDE DEF c
    <3>. QED  BY <3>1, <3>3, <3>4, DecideAuthentic
  <2>7. ASSUME NEW u \in Urls, NEW sig, PayPalMiss(u, sig) PROVE Authentic
        BY <2>1, <2>7 DEF PayPalMiss
  <2>8. CASE Fetched
    <3>. DEFINE v == fetching.url
                c == served[v]
    <3>1. v \in Pinned /\ v \in Urls  BY <1>1, <2>8 DEF VerifiersInv, Typed, Fetched, Idle
    <3>2. c \in Chained /\ c \in Certs /\ Decide(c, fetching.sig)  BY <2>8 DEF Fetched
    <3>3. fetched' = [fetched EXCEPT ![v][c] = now]  BY <2>8 DEF Fetched
    <3>. HIDE DEF v, c
    <3>4. fetched'[v][c] = now  BY <1>1, <3>1, <3>2, <3>3 DEF VerifiersInv, Typed
    <3>5. now \in Nat  BY <1>1 DEF VerifiersInv, Typed
    <3>6. fetched'[v][c] # -1 /\ now - fetched'[v][c] <= CertTtl  BY <3>4, <3>5
    <3>. QED  BY <3>1, <3>2, <3>6, DecideAuthentic
  <2>9. CASE FetchFails  BY <2>1, <2>9 DEF FetchFails
  <2>. QED  BY <2>2, <2>3, <2>4, <2>5, <2>6, <2>7, <2>8, <2>9 DEF VerifiersNext, GitHub, Shopify
<1>2. AcceptedIsAuthentic <=> [][Authentic]_verifiersVars  BY PTL DEF AcceptedIsAuthentic, Authentic
<1>. QED  BY <1>1, <1>2, VerifiersInvariance, PTL DEF VerifiersSpec

(* A captured Stripe request is accepted during two windows at most.        *)
THEOREM ReplayAlwaysBounded == VerifiersSpec => []ReplayBounded
<1>1. ASSUME VerifiersInv PROVE ReplayBounded
  <2>1. Window \in Int /\ Captured \in Int  BY VerifiersAssumption
  <2>2. CASE replays.from = -1  BY <1>1, <2>1, <2>2 DEF VerifiersInv, ReplaysNear, ReplayBounded
  <2>3. CASE replays.from # -1  BY <1>1, <2>1, <2>3 DEF VerifiersInv, ReplaysNear, Near, ReplayBounded
  <2>. QED  BY <2>2, <2>3
<1>. QED  BY <1>1, VerifiersInvariance, PTL
=============================================================================
