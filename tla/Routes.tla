-------------------------------- MODULE Routes --------------------------------
(***************************************************************************)
(* The routing table from end to end: the console's form and table         *)
(* (hookguard_console routes/endpoints.py, store/endpoints.py), its export *)
(* and import (gwconfig.py), the operator's seed-config command, which is  *)
(* a process of its own on the same database, and the loader and provider  *)
(* factories that a gateway runs on an exported file (hookguard_gateway    *)
(* config.py, verifier.py, providers/).                                    *)
(*                                                                         *)
(* A handler touches the table only after it has read its form, without    *)
(* suspending again, so it is one step.  The command looks for a path and  *)
(* inserts it in two.  A refused submission changes nothing.               *)
(*                                                                         *)
(* A replay window is what the duration parser says of it: "good" or       *)
(* "bad"; "" is no window.  Row ids are those of an INTEGER PRIMARY KEY.   *)
(***************************************************************************)
EXTENDS Integers, FiniteSets, Sequences

CONSTANTS
  Paths,       \* paths that begin with a slash
  OtherPaths,  \* paths that do not
  Unroutable,  \* paths that are no pattern: an unknown convertor, a repeated parameter
  Files,       \* the files an operator may seed: sequences of JSON objects
  MaxId        \* bound of the model: the largest row id

ASSUME RoutesAssumption == MaxId \in Nat /\ "" \notin Paths

VARIABLES
  rows,    \* table endpoints, by id
  todo,    \* seed-config: the routes it has still to look at
  absent,  \* seed-config: it has not found the first of them
  off      \* history: the rows that were switched off, and not on again

vars == <<rows, todo, absent, off>>

SecretProviders == {"stripe", "github", "shopify"}  \* _SECRET_ENV_PROVIDERS
Providers == SecretProviders \union {"paypal"}      \* the registry
Required == {"path", "provider", "upstream"}
Fields == Required \union {"replay_window", "secret_env", "webhook_id"}

(* Every value of a field. *)
Text ==
  Paths \union OtherPaths \union Providers
    \union {"", "other", "url", "good", "bad", "NAME", "ID"}

(* JSON objects whose values are strings; anything else is no file. *)
ASSUME FilesAssumption ==
  \A file \in Files :
    /\ Len(file) \in Nat /\ DOMAIN file = 1..Len(file)
    /\ \A i \in DOMAIN file : \A k \in DOMAIN file[i] : file[i][k] \in Text

(* What a form may hold. *)
Route ==
  [path : Paths \union OtherPaths \union {""}, provider : Providers \union {"other"},
   upstream : {"", "url"}, replay_window : {"", "good", "bad"},
   secret_env : {"", "NAME"}, webhook_id : {"", "ID"}]

Init ==
  /\ rows = << >>
  /\ todo = << >>
  /\ absent = FALSE
  /\ off = {}

-----------------------------------------------------------------------------
(* gwconfig.validate, and what the form adds to it *)

(* Slip: the window is only looked at when the path is new to the table. *)
ValidateNewWindows(r) ==
  /\ r.path # "" /\ r.upstream # ""
  /\ \/ r.provider = "paypal" /\ r.webhook_id # "" /\ r.secret_env = ""
     \/ /\ r.provider \in SecretProviders /\ r.secret_env # "" /\ r.webhook_id = ""
        /\ r.provider = "stripe" /\ (\A id \in DOMAIN rows : rows[id].path # r.path)
             => r.replay_window # "bad"

Validate(r) ==
  /\ r.path # "" /\ r.upstream # ""
  /\ \/ r.provider = "paypal" /\ r.webhook_id # "" /\ r.secret_env = ""
     \/ /\ r.provider \in SecretProviders /\ r.secret_env # "" /\ r.webhook_id = ""
        /\ r.provider = "stripe" => r.replay_window # "bad"

(* routes/endpoints.py _validate *)
FormValid(r) == r.path \in Paths /\ Validate(r)

-----------------------------------------------------------------------------
(* The table *)

(* An endpoint is a route, as a row. *)
Row(r, active) == [k \in Fields \union {"active"} |-> IF k = "active" THEN active ELSE r[k]]

(* from_endpoint *)
FromRow(row) == [k \in Fields |-> row[k]]

(* The UNIQUE and CHECK constraints, for a route that is to be row id. *)
TableAccepts(id, r) ==
  /\ \A other \in DOMAIN rows \ {id} : rows[other].path # r.path
  /\ r.provider \in Providers
  /\ IF r.provider = "paypal" THEN r.webhook_id # "" /\ r.secret_env = ""
                              ELSE r.secret_env # "" /\ r.webhook_id = ""

(* One more than the largest id in use. *)
IsNewId(id) ==
  /\ \A other \in DOMAIN rows : other < id
  /\ id = 1 \/ id - 1 \in DOMAIN rows

(* create_endpoint *)
Insert(id, r) ==
  /\ IsNewId(id)
  /\ rows' = [n \in DOMAIN rows \union {id} |-> IF n = id THEN Row(r, TRUE) ELSE rows[n]]

(* handle_endpoint_create; 0 is the id of a route that has no row. *)
Create(id, r) ==
  /\ FormValid(r)
  /\ TableAccepts(0, r)
  /\ Insert(id, r)
  /\ UNCHANGED <<todo, absent, off>>

(* Slip: the row is written whole, with the form's default of active. *)
UpdateWhole(id, r) ==
  /\ FormValid(r)
  /\ TableAccepts(id, r)
  /\ rows' = [rows EXCEPT ![id] = Row(r, TRUE)]
  /\ UNCHANGED <<todo, absent, off>>

(* handle_endpoint_update: everything but active. *)
Update(id, r) ==
  /\ FormValid(r)
  /\ TableAccepts(id, r)
  /\ rows' = [rows EXCEPT ![id] = Row(r, rows[id].active)]
  /\ UNCHANGED <<todo, absent, off>>

(* handle_endpoint_toggle_active *)
Toggle(id) ==
  /\ rows' = [rows EXCEPT ![id].active = ~@]
  /\ off' = IF rows[id].active THEN off \union {id} ELSE off \ {id}
  /\ UNCHANGED <<todo, absent>>

(* handle_endpoint_delete *)
Delete(id) ==
  /\ rows' = [other \in DOMAIN rows \ {id} |-> rows[other]]
  /\ off' = off \ {id}
  /\ UNCHANGED <<todo, absent>>

-----------------------------------------------------------------------------
(* Export and import *)

(* Slip: the window is only written for the provider that uses it. *)
MarshalUsedWindow(r) ==
  [k \in {f \in Fields : f = "replay_window" => r.provider = "stripe"} |-> r[k]]

(* A route as a JSON object; an empty webhook_id is left out. *)
Marshal(r) == [k \in {f \in Fields : f = "webhook_id" => r[f] # ""} |-> r[k]]

(* The active rows.  They are ordered by path; as paths differ, the set     *)
(* says it all.                                                             *)
Export == {Marshal(FromRow(rows[id])) : id \in {i \in DOMAIN rows : rows[i].active}}

(* Config.model_validate: unknown keys are refused, ... *)
WellFormed(item) == Required \subseteq DOMAIN item /\ DOMAIN item \subseteq Fields

(* ... missing ones take their default. *)
Load(item) == [k \in Fields |-> IF k \in DOMAIN item THEN item[k] ELSE ""]

Importable(item) == WellFormed(item) /\ Validate(Load(item))

-----------------------------------------------------------------------------
(* seed-config *)

(* import_config: every route is valid or the command exits at once. *)
SeedBegin(file) ==
  /\ todo = << >>
  /\ \A i \in DOMAIN file : Importable(file[i])
  /\ todo' = [i \in DOMAIN file |-> Load(file[i])]
  /\ UNCHANGED <<rows, absent, off>>

Found == \E id \in DOMAIN rows : rows[id].path = todo[1].path

(* get_endpoint_by_path: a path that exists is skipped. *)
SeedSkip ==
  /\ todo # << >> /\ ~absent
  /\ Found
  /\ todo' = Tail(todo)
  /\ UNCHANGED <<rows, absent, off>>

SeedMiss ==
  /\ todo # << >> /\ ~absent
  /\ ~Found
  /\ absent' = TRUE
  /\ UNCHANGED <<rows, todo, off>>

SeedInsert(id) ==
  /\ absent
  /\ TableAccepts(0, todo[1])
  /\ Insert(id, todo[1])
  /\ todo' = Tail(todo)
  /\ absent' = FALSE
  /\ UNCHANGED off

(* The path was created after the look: the command dies of the error, and  *)
(* what it has inserted stays.                                              *)
SeedDies ==
  /\ absent
  /\ ~TableAccepts(0, todo[1])
  /\ todo' = << >>
  /\ absent' = FALSE
  /\ UNCHANGED <<rows, off>>

Seed == SeedSkip \/ SeedMiss \/ SeedDies \/ \E id \in 1..MaxId : SeedInsert(id)

-----------------------------------------------------------------------------
(* The gateway's startup on a file, given the variables that are set *)

Secrets == {rows[id].secret_env : id \in DOMAIN rows} \ {""}

(* The provider factories, after the registry. *)
Builds(r, env) ==
  \/ r.provider = "paypal" /\ r.webhook_id # ""
  \/ r.provider = "stripe" /\ r.secret_env \in env /\ r.replay_window # "bad"
  \/ r.provider \in {"github", "shopify"} /\ r.secret_env \in env

(* add_api_route compiles the path, which the framework reads as a pattern. *)
Registers(r) == r.path \notin Unroutable

(* load_config and build_app: one bad route and the gateway does not start. *)
Starts(items, env) ==
  \A item \in items : WellFormed(item) /\ Builds(Load(item), env) /\ Registers(Load(item))

-----------------------------------------------------------------------------

Next ==
  \/ \E id \in 1..MaxId, r \in Route : Create(id, r)
  \/ \E id \in DOMAIN rows :
       \/ Toggle(id) \/ Delete(id)
       \/ \E r \in Route : Update(id, r)
  \/ \E file \in Files : SeedBegin(file)
  \/ Seed

Spec == Init /\ [][Next]_vars

-----------------------------------------------------------------------------
(* Properties *)

(* validate applies "the same per-provider rules the Gateway's factories    *)
(* apply": whatever was created, edited, switched and seeded, a gateway     *)
(* that has the named secrets starts on every route the console exports,    *)
(* unless its path is no pattern.                                           *)
OnlyPathsKeepFromStarting ==
  \A item \in Export : Starts({item}, Secrets) \/ ~Registers(Load(item))

(* "Raises ConfigValidationError on anything the Gateway could not build":  *)
(* such a gateway starts on the whole file.                                 *)
ExportStarts == Starts(Export, Secrets)

(* An exported file, seeded into an empty console, is accepted and brings   *)
(* back the active routes, each under a path of its own.                    *)
ImportRestores ==
  /\ \A item \in Export : Importable(item)
  /\ \A a, b \in Export : a.path = b.path => a = b
  /\ {Row(Load(item), TRUE) : item \in Export} =
       {rows[id] : id \in {i \in DOMAIN rows : rows[i].active}}

(* "Editing a route must not silently re-enable a disabled one": a row that *)
(* was switched off is in no export until it is switched on, however often  *)
(* it is edited and whatever is seeded.                                     *)
DisabledStaysOut ==
  \A id \in off : id \in DOMAIN rows /\ Marshal(FromRow(rows[id])) \notin Export
=============================================================================
