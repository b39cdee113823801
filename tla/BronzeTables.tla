----------------------------- MODULE BronzeTables -----------------------------
(***************************************************************************)
(* What the notebooks of one catalog agree on: pk_config.json and          *)
(* schema.json on the volume, the hashes of both that                      *)
(* _meta_bronze_schema_versions keeps for every project, the key registry, *)
(* and the bronze tables.  The updates of Pipeline A ("snapshot") and      *)
(* Pipeline B ("cdc") and the seed_registry task of the workflows run side *)
(* by side and read and write them in separate transactions.               *)
(*                                                                         *)
(* One table stands for each pipeline (their tables are disjoint), with    *)
(* two columns that can be its key and one whose type changes; "others"    *)
(* stands for the other tables of its schema.  A pipeline runs either the  *)
(* notebooks on acc_pipeline_common or the roll-back notebooks auto_cdc_*. *)
(* Rows, status rows and column comments are left out; the hash of a file  *)
(* is its content.                                                         *)
(*                                                                         *)
(* BronzeInit, BronzeNext and BronzeSpec bear the name of the module, for  *)
(* DataPathProofs extends it together with DcExport.                       *)
(***************************************************************************)
EXTENDS Naturals, Sequences

CONSTANTS
    Projects,       \* projects that are synchronised into the catalog
    Deployments,    \* bound: the sets of pipelines whose updates are considered together
    MaxUpdates,     \* bound: pipeline updates
    MaxSeeds,       \* bound: seed_registry tasks
    MaxEvents,      \* bound: uploads, schema changes, landed folders, keys set from
                    \* outside, and failed reads, writes, updates and tasks
    NoValue

ASSUME BronzeAssumption ==
    /\ Deployments \subseteq SUBSET {"snapshot", "cdc"}
    /\ MaxUpdates \in Nat /\ MaxSeeds \in Nat /\ MaxEvents \in Nat

VARIABLES
    config,         \* pk_config.json: the key column listed for each table
    doc,            \* schema.json: the type of the column of every table
    pkHash,         \* config_hash of pk_config, by project
    schemaHash,     \* config_hash of schema_json, by project
    seeded,         \* the registry has the rows of the other tables
    registry,       \* the registry row of each table
    landed,         \* header of the CSV in each run folder of each table
    bronze,         \* each table: its declared type, the folder and version last ingested
    code,           \* the notebooks each pipeline runs, if it is there
    hash,           \* hash(path) of the CSV in each folder
    u,              \* what each update, or the seed_registry task, is at
    updates, seeds, events,
    follow,         \* history: the configuration the last seeding said it had applied
    past,           \* history: configurations that were uploaded
    stale,          \* history: one was uploaded again, or while rows were being merged
    told,           \* history: schema documents whose change an update has reported
    fed,            \* history: key columns by which each table was fed since its rebuild
    reconfigured,   \* history: tables whose key an operator changed
    unsure          \* history: tables for which a read or an insert failed or came too late

bronzeVars == <<config, doc, pkHash, schemaHash, seeded, registry, landed, bronze, code, hash, u,
                updates, seeds, events, follow, past, stale, told, fed, reconfigured, unsure>>
onVolume == <<config, doc, landed>>
meta == <<pkHash, schemaHash, seeded, registry>>
counts == <<updates, seeds>>
seedHistory == <<follow, past, stale>>
tableHistory == <<told, fed, reconfigured, unsure>>

-----------------------------------------------------------------------------
(* Types and helpers *)

No == "none"
Pipelines == {"snapshot", "cdc"}
Workers == Pipelines \cup {"seed_registry"}
Columns == {"a", "b"}
FirstOrdinal == "a"
Headers == {<<"a", "b">>, <<"b", "a">>, <<"b">>}
Types == {"int", "bigint"}
SAFE_WIDENINGS == {<<"int", "bigint">>}
_PK_CONFIG_UPDATABLE_SOURCES == {"auto_position_1", "explicit_pk_config"}
\* A registry row has a source, one of these or "manual_override", which no file overrides.
NoRow == [pk |-> No, source |-> No]
NoTable == [type |-> No, folder |-> 0, version |-> 0]

Idle == [pc |-> "idle", project |-> No, full |-> FALSE, cfg |-> [t \in Pipelines |-> No],
         todo |-> {}, doc |-> No, changed |-> FALSE, row |-> NoRow, known |-> FALSE,
         key |-> No, type |-> No, folder |-> 0]

BronzeInit ==
    /\ config \in {[t \in Pipelines |-> key] : key \in {No, "a"}} /\ doc = No
    /\ pkHash = [q \in Projects |-> NoValue] /\ schemaHash = [q \in Projects |-> NoValue]
    /\ seeded = FALSE /\ registry = [t \in Pipelines |-> NoRow]
    /\ landed = [t \in Pipelines |-> << <<"a", "b">> >>] /\ bronze = [t \in Pipelines |-> NoTable]
    /\ \E there \in Deployments, notebooks \in {"common", "standalone"} :
          /\ code = [p \in Pipelines |-> IF p \in there THEN notebooks ELSE No]
          /\ hash \in IF "snapshot" \in there THEN {<<1, 2>>, <<2, 1>>} ELSE {<<1, 2>>}
    /\ u = [w \in Workers |-> Idle]
    /\ updates = 0 /\ seeds = 0 /\ events = 0
    /\ follow = NoValue /\ past = {config} /\ stale = FALSE
    /\ told = {} /\ fed = [t \in Pipelines |-> {}] /\ reconfigured = {} /\ unsure = {}

Deployed == {p \in Pipelines : code[p] # No}
At(w, where) == u[w].pc = where
Event == events < MaxEvents /\ events' = events + 1
Seeding(w) == u[w].pc \in {"merge", "hash"}
\* The two statements select config_hash by catalog and config_type only, so the row
\* that comes first may be that of any project.
Stored(hashes) == {hashes[q] : q \in Projects} \ {NoValue}

-----------------------------------------------------------------------------
(* pk_config.json into the registry: pipelines and seed_registry alike *)

start_update(p) ==
    /\ At(p, "idle") /\ updates < MaxUpdates /\ updates' = updates + 1
    /\ \E q \in Projects, full \in IF p = "cdc" THEN BOOLEAN ELSE {FALSE} :
          u' = [u EXCEPT ![p] = [Idle EXCEPT !.pc = "seed", !.project = q, !.full = full]]
    /\ UNCHANGED <<onVolume, meta, bronze, code, hash, seeds, events, seedHistory, tableHistory>>

seed_registry ==
    /\ At("seed_registry", "idle") /\ seeds < MaxSeeds /\ seeds' = seeds + 1
    /\ \E q \in Projects :
          u' = [u EXCEPT !["seed_registry"] = [Idle EXCEPT !.pc = "seed", !.project = q]]
    /\ UNCHANGED <<onVolume, meta, bronze, code, hash, updates, events, seedHistory, tableHistory>>

AfterSeed(w) == IF w = "seed_registry" THEN "write" ELSE "schema"

SeedUnchanged(w) ==
    /\ At(w, "seed") /\ seeded /\ config \in Stored(pkHash)
    /\ u' = [u EXCEPT ![w].pc = AfterSeed(w)]
    /\ follow' = config
    /\ UNCHANGED <<onVolume, meta, bronze, code, hash, counts, events, past, stale, tableHistory>>

SeedChanged(w) ==
    /\ At(w, "seed")
    /\ \/ /\ ~seeded \/ Stored(pkHash) = {} \/ Stored(pkHash) \ {config} # {}
          /\ UNCHANGED events
       \/ Event
    /\ u' = [u EXCEPT ![w].pc = "merge", ![w].cfg = config,
                      ![w].todo = {"others"} \cup {t \in Pipelines : config[t] # No}]
    /\ UNCHANGED <<onVolume, meta, bronze, code, hash, counts, seedHistory, tableHistory>>

\* Seeded bug: only rows of discovered tables are updated.
MergedAuto(row, key) ==
    IF row = NoRow \/ row.source = "auto_position_1"
    THEN [pk |-> key, source |-> "explicit_pk_config"] ELSE row

\* _PK_CONFIG_MERGE_UPDATE_CONDITION, and whenNotMatchedInsertAll.
Merged(row, key) ==
    IF row = NoRow \/ row.source \in _PK_CONFIG_UPDATABLE_SOURCES
    THEN [pk |-> key, source |-> "explicit_pk_config"] ELSE row

\* One batch of _REGISTRY_SEED_BATCH rows.
_seed_pk_registry(w) ==
    /\ At(w, "merge")
    /\ \E t \in u[w].todo :
          /\ u' = [u EXCEPT ![w].todo = @ \ {t},
                            ![w].pc = IF u[w].todo = {t} THEN "hash" ELSE "merge"]
          /\ IF t = "others" THEN seeded' = TRUE /\ UNCHANGED registry
             ELSE /\ registry' = [registry EXCEPT ![t] = Merged(@, u[w].cfg[t])]
                  /\ UNCHANGED seeded
    /\ UNCHANGED <<onVolume, pkHash, schemaHash, bronze, code, hash, counts, events, seedHistory, tableHistory>>

_delta_upsert_config_version(w) ==
    /\ At(w, "hash")
    /\ pkHash' = [pkHash EXCEPT ![u[w].project] = u[w].cfg]
    /\ follow' = u[w].cfg
    /\ u' = [u EXCEPT ![w].pc = AfterSeed(w), ![w].cfg = Idle.cfg]
    /\ UNCHANGED <<onVolume, schemaHash, seeded, registry, bronze, code, hash, counts, events, past, stale,
                   tableHistory>>

-----------------------------------------------------------------------------
(* schema.json *)

\* seed_registry: the Schema API, then the ZIP of the export, then the file as it is.
_ensure_schema_json ==
    LET w == "seed_registry" IN
    /\ At(w, "write")
    /\ \/ \E d \in Types :
             /\ IF doc \in {No, d} THEN UNCHANGED events ELSE Event
             /\ doc' = d /\ u' = [u EXCEPT ![w].pc = "write_hash", ![w].doc = d]
       \/ u' = [u EXCEPT ![w] = Idle] /\ UNCHANGED <<doc, events>>
    /\ UNCHANGED <<config, landed, meta, bronze, code, hash, updates, seeds, seedHistory, tableHistory>>

\* Seeded bug: the bytes of the file are hashed.
HashedFile == "file"

\* The hash of json.dumps(sort_keys=True), while the file is written with indent=2.
HashedForm == "sorted"

_write_schema_to_volume ==
    LET w == "seed_registry" IN
    /\ At(w, "write_hash")
    /\ schemaHash' = [schemaHash EXCEPT ![u[w].project] = <<u[w].doc, HashedForm>>]
    /\ u' = [u EXCEPT ![w] = Idle]
    /\ UNCHANGED <<onVolume, pkHash, seeded, registry, bronze, code, hash, counts, events, seedHistory,
                   tableHistory>>

\* _bootstrap_schema_json: a file that exists wins; else the ZIP or schemas/ of the export.
_bootstrap_schema_json(p) ==
    /\ At(p, "schema") /\ doc = No
    /\ \/ doc' \in Types /\ UNCHANGED u
       \/ u' = [u EXCEPT ![p].pc = "registry"] /\ UNCHANGED doc
    /\ UNCHANGED <<config, landed, meta, bronze, code, hash, counts, events, seedHistory, tableHistory>>

_load_typed_schemas(p) ==
    /\ At(p, "schema") /\ doc # No
    /\ \/ /\ <<doc, "file">> \in Stored(schemaHash)
          /\ u' = [u EXCEPT ![p].pc = "registry", ![p].doc = doc]
          /\ UNCHANGED <<events, told>>
       \/ /\ Stored(schemaHash) = {} \/ Stored(schemaHash) \ {<<doc, "file">>} # {}
          /\ u' = [u EXCEPT ![p].pc = "schema_hash", ![p].doc = doc, ![p].changed = TRUE]
          /\ told' = told \cup {doc} /\ UNCHANGED events
       \/ /\ Event
          /\ u' = [u EXCEPT ![p].pc = "registry", ![p].doc = doc, ![p].changed = TRUE]
          /\ told' = told \cup {doc}
    /\ UNCHANGED <<onVolume, meta, bronze, code, hash, counts, seedHistory, fed, reconfigured, unsure>>

SchemaSeen(p) ==
    /\ At(p, "schema_hash")
    /\ schemaHash' = [schemaHash EXCEPT ![u[p].project] = <<u[p].doc, "file">>]
    /\ u' = [u EXCEPT ![p].pc = "registry"]
    /\ UNCHANGED <<onVolume, pkHash, seeded, registry, bronze, code, hash, counts, events, seedHistory,
                   tableHistory>>

-----------------------------------------------------------------------------
(* The registry and the gate of each table *)

Common(p) == code[p] = "common"

\* The end of prepare_shared_bootstrap: schema.json adds the schemas it lists, in the
\* common notebooks only.  A registry that cannot be read is treated as empty.
_load_registry(p) ==
    /\ At(p, "registry")
    /\ \E ok \in BOOLEAN, typed \in IF p = "cdc" /\ Common(p) /\ u[p].doc # No THEN BOOLEAN ELSE {FALSE} :
          /\ IF ok THEN UNCHANGED <<events, unsure>> ELSE Event /\ unsure' = unsure \cup {p}
          /\ u' = [u EXCEPT ![p].row = IF ok THEN registry[p] ELSE NoRow,
                            ![p].known = (ok /\ seeded) \/ (Common(p) /\ u[p].doc # No),
                            ![p].pc = IF typed THEN "cdc_seed" ELSE "gate"]
    /\ UNCHANGED <<onVolume, meta, bronze, code, hash, counts, seedHistory, told, fed, reconfigured>>

\* _delta_merge_registry_rows and _seed_registry_from_schema: insert only.
Inserted(row, key) ==
    IF row = NoRow THEN [pk |-> key, source |-> "auto_position_1"] ELSE row

\* Pipeline B, with the per-domain schemas of the export: a key for each table that has
\* no row, then the registry again, this time without the schemas of schema.json.
seed_cdc_pk_registry_from_schemas ==
    LET p == "cdc" IN
    /\ At(p, "cdc_seed")
    /\ registry' = [registry EXCEPT ![p] = Inserted(@, FirstOrdinal)]
    /\ u' = [u EXCEPT ![p].pc = "reload"]
    /\ UNCHANGED <<onVolume, pkHash, schemaHash, seeded, bronze, code, hash, counts, events, seedHistory,
                   tableHistory>>

Reload ==
    LET p == "cdc" IN
    /\ At(p, "reload")
    /\ \E ok \in BOOLEAN :
          /\ IF ok THEN UNCHANGED <<events, unsure>> ELSE Event /\ unsure' = unsure \cup {p}
          /\ u' = [u EXCEPT ![p].row = IF ok THEN registry[p] ELSE NoRow,
                            ![p].known = ok /\ (seeded \/ registry[p] # NoRow),
                            ![p].pc = "gate"]
    /\ UNCHANGED <<onVolume, meta, bronze, code, hash, counts, seedHistory, told, fed, reconfigured>>

\* Header of the CSV: of the newest folder, but Pipeline B of the common notebooks
\* reads a glob over all of them.
HeadersRead(p) ==
    IF landed[p] = <<>> THEN {}
    ELSE IF p = "cdc" /\ Common(p) THEN {landed[p][f] : f \in DOMAIN landed[p]}
    ELSE {landed[p][Len(landed[p])]}

\* Seeded bug: a discovered key follows the first column of the CSV.
KeyOfHeader(p, header) == IF u[p].row.source \in {"explicit_pk_config", "manual_override"}
                          THEN u[p].row.pk ELSE header[1]

Key(p, header) == IF u[p].row # NoRow THEN u[p].row.pk ELSE header[1]

Safe(old, new) == old \in {No, new} \/ <<old, new>> \in SAFE_WIDENINGS

_build_evolved_schema(old, new) == IF Safe(old, new) THEN new ELSE old

\* _build_all_evolved_schemas; without an entry in schema.json all columns are strings.
Declared(p, old) ==
    IF u[p].doc = No THEN "string"
    ELSE IF u[p].changed THEN _build_evolved_schema(old, u[p].doc) ELSE u[p].doc

Skip(p) == u' = [u EXCEPT ![p] = Idle]

\* gate_table_common, then the registration of the flow.  The header, the schema and
\* the data decide whether the table is skipped: Pipeline B also wants a sequence
\* column and, in the common notebooks, keys that are not NULL.
Skipped(p) ==
    /\ At(p, "gate")
    /\ \/ HeadersRead(p) = {}
       \/ u[p].row = NoRow /\ ~u[p].known
       \/ \E h \in HeadersRead(p) : \A i \in DOMAIN h : h[i] # Key(p, h)
    /\ Skip(p)
    /\ UNCHANGED <<onVolume, meta, bronze, code, hash, counts, events, seedHistory, tableHistory>>

gate_table_common(p) ==
    /\ At(p, "gate")
    /\ u[p].row # NoRow \/ u[p].known
    /\ \E h \in HeadersRead(p), inserted \in BOOLEAN, read \in BOOLEAN :
          /\ \E i \in DOMAIN h : h[i] = Key(p, h)
          /\ u[p].row = NoRow \/ inserted
          /\ IF inserted /\ read THEN UNCHANGED events ELSE Event
          /\ registry' = IF u[p].row = NoRow /\ inserted
                         THEN [registry EXCEPT ![p] = Inserted(@, h[1])] ELSE registry
          /\ unsure' = IF inserted /\ read /\ (u[p].row = NoRow => registry[p] = NoRow)
                       THEN unsure ELSE unsure \cup {p}
          /\ \/ p = "cdc" /\ Skip(p)
             \/ u' = [u EXCEPT ![p] =
                   [Idle EXCEPT !.pc = "run", !.full = u[p].full, !.doc = u[p].doc, !.changed = u[p].changed,
                                !.key = Key(p, h), !.folder = Len(landed[p]),
                                !.type = Declared(p, IF read THEN bronze[p].type ELSE No)]]
    /\ UNCHANGED <<onVolume, pkHash, schemaHash, seeded, bronze, code, hash, counts, seedHistory, told, fed,
                   reconfigured>>

-----------------------------------------------------------------------------
(* The flows *)

\* next_snapshot: no newer version than the one ingested last, no rows.
IsNewer(p) == hash[u[p].folder] > bronze[p].version

Ingests(p) == p = "cdc" \/ ~Common(p) \/ IsNewer(p)

UpdateCompletes(p) ==
    /\ At(p, "run")
    /\ bronze' = [bronze EXCEPT ![p] =
          IF ~Ingests(p) THEN [bronze[p] EXCEPT !.type = u[p].type]
          ELSE [type |-> u[p].type, folder |-> u[p].folder,
                version |-> IF p = "snapshot" /\ Common(p) THEN hash[u[p].folder] ELSE 0]]
    /\ fed' = [fed EXCEPT ![p] =
          IF ~Ingests(p) THEN fed[p] ELSE IF u[p].full THEN {u[p].key} ELSE fed[p] \cup {u[p].key}]
    /\ u' = [u EXCEPT ![p] = Idle]
    /\ UNCHANGED <<onVolume, meta, code, hash, counts, events, seedHistory, told, reconfigured, unsure>>

\* An update, or the seed_registry task, raises or is stopped.
Fail(w) ==
    /\ ~At(w, "idle") /\ Event
    /\ u' = [u EXCEPT ![w] = Idle]
    /\ follow' = IF Seeding(w) THEN NoValue ELSE follow
    /\ UNCHANGED <<onVolume, meta, bronze, code, hash, counts, past, stale, tableHistory>>

-----------------------------------------------------------------------------
(* Around the notebooks *)

\* The bootstrap of another release of the program uploads its pk_config.json.
upload_pk_config(t, key) ==
    /\ config[t] # key /\ Event
    /\ config' = [config EXCEPT ![t] = key]
    /\ past' = past \cup {config'}
    /\ stale' = (stale \/ config' \in past \/ \E w \in Workers : Seeding(w))
    /\ reconfigured' = reconfigured \cup {t}
    /\ UNCHANGED <<doc, landed, meta, bronze, code, hash, u, updates, seeds, follow, told, fed, unsure>>

\* External: the operator sets a key by hand.
ManualOverride(t, key) ==
    /\ registry[t] # NoRow /\ registry[t].pk # key /\ Event
    /\ registry' = [registry EXCEPT ![t] = [pk |-> key, source |-> "manual_override"]]
    /\ reconfigured' = reconfigured \cup {t}
    /\ UNCHANGED <<onVolume, pkHash, schemaHash, seeded, bronze, code, hash, u, updates, seeds,
                   seedHistory, told, fed, unsure>>

\* A run lands a folder.
Land(t, header) ==
    /\ Len(landed[t]) < 2 /\ Event
    /\ landed' = [landed EXCEPT ![t] = Append(@, header)]
    /\ UNCHANGED <<config, doc, meta, bronze, code, hash, u, updates, seeds, seedHistory, tableHistory>>

\* The Flask path, before it starts the pipelines: the first column of each table.
_seed_registry_from_schema(t) ==
    /\ registry[t] = NoRow /\ Event
    /\ registry' = [registry EXCEPT ![t] = Inserted(@, FirstOrdinal)]
    /\ UNCHANGED <<onVolume, pkHash, schemaHash, seeded, bronze, code, hash, u, updates, seeds,
                   seedHistory, tableHistory>>

Seed(w) == SeedUnchanged(w) \/ SeedChanged(w) \/ _seed_pk_registry(w) \/ _delta_upsert_config_version(w)

BronzeNext ==
    \/ seed_registry \/ _ensure_schema_json \/ _write_schema_to_volume
    \/ \E w \in Workers : Seed(w) \/ Fail(w)
    \/ \E p \in Deployed :
          \/ start_update(p)
          \/ _bootstrap_schema_json(p) \/ _load_typed_schemas(p) \/ SchemaSeen(p)
          \/ _load_registry(p) \/ Skipped(p) \/ gate_table_common(p) \/ UpdateCompletes(p)
    \/ seed_cdc_pk_registry_from_schemas \/ Reload
    \/ \E t \in Deployed :
          \/ \E key \in Columns \cup {No} : upload_pk_config(t, key)
          \/ \E key \in Columns : ManualOverride(t, key)
          \/ \E header \in Headers : Land(t, header)
          \/ _seed_registry_from_schema(t)

BronzeSpec == BronzeInit /\ [][BronzeNext]_bronzeVars

-----------------------------------------------------------------------------
(* Properties *)

\* When nobody is at it, the registry has the keys of the pk_config.json that the last
\* seeding, or the one that skipped it as unchanged, found: rows set by hand excepted,
\* and unless an earlier file had come back or a new one arrived during a seeding.
SeedFollowsConfig ==
    follow # NoValue /\ ~stale /\ (\A w \in Workers : ~Seeding(w)) =>
        \A t \in Pipelines : follow[t] # No =>
            registry[t].source = "manual_override" \/ registry[t].pk = follow[t]

\* A table is fed by one key until it is rebuilt, whatever columns its CSVs begin with
\* and whoever discovered it first, unless an operator changed its key or a read or
\* an insert of the registry failed or was overtaken.
OneKeyUnlessConfigured ==
    \A t \in Pipelines : (\E a, b \in fed[t] : a # b) => t \in reconfigured \cup unsure

\* An update that sees schema.json changed keeps the old type of a column where the new
\* one could lose values.  An update that does not see it declares the new type: that
\* some update has seen the change before is all that is guaranteed.
UnsafeTypeWasTold ==
    \A p \in Pipelines : At(p, "run") /\ ~Safe(bronze[p].type, u[p].type) =>
        \/ u[p].doc \in told /\ ~u[p].changed
        \/ p \in unsure
=============================================================================
