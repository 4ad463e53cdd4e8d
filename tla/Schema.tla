------------------------------- MODULE Schema -------------------------------
(***************************************************************************)
(* The seventeen revisions under alembic/versions, as what each changes of *)
(* the database's catalogue.  An object of the catalogue is a tuple: its   *)
(* kind, then what it belongs to.  Ordinary columns, checks and indexes    *)
(* written with a table come and go with it and are part of it; a foreign  *)
(* key, a use of an enum, a trigger and whatever a later revision adds to  *)
(* a table are objects of their own.                                       *)
(***************************************************************************)
EXTENDS Naturals, Sequences
LOCAL INSTANCE SequencesExt

Table(t) == <<"table", t>>
Enum(e) == <<"enum", e>>
Routine(f) == <<"function", f>>
Trigger(t, f) == <<"trigger", t, f>>
Wide == <<"column", "alembic_version", "varchar(255)">>   \* the width 0006 gives version_num

\* What PostgreSQL wants there for an object to be, and drops with CASCADE or else defends.
RestsOn(o) ==
  CASE o[1] = "fk" -> {Table(o[2]), Table(o[3])}
    [] o[1] = "uses" -> {Table(o[2]), Enum(o[3])}
    [] o[1] = "trigger" -> {Table(o[2]), Routine(o[3])}
    [] o[1] \in {"column", "index", "check", "partitions", "seeds"} /\ o # Wide -> {Table(o[2])}
    [] OTHER -> {}

-----------------------------------------------------------------------------
(* A revision is a sequence of statements, each a kind and the objects, or for DROP TABLE
   the tables, it is about. *)

Add(S) == <<"create", S>>
Ensure(S) == <<"ensure", S>>            \* CREATE ... IF NOT EXISTS
Drop(S) == <<"drop", S>>
Discard(S) == <<"discard", S>>          \* DROP ... IF EXISTS, DELETE
Retire(S) == <<"retire", S>>            \* DROP TYPE, DROP FUNCTION IF EXISTS
DropTables(T) == <<"drop tables", T>>   \* IF EXISTS ... CASCADE

\* CREATE TABLE: a name, its parents by what ON DELETE says of them (RESTRICT, CASCADE,
\* SET NULL), and the enums of its columns.
New(row) == {Table(row[1])} \cup {<<"fk", row[1], p, "RESTRICT">> : p \in row[2]}
                           \cup {<<"fk", row[1], p, "CASCADE">> : p \in row[3]}
                           \cup {<<"fk", row[1], p, "SET NULL">> : p \in row[4]}
                           \cup {<<"uses", row[1], e>> : e \in row[5]}
CreateTables(group) == [i \in DOMAIN group |-> Add(New(group[i]))]
-----------------------------------------------------------------------------
(* 0001_baseline *)

Extensions == {<<"extension", e>> : e \in {"pgcrypto", "citext", "pg_trgm", "vector",
                                           "btree_gin"}}

BaselineEnums == {Enum(e) : e \in
  {"auth_role", "version_reason", "media_kind", "media_source", "storage_backend",
   "track_kind", "prompt_kind", "workflow_status", "step_status", "render_status",
   "export_status", "export_format", "export_quality", "export_orientation", "plugin_kind",
   "model_status", "pricing_unit", "usage_status", "subscription_status", "invoice_status",
   "billing_cycle", "ledger_entry_type", "flag_type", "flag_scope", "idempotency_status",
   "audit_actor_kind"}}

Routines == {Routine(f) : f \in {"touch_updated_at", "bump_version", "reject_mutation",
                                 "enforce_credit_ledger_balance"}}

Partitioned == {"usage_records", "analytics_events", "event_log", "audit_log"}
Partitions == {<<"partitions", t>> : t \in Partitioned}

TenancyTables == <<
  <<"tenants", {}, {}, {}, {}>>,
  <<"users", {"tenants"}, {}, {}, {}>>,
  <<"oauth_identities", {}, {"users"}, {}, {}>>,
  <<"sessions", {}, {"users"}, {}, {}>>,
  <<"roles", {}, {}, {}, {}>>,
  <<"roles_users", {}, {"roles", "users"}, {"users"}, {}>>,
  <<"folders", {"tenants", "users"}, {"folders"}, {}, {}>> >>

ContentTables == <<
  <<"tags", {"tenants"}, {}, {}, {}>>,
  <<"projects", {"tenants", "users"}, {}, {"folders"}, {}>>,
  <<"project_versions", {"project_versions", "users"}, {"projects"}, {}, {"version_reason"}>>,
  <<"project_tags", {}, {"projects", "tags"}, {}, {}>>,
  <<"storyboards", {}, {"projects"}, {"project_versions"}, {}>>,
  <<"scenes", {}, {"storyboards"}, {}, {}>> >>

CurrentVersion == <<"fk", "projects", "project_versions", "SET NULL">>

ModelTables == <<
  <<"ai_models", {}, {}, {"ai_models"}, {"plugin_kind", "model_status"}>>,
  <<"prompts", {}, {"projects"}, {"scenes", "ai_models"}, {"prompt_kind"}>>,
  <<"ai_model_pricing", {"ai_models"}, {}, {}, {"pricing_unit"}>>,
  <<"provider_plugin_registrations", {}, {}, {}, {"plugin_kind"}>> >>

MediaTables == <<
  <<"media_assets", {"tenants", "users", "ai_models"}, {}, {"projects", "scenes", "prompts"},
      {"media_kind", "media_source", "storage_backend"}>>,
  <<"library_folders", {"tenants", "users"}, {"library_folders"}, {}, {}>>,
  <<"library_assets", {"tenants", "users", "media_assets"}, {}, {"library_folders"}, {}>>,
  <<"library_asset_projects", {}, {"library_assets", "projects"}, {}, {}>> >>

TimelineTables == <<
  <<"transitions", {}, {}, {}, {}>>,
  <<"timelines", {}, {"projects"}, {"project_versions"}, {}>>,
  <<"tracks", {}, {"timelines"}, {}, {"track_kind"}>>,
  <<"clips", {}, {"tracks"}, {"media_assets", "transitions"}, {}>> >>

WorkflowTables == <<
  <<"workflow_runs", {}, {"projects"}, {"users"}, {"workflow_status"}>>,
  <<"workflow_steps", {}, {"workflow_runs"}, {}, {"step_status"}>>,
  <<"workflow_checkpoints", {}, {"workflow_runs"}, {}, {}>> >>

JobTables == <<
  <<"render_jobs", {"timelines"}, {"projects"}, {"workflow_runs", "media_assets"},
      {"render_status"}>>,
  <<"export_jobs", {"users"}, {"render_jobs"}, {"media_assets"},
      {"export_format", "export_quality", "export_orientation", "export_status"}>> >>

UsageTables == <<
  <<"usage_records", {"tenants", "ai_models"}, {},
      {"users", "projects", "scenes", "prompts", "workflow_runs", "workflow_steps",
       "ai_model_pricing"}, {"pricing_unit", "usage_status"}>>,
  <<"cost_reconciliations", {"tenants", "ai_models"}, {}, {}, {}>> >>

BillingTables == <<
  <<"plans", {}, {}, {}, {"billing_cycle"}>>,
  <<"subscriptions", {"tenants", "plans"}, {}, {}, {"subscription_status"}>>,
  <<"invoices", {"subscriptions"}, {}, {}, {"invoice_status"}>>,
  <<"credit_ledger", {"tenants"}, {}, {"users", "invoices"}, {"ledger_entry_type"}>> >>

MessagingTables == <<
  <<"feature_flags", {}, {}, {}, {"flag_type"}>>,
  <<"feature_flag_overrides", {}, {"feature_flags"}, {}, {"flag_scope"}>>,
  <<"notifications", {}, {"users"}, {}, {}>>,
  <<"analytics_events", {}, {}, {"tenants", "users"}, {}>>,
  <<"event_outbox", {}, {}, {}, {}>>,
  <<"event_log", {}, {}, {}, {}>> >>

SettingsTables == <<
  <<"system_settings", {}, {}, {"users"}, {}>>,
  <<"tenant_settings", {}, {"tenants"}, {"users"}, {}>>,
  <<"provider_settings", {}, {"tenants"}, {"users"}, {}>>,
  <<"templates", {"tenants", "users"}, {}, {}, {}>>,
  <<"webhook_deliveries", {}, {"tenants"}, {}, {}>> >>

OperationsTables == <<
  <<"idempotency_keys", {}, {"tenants"}, {}, {"idempotency_status"}>>,
  <<"distributed_locks", {}, {}, {}, {}>>,
  <<"audit_log", {}, {}, {"tenants", "users"}, {"audit_actor_kind"}>>,
  <<"agent_memory", {}, {"tenants"}, {"users", "projects"}, {}>>,
  <<"_backup_sentinel", {}, {}, {}, {}>> >>

Stamped == {"tenants", "users", "oauth_identities", "folders", "tags", "projects",
  "storyboards", "scenes", "prompts", "ai_models", "provider_plugin_registrations",
  "media_assets", "library_folders", "library_assets", "transitions", "timelines", "tracks",
  "clips", "workflow_runs", "workflow_steps", "render_jobs", "export_jobs", "plans",
  "subscriptions", "invoices", "feature_flags", "feature_flag_overrides", "notifications",
  "system_settings", "tenant_settings", "provider_settings", "templates",
  "webhook_deliveries", "agent_memory"}

Versioned == {"users", "projects", "storyboards", "scenes", "library_assets", "timelines",
  "render_jobs", "export_jobs", "subscriptions", "feature_flags", "system_settings",
  "tenant_settings", "provider_settings", "templates"}

Immutable == {"project_versions", "ai_model_pricing", "workflow_checkpoints",
  "usage_records", "credit_ledger", "analytics_events", "event_log", "audit_log"}

BaselineTriggers == {Trigger(t, "touch_updated_at") : t \in Stamped}
  \cup {Trigger(t, "bump_version") : t \in Versioned}
  \cup {Trigger(t, "reject_mutation") : t \in Immutable}
  \cup {Trigger("credit_ledger", "enforce_credit_ledger_balance")}

Baseline ==
  <<Ensure(Extensions), Add(BaselineEnums), Add(Routines)>>
  \o CreateTables(TenancyTables) \o CreateTables(ContentTables) \o <<Add({CurrentVersion})>>
  \o CreateTables(ModelTables) \o CreateTables(MediaTables) \o CreateTables(TimelineTables)
  \o CreateTables(WorkflowTables) \o CreateTables(JobTables) \o CreateTables(UsageTables)
  \o CreateTables(BillingTables) \o CreateTables(MessagingTables)
  \o CreateTables(SettingsTables) \o CreateTables(OperationsTables)
  \o <<Ensure(Partitions), Add(BaselineTriggers)>>
-----------------------------------------------------------------------------
(* 0002 to 0009, and 0015, 0016: what they add to tables that are there. *)

\* The tables 0002 inserts its rows into.
Seeded == {"plans", "feature_flags", "provider_plugin_registrations", "ai_models", "roles",
           "system_settings"}
Seeds == {<<"seeds", t>> : t \in Seeded}

ExportUnique == <<"index", "export_jobs", "uq_render_job_id_format_quality_orientation">>
KeyUpdatedAt == <<"column", "idempotency_keys", "updated_at">>
KeyTouch == Trigger("idempotency_keys", "touch_updated_at")
KeyHash == <<"check", "idempotency_keys", "response_hash_matches_status">>
LeaseCheck == <<"check", "distributed_locks", "lease_until_after_acquired_at">>
RequestUnique == <<"index", "usage_records", "uq_of_each_partition_request_id">>
ProjectPages == <<"index", "projects", "ix_owner_created_id">>
NoticeSource == <<"column", "notifications", "source_event_id">>
NoticeUnique == <<"index", "notifications", "uq_user_id_source_event_id">>
MetricSource == <<"column", "analytics_events", "source_event_id">>
MetricIndexes == {<<"index", "analytics_events", "uq_source_event_id">>,
                  <<"index", "analytics_events", "ix_user_id_occurred_at">>}
Ownership == {<<"column", "generations", c>> : c \in {"tenant_id", "owner_user_id",
                                                      "idempotency_key", "request"}}
  \cup {<<"fk", "generations", p, "RESTRICT">> : p \in {"tenants", "users"}}
OwnerIndexes == {<<"index", "generations", "ix_owner_created">>,
                 <<"index", "generations", "uq_owner_idempotency_key">>}
-----------------------------------------------------------------------------
(* 0010 to 0014 and 0017: the tables of the generation runtime, publishing and the worlds. *)

CatalogueEnums == {Enum(e) : e \in {"provider_pricing", "provider_auth", "adapter_status",
  "adapter_execution_mode", "cost_unit", "cost_source", "routing_strategy", "fallback_mode",
  "selection_mode", "gpu_backend", "generation_mode", "capability_dep_kind"}}

CatalogueTables == <<
  <<"capabilities", {}, {}, {}, {"plugin_kind"}>>,
  <<"capability_dependencies", {"capabilities"}, {"capabilities"}, {},
      {"capability_dep_kind"}>>,
  <<"providers", {}, {}, {}, {"provider_auth", "provider_pricing"}>>,
  <<"provider_adapters", {"capabilities"}, {"providers"}, {},
      {"adapter_status", "adapter_execution_mode", "cost_unit", "cost_source"}>>,
  <<"adapter_fallbacks", {"provider_adapters"}, {"provider_adapters"}, {}, {}>>,
  <<"routing_policies", {}, {}, {}, {"routing_strategy", "fallback_mode",
                                       "selection_mode"}>>,
  <<"device_profiles", {}, {}, {}, {"gpu_backend", "generation_mode"}>>,
  <<"provider_registry_meta", {}, {}, {}, {}>> >>

StateEnums == {Enum(e) : e \in {"quota_window", "execution_result"}}

StateTables == <<
  <<"provider_health", {}, {"providers"}, {}, {}>>,
  <<"provider_quota_state", {}, {"providers"}, {}, {"quota_window"}>>,
  <<"adapter_runtime_metrics", {}, {"provider_adapters"}, {}, {}>>,
  <<"local_runtime_state", {}, {"device_profiles"}, {}, {}>>,
  <<"generation_resolution_ledger", {}, {}, {}, {"routing_strategy", "execution_result"}>> >>

RunEnums == {Enum(e) : e \in {"generation_status", "generation_asset_kind",
                              "execution_tier"}}

RunTables == <<
  <<"generations", {}, {}, {}, {"generation_status", "execution_tier", "storage_backend"}>>,
  <<"generation_assets", {}, {"generations"}, {"generation_assets"},
      {"generation_asset_kind", "storage_backend"}>>,
  <<"generation_shots", {}, {"generations"}, {"generation_assets"}, {}>>,
  <<"model_cache", {}, {}, {}, {"execution_tier"}>> >>

SocialTables == <<
  <<"social_accounts", {"tenants"}, {"users"}, {}, {"social_account_status"}>>,
  <<"social_credentials", {}, {"social_accounts"}, {}, {}>> >>

PublishTables == <<
  <<"publish_jobs", {"tenants", "users", "media_assets"},
      {"projects", "export_jobs", "social_accounts"}, {}, {"publish_status"}>> >>

IdentityTables == <<
  <<"identity_profiles", {"tenants", "users"}, {}, {}, {}>>,
  <<"identity_characters", {}, {"identity_profiles"}, {}, {}>>,
  <<"identity_locations", {}, {"identity_profiles"}, {}, {}>>,
  <<"identity_props", {}, {"identity_profiles"}, {}, {}>> >>

\* Both of publish_jobs (0014) and of identity_profiles (0017).
Stamps(t) == Add({Trigger(t, "touch_updated_at"), Trigger(t, "bump_version")})
-----------------------------------------------------------------------------
Latest == 17
Revision == 0..Latest    \* 0 is base

Up == <<Baseline,
        <<Ensure(Seeds)>>,
        <<Add({ExportUnique})>>,
        <<Add({KeyUpdatedAt}), Add({KeyTouch}), Add({KeyHash})>>,
        <<Add({LeaseCheck})>>,
        <<Add({Wide})>>,
        <<Ensure({RequestUnique})>>,
        <<Add({ProjectPages})>>,
        <<Add({NoticeSource}), Add({NoticeUnique})>>,
        <<Add(CatalogueEnums)>> \o CreateTables(CatalogueTables),
        <<Add(StateEnums)>> \o CreateTables(StateTables),
        <<Add(RunEnums)>> \o CreateTables(RunTables),
        <<Add({Enum("social_account_status")})>> \o CreateTables(SocialTables),
        <<Add({Enum("publish_status")})>> \o CreateTables(PublishTables)
          \o <<Stamps("publish_jobs")>>,
        <<Add({MetricSource}), Add(MetricIndexes)>>,
        <<Add(Ownership), Add(OwnerIndexes)>>,
        CreateTables(IdentityTables) \o <<Stamps("identity_profiles")>> >>

Objects == UNION {UNION {Up[r][i][2] : i \in DOMAIN Up[r]} : r \in 1..Latest}

BaselineDrops == {"_backup_sentinel", "agent_memory", "audit_log", "distributed_locks",
  "idempotency_keys", "webhook_deliveries", "templates", "provider_settings",
  "tenant_settings", "system_settings", "event_log", "event_outbox", "analytics_events",
  "notifications", "feature_flag_overrides", "feature_flags", "credit_ledger", "invoices",
  "subscriptions", "plans", "cost_reconciliations", "usage_records", "export_jobs",
  "render_jobs", "workflow_checkpoints", "workflow_steps", "workflow_runs", "clips",
  "tracks", "timelines", "transitions", "library_asset_projects", "library_assets",
  "library_folders", "media_assets", "provider_plugin_registrations", "ai_model_pricing",
  "prompts", "ai_models", "scenes", "storyboards", "project_tags", "project_versions",
  "projects", "folders", "tags", "roles_users", "roles", "sessions", "oauth_identities",
  "users", "tenants"}

\* The extensions stay: they may be shared.
BaselineUndone == <<Discard(Partitions), DropTables(BaselineDrops), Retire(Routines),
                    Retire(BaselineEnums)>>

CatalogueDrops == {"provider_registry_meta", "device_profiles", "routing_policies",
                   "adapter_fallbacks", "provider_adapters", "providers",
                   "capability_dependencies", "capabilities"}
StateDrops == {"generation_resolution_ledger", "local_runtime_state",
               "adapter_runtime_metrics", "provider_quota_state", "provider_health"}
RunDrops == {"model_cache", "generation_shots", "generation_assets", "generations"}
IdentityDrops == {"identity_characters", "identity_locations", "identity_props",
                  "identity_profiles"}

\* (Mutant: the types a downgrade forgets.)
UndoneButTypes(T, enums) == <<DropTables(T)>>
Undone(T, enums) == <<DropTables(T), Retire(enums)>>

\* A revision's name is written to version_num, where 32 characters fit until 0006.
NameLength == <<13, 21, 31, 32, 28, 30, 36, 30, 34, 23, 31, 22, 20, 17, 37, 25, 21>>
Named(r) == <<"name", IF r = 0 \/ NameLength[r] <= 32 THEN {} ELSE {Wide}>>

Down == <<BaselineUndone,
          <<Discard(Seeds)>>,
          <<Drop({ExportUnique})>>,
          <<Drop({KeyHash}), Drop({KeyTouch}), Drop({KeyUpdatedAt})>>,
          <<Drop({LeaseCheck})>>,
          <<Drop({Wide}), Named(6)>>,    \* the row still names 0006
          <<Discard({RequestUnique})>>,
          <<Drop({ProjectPages})>>,
          <<Drop({NoticeUnique}), Drop({NoticeSource})>>,
          Undone(CatalogueDrops, CatalogueEnums),
          Undone(StateDrops, StateEnums),
          Undone(RunDrops, RunEnums),
          Undone({"social_credentials", "social_accounts"}, {Enum("social_account_status")}),
          Undone({"publish_jobs"}, {Enum("publish_status")}),
          <<Drop(MetricIndexes), Drop({MetricSource})>>,
          <<Drop(OwnerIndexes), Drop(Ownership)>>,
          <<DropTables(IdentityDrops)>> >>
-----------------------------------------------------------------------------
(* What statements do together: the objects they need, those they cannot bear, those they
   add and drop; and whether they can follow each other at all. *)

Change(needs, bars, adds, drops) ==
  [needs |-> needs, bars |-> bars, adds |-> adds, drops |-> drops, sound |-> TRUE]
Nothing == Change({}, {}, {}, {})

\* What goes with tables dropped with CASCADE, and what defends a type or a function: a
\* table's own parts, its foreign keys and those of others into it, its uses and triggers.
Resting(S) == {o \in Objects : RestsOn(o) \cap S # {}}

Meaning(statement) ==
  LET kind == statement[1]
      S == statement[2]
      tables == {Table(t) : t \in S}
  IN CASE kind = "create" -> Change(UNION {RestsOn(o) : o \in S} \ S, S, S, {})
       [] kind = "ensure" -> Change(UNION {RestsOn(o) : o \in S} \ S, {}, S, {})
       [] kind = "drop" -> Change(S, {}, {}, S)
       [] kind = "discard" -> Change({}, {}, {}, S)
       [] kind = "retire" -> Change({}, Resting(S), {}, S)
       [] kind = "drop tables" -> Change({}, {}, {}, tables \cup Resting(tables))
       [] kind = "name" -> Change(S, {}, {}, {})

Then(a, b) ==
  [needs |-> a.needs \cup (b.needs \ a.adds),
   bars  |-> a.bars \cup (b.bars \ a.drops),
   adds  |-> (a.adds \ b.drops) \cup b.adds,
   drops |-> a.drops \cup b.drops,
   sound |-> /\ a.sound /\ b.sound
             /\ b.needs \cap (a.drops \ a.adds) = {}
             /\ b.bars \cap a.adds = {}]

Joined(effects) == FoldLeft(Then, Nothing, effects)
Script(statements) == Joined([i \in DOMAIN statements |-> Meaning(statements[i])])

Upgrade(r) == Script(Up[r] \o <<Named(r)>>)
Downgrade(r) == Script(Down[r] \o <<Named(r - 1)>>)

Path(from, to) ==
  Joined(IF from <= to THEN [i \in 1..(to - from) |-> Upgrade(from + i)]
                       ELSE [i \in 1..(from - to) |-> Downgrade(from - i + 1)])

Runs(script, s) == script.sound /\ script.needs \subseteq s /\ script.bars \cap s = {}
After(script, s) == (s \ script.drops) \cup script.adds

Built(r) == After(Path(0, r), {})
-----------------------------------------------------------------------------
(* scripts/validate_schema.py, of the objects there are here, against the models: they
   declare every table but those written in raw SQL, with its foreign keys and indexes.
   head stands for them and for the lists of what the models cannot say. *)

Ormless == CatalogueDrops \cup StateDrops \cup RunDrops
Tables(s) == {o[2] : o \in {x \in s : x[1] = "table"}}

ChecksTables(head, s) == Tables(s) \ Ormless = Tables(head) \ Ormless
ChecksForeignKeys(head, s) == {o \in head : o[1] = "fk" /\ o[2] \notin Ormless} \subseteq s
ChecksIndexes(s) ==
  {ExportUnique, NoticeUnique, ProjectPages} \cup MetricIndexes \cup OwnerIndexes \subseteq s
ChecksTriggers(s) == \A t \in Immutable : Trigger(t, "reject_mutation") \in s
ChecksLedger(s) == Trigger("credit_ledger", "enforce_credit_ledger_balance") \in s
ChecksPartitions(s) == Partitions \cup {RequestUnique} \subseteq s

Validates(head, s) ==
  /\ Extensions \subseteq s
  /\ ChecksTables(head, s) /\ ChecksForeignKeys(head, s) /\ ChecksIndexes(s)
  /\ ChecksTriggers(s) /\ ChecksLedger(s) /\ ChecksPartitions(s)
=============================================================================
