------------------------------- MODULE Schema -------------------------------
(***************************************************************************)
(* The database schema of the system as data: the statements of the twelve *)
(* Alembic migrations, in the order they are executed, what a statement    *)
(* needs of a schema and makes of it, and the tables as the ORM (and so    *)
(* the application) declares them.  Columns other than the ones a later    *)
(* migration adds, types other than that of the cursor, indexes and check  *)
(* constraints are left out; keys, links between tables, row level         *)
(* security and the privileges of the application role are not.            *)
(*                                                                         *)
(* A schema is a record:                                                   *)
(*   tables      the names of the tables that exist                        *)
(*   links       the foreign keys, <<child, column, parent, scope>>: scope *)
(*               "id" refers to the parent's id, "tenant" to the pair      *)
(*               (tenant_id, id)                                           *)
(*   keys        the unique constraints, <<table, set of columns>>         *)
(*   columns     the columns added to an existing table                    *)
(*   isolated    the tables under forced row level security                *)
(*   privileges  what the role ar_app may do, <<table, privilege>>         *)
(*   role        whether the role ar_app exists                            *)
(*   wide        the columns whose length limit was lifted                 *)
(***************************************************************************)
EXTENDS Naturals, SequencesExt

Everything == {"SELECT", "INSERT", "UPDATE", "DELETE"}

NoSchema == [tables |-> {}, links |-> {}, keys |-> {}, columns |-> {}, isolated |-> {},
             privileges |-> {}, role |-> FALSE, wide |-> {}]

-----------------------------------------------------------------------------
(* Statements.  refs is a set of <<column, parent>>, keys a set of sets of  *)
(* columns.                                                                *)

Table(name, refs, keys) == [do |-> "create", table |-> name, refs |-> refs, keys |-> keys]
Owned(name, refs, keys) == Table(name, refs \union {<<"tenant_id", "tenants">>}, keys)
Scoped(columns) == {columns \union {"tenant_id"}}

OnEach(do, names) == [i \in DOMAIN names |-> [do |-> do, table |-> names[i]]]
Drops(names) == OnEach("drop", names)
Isolate(names) == OnEach("isolate", names)
Column(do, table, column) == [do |-> do, table |-> table, column |-> column]
Key(do, table, columns) == [do |-> do, table |-> table, columns |-> columns]
Link(do, child, column, parent, scope) ==
    [do |-> do, table |-> child, link |-> <<child, column, parent, scope>>]

TenantKey == {"tenant_id", "id"}
LinksOf(s) == {<<s.table, r[1], r[2], "id">> : r \in s.refs}
KeysOf(s) == {<<s.table, k>> : k \in s.keys}

(* What PostgreSQL requires before it executes the statement.              *)
Applicable(db, s) ==
    CASE s.do = "create"    -> s.table \notin db.tables /\ \A r \in s.refs : r[2] \in db.tables
      [] s.do = "drop"      -> /\ s.table \in db.tables
                               /\ \A l \in db.links : l[3] = s.table => l[1] = s.table
      [] s.do = "add"       -> s.table \in db.tables /\ <<s.table, s.column>> \notin db.columns
      [] s.do = "remove"    -> <<s.table, s.column>> \in db.columns
      [] s.do = "unique"    -> s.table \in db.tables /\ <<s.table, s.columns>> \notin db.keys
      [] s.do = "ununique"  -> /\ <<s.table, s.columns>> \in db.keys
                               /\ ~ \E l \in db.links : l[3] = s.table /\ l[4] = "tenant"
                                                        /\ s.columns = TenantKey
      [] s.do = "refer"     -> /\ s.link \notin db.links
                               /\ {s.link[1], s.link[3]} \subseteq db.tables
                               /\ s.link[4] = "tenant" => <<s.link[3], TenantKey>> \in db.keys
      [] s.do = "unrefer"   -> s.link \in db.links
      [] s.do = "isolate"   -> s.table \in db.tables \ db.isolated /\ db.role
      [] s.do = "revoke"    -> s.table \in db.tables /\ db.role
      [] s.do = "grant"     -> s.table \in db.tables /\ db.role
      [] s.do = "droprole"  -> db.privileges = {}
      [] OTHER              -> TRUE

Without(db, t) ==
    [db EXCEPT !.tables = @ \ {t}, !.isolated = @ \ {t},
               !.links = {l \in @ : l[1] # t}, !.keys = {k \in @ : k[1] # t},
               !.columns = {c \in @ : c[1] # t}, !.wide = {c \in @ : c[1] # t},
               !.privileges = {p \in @ : p[1] # t}]

Applied(db, s) ==
    CASE s.do = "create"    -> [db EXCEPT !.tables = @ \union {s.table},
                                          !.links = @ \union LinksOf(s),
                                          !.keys = @ \union KeysOf(s)]
      [] s.do = "drop"      -> Without(db, s.table)
      [] s.do = "add"       -> [db EXCEPT !.columns = @ \union {<<s.table, s.column>>}]
      [] s.do = "remove"    -> [db EXCEPT !.columns = @ \ {<<s.table, s.column>>},
                                          !.links = {l \in @ : <<l[1], l[2]>> # <<s.table, s.column>>}]
      [] s.do = "unique"    -> [db EXCEPT !.keys = @ \union {<<s.table, s.columns>>}]
      [] s.do = "ununique"  -> [db EXCEPT !.keys = @ \ {<<s.table, s.columns>>}]
      [] s.do = "refer"     -> [db EXCEPT !.links = @ \union {s.link}]
      [] s.do = "unrefer"   -> [db EXCEPT !.links = @ \ {s.link}]
      [] s.do = "isolate"   -> [db EXCEPT !.isolated = @ \union {s.table},
                                          !.privileges = @ \union ({s.table} \X Everything)]
      [] s.do = "grant"     -> [db EXCEPT !.privileges = @ \union ({s.table} \X s.what)]
      [] s.do = "revoke"    -> [db EXCEPT !.privileges = @ \ ({s.table} \X s.what)]
      [] s.do = "role"      -> [db EXCEPT !.role = TRUE]
      [] s.do = "droprole"  -> [db EXCEPT !.role = FALSE]
      [] s.do = "widen"     -> [db EXCEPT !.wide = @ \union {<<s.table, s.column>>}]
      [] s.do = "narrow"    -> [db EXCEPT !.wide = @ \ {<<s.table, s.column>>}]

-----------------------------------------------------------------------------
(* The migrations, oldest first.                                           *)

InitialIdentity == <<
    Table("tenants", {}, {}),
    Table("users", {}, {{"issuer", "subject"}}),
    Owned("audit_entries", {}, {}),
    Owned("customers", {}, Scoped({"code"})),
    Owned("documents", {}, Scoped({"sha256"})),
    Owned("idempotency_records", {}, Scoped({"key"})),
    Owned("memberships", {<<"user_id", "users">>}, Scoped({"user_id"})),
    Owned("outbox_events", {}, {})>>

InitialCases == <<
    Owned("payment_cases", {}, {}),
    Owned("approvals", {<<"case_id", "payment_cases">>}, {}),
    Owned("blockers", {<<"case_id", "payment_cases">>}, {}),
    Owned("evidence_spans", {<<"document_id", "documents">>}, {}),
    Owned("invoices", {<<"customer_id", "customers">>}, Scoped({"source_fingerprint"})),
    Owned("case_invoices", {<<"case_id", "payment_cases">>, <<"invoice_id", "invoices">>},
          Scoped({"case_id", "invoice_id"})),
    Owned("draft_actions", {<<"approval_id", "approvals">>}, {{"idempotency_key"}})>>

InitialSecurity ==
    <<[do |-> "role"]>>
    \o Isolate(<<"audit_entries", "customers", "documents", "idempotency_records", "memberships",
                 "outbox_events", "payment_cases", "approvals", "blockers", "evidence_spans",
                 "invoices", "case_invoices", "draft_actions">>)
    \o <<[do |-> "revoke", table |-> "audit_entries", what |-> {"UPDATE", "DELETE"}],
         [do |-> "grant", table |-> "tenants", what |-> {"SELECT", "INSERT", "UPDATE"}],
         [do |-> "grant", table |-> "users", what |-> {"SELECT", "INSERT", "UPDATE"}]>>

InitialDown ==
    Drops(<<"draft_actions", "case_invoices", "invoices", "evidence_spans", "blockers",
            "approvals", "payment_cases", "outbox_events", "memberships", "idempotency_records",
            "documents", "customers", "audit_entries", "users", "tenants">>)
    \o <<[do |-> "droprole"]>>

ProvenanceUp == <<Owned("document_sources", {<<"document_id", "documents">>}, {})>>
                \o Isolate(<<"document_sources">>)
ProvenanceDown == Drops(<<"document_sources">>)

CommunicationsUp ==
    <<Owned("communications", {}, Scoped({"provider", "external_id"})),
      Owned("communication_attachments",
            {<<"communication_id", "communications">>, <<"document_id", "documents">>},
            Scoped({"communication_id", "external_id"}))>>
    \o Isolate(<<"communications", "communication_attachments">>)
CommunicationsDown == Drops(<<"communication_attachments", "communications">>)

CaseDocumentsUp ==
    <<Owned("case_documents", {<<"case_id", "payment_cases">>, <<"document_id", "documents">>},
            Scoped({"case_id", "document_id"}))>>
    \o Isolate(<<"case_documents">>)
CaseDocumentsDown == Drops(<<"case_documents">>)

\* Mutant: the key of one tenant is added, the global one stays.
DraftKeyBoth == <<Key("unique", "draft_actions", {"tenant_id", "idempotency_key"})>>
DraftKeyUp == <<Key("ununique", "draft_actions", {"idempotency_key"}),
                Key("unique", "draft_actions", {"tenant_id", "idempotency_key"})>>
DraftKeyDown == <<Key("ununique", "draft_actions", {"tenant_id", "idempotency_key"}),
                  Key("unique", "draft_actions", {"idempotency_key"})>>

ConnectorsUp ==
    <<Owned("connector_credentials", {}, Scoped({"provider", "account"})),
      Owned("connector_cursors", {}, Scoped({"provider", "account"}))>>
    \o Isolate(<<"connector_credentials", "connector_cursors">>)
ConnectorsDown == Drops(<<"connector_cursors", "connector_credentials">>)

BankUp ==
    <<Owned("bank_transactions", {}, Scoped({"source_fingerprint"})),
      Owned("payment_allocations",
            {<<"transaction_id", "bank_transactions">>, <<"invoice_id", "invoices">>},
            Scoped({"transaction_id", "invoice_id"}))>>
    \o Isolate(<<"bank_transactions", "payment_allocations">>)
BankDown == Drops(<<"payment_allocations", "bank_transactions">>)

\* Mutant: no row level security.
FailuresUnguarded == <<Owned("failure_records", {}, {})>>
FailuresUp == <<Owned("failure_records", {}, {})>> \o Isolate(<<"failure_records">>)
FailuresDown == Drops(<<"failure_records">>)

V1Tables == <<"connector_configs", "external_record_maps", "inbox_events", "payment_rules",
              "zalo_templates", "notification_actions", "bulk_approval_batches",
              "bulk_approval_items", "forecast_snapshots", "llm_usage_events",
              "llm_quality_metrics">>
V1Columns == <<Column("add", "bank_transactions", "transaction_type"),
               Column("add", "bank_transactions", "reversal_of_id"),
               Link("refer", "bank_transactions", "reversal_of_id", "bank_transactions", "id"),
               Column("add", "bank_transactions", "correction_version"),
               Column("add", "payment_allocations", "reversed_by"),
               Column("add", "payment_allocations", "reversal_reason")>>
\* Mutant: the name in the singular.
InboxMisnamed == Owned("inbox_event", {}, Scoped({"provider", "external_event_id"}))
Inbox == Owned("inbox_events", {}, Scoped({"provider", "external_event_id"}))
V1Connected == <<
    Owned("connector_configs", {}, Scoped({"provider"})),
    Owned("external_record_maps", {},
          Scoped({"provider", "record_type", "external_id", "external_version"})),
    Inbox,
    Owned("payment_rules", {<<"customer_id", "customers">>},
          Scoped({"customer_id", "rule_type", "version"}))>>
V1Actions == <<
    Owned("zalo_templates", {}, Scoped({"template_id", "version"})),
    Owned("notification_actions", {<<"approval_id", "approvals">>}, Scoped({"idempotency_key"})),
    Owned("bulk_approval_batches", {}, Scoped({"idempotency_key"})),
    Owned("bulk_approval_items",
          {<<"batch_id", "bulk_approval_batches">>, <<"approval_id", "approvals">>},
          Scoped({"batch_id", "approval_id"})),
    Owned("forecast_snapshots", {}, {}),
    Table("llm_pricing", {}, {{"provider", "model", "effective_from", "version"}}),
    Owned("llm_usage_events", {}, {}),
    Owned("llm_quality_metrics", {}, {})>>
V1Up == V1Columns \o V1Connected \o V1Actions \o Isolate(V1Tables)
V1Down ==
    Drops(Reverse(V1Tables) \o <<"llm_pricing">>)
    \o <<Column("remove", "payment_allocations", "reversal_reason"),
         Column("remove", "payment_allocations", "reversed_by"),
         Column("remove", "bank_transactions", "correction_version"),
         Link("unrefer", "bank_transactions", "reversal_of_id", "bank_transactions", "id"),
         Column("remove", "bank_transactions", "reversal_of_id"),
         Column("remove", "bank_transactions", "transaction_type")>>

V2Tables == <<"feature_definitions", "feature_snapshots", "model_registry", "prediction_runs",
              "prediction_records", "automation_policies", "automation_decisions",
              "dispute_root_causes", "escalation_recommendations", "customer_behavior_snapshots",
              "account_manager_benchmarks", "derived_job_runs">>
V2Predictions == <<
    Column("add", "invoices", "account_owner"),
    Owned("feature_definitions", {}, Scoped({"name", "version"})),
    Owned("feature_snapshots", {},
          Scoped({"entity_type", "entity_id", "as_of", "feature_version"})),
    Owned("model_registry", {}, Scoped({"task_type", "model_name", "model_version"})),
    Owned("prediction_runs", {}, {}),
    Owned("prediction_records",
          {<<"run_id", "prediction_runs">>, <<"feature_snapshot_id", "feature_snapshots">>},
          Scoped({"run_id", "entity_type", "entity_id", "horizon_days"}))>>
V2Automation == <<
    Owned("automation_policies", {<<"customer_id", "customers">>},
          Scoped({"customer_id", "policy_version"})),
    Owned("automation_decisions",
          {<<"case_id", "payment_cases">>, <<"policy_id", "automation_policies">>},
          Scoped({"idempotency_key"})),
    Owned("dispute_root_causes", {<<"case_id", "payment_cases">>}, {}),
    Owned("escalation_recommendations", {<<"case_id", "payment_cases">>}, {}),
    Owned("customer_behavior_snapshots", {<<"customer_id", "customers">>},
          Scoped({"customer_id", "as_of", "window_days", "profile_version"})),
    Owned("account_manager_benchmarks", {},
          Scoped({"manager_id", "as_of", "window_days", "metric_version"})),
    Owned("derived_job_runs", {}, Scoped({"idempotency_key"}))>>
V2Up == V2Predictions \o V2Automation \o Isolate(V2Tables)
\* Mutants: the tables in the order of their creation; the column stays.
V2DownForward == Drops(V2Tables) \o <<Column("remove", "invoices", "account_owner")>>
V2DownTables == Drops(Reverse(V2Tables))
V2Down == Drops(Reverse(V2Tables)) \o <<Column("remove", "invoices", "account_owner")>>

SessionsUp == <<Table("portfolio_sessions",
                      {<<"tenant_id", "tenants">>, <<"user_id", "users">>}, {{"token_hash"}}),
                Column("widen", "connector_cursors", "cursor")>>
SessionsDown == <<Column("narrow", "connector_cursors", "cursor")>> \o Drops(<<"portfolio_sessions">>)

Parents == <<"customers", "payment_cases", "invoices", "documents", "communications",
             "bank_transactions", "approvals", "bulk_approval_batches", "prediction_runs",
             "feature_snapshots", "automation_policies">>
Relationships == <<
    <<"invoices", "customer_id", "customers">>, <<"case_invoices", "case_id", "payment_cases">>,
    <<"case_invoices", "invoice_id", "invoices">>, <<"document_sources", "document_id", "documents">>,
    <<"case_documents", "case_id", "payment_cases">>, <<"case_documents", "document_id", "documents">>,
    <<"evidence_spans", "document_id", "documents">>,
    <<"communication_attachments", "communication_id", "communications">>,
    <<"communication_attachments", "document_id", "documents">>,
    <<"bank_transactions", "reversal_of_id", "bank_transactions">>,
    <<"payment_allocations", "transaction_id", "bank_transactions">>,
    <<"payment_allocations", "invoice_id", "invoices">>, <<"blockers", "case_id", "payment_cases">>,
    <<"approvals", "case_id", "payment_cases">>, <<"draft_actions", "approval_id", "approvals">>,
    <<"payment_rules", "customer_id", "customers">>,
    <<"notification_actions", "approval_id", "approvals">>,
    <<"bulk_approval_items", "batch_id", "bulk_approval_batches">>,
    <<"bulk_approval_items", "approval_id", "approvals">>,
    <<"prediction_records", "run_id", "prediction_runs">>,
    <<"prediction_records", "feature_snapshot_id", "feature_snapshots">>,
    <<"automation_policies", "customer_id", "customers">>,
    <<"automation_decisions", "case_id", "payment_cases">>,
    <<"automation_decisions", "policy_id", "automation_policies">>,
    <<"dispute_root_causes", "case_id", "payment_cases">>,
    <<"escalation_recommendations", "case_id", "payment_cases">>,
    <<"customer_behavior_snapshots", "customer_id", "customers">>>>
ParentKeys(do) == [i \in DOMAIN Parents |-> Key(do, Parents[i], TenantKey)]
\* Mutant: the last relationship is forgotten.
TenantLinksButLast(do) == [i \in 1 .. Len(Relationships) - 1 |->
    Link(do, Relationships[i][1], Relationships[i][2], Relationships[i][3], "tenant")]
TenantLinks(do) == [i \in DOMAIN Relationships |->
    Link(do, Relationships[i][1], Relationships[i][2], Relationships[i][3], "tenant")]
OwnershipUp == ParentKeys("unique") \o TenantLinks("refer")
OwnershipDown == Reverse(TenantLinks("unrefer")) \o Reverse(ParentKeys("ununique"))

Upgrades == <<InitialIdentity \o InitialCases \o InitialSecurity, ProvenanceUp, CommunicationsUp,
              CaseDocumentsUp, DraftKeyUp, ConnectorsUp, BankUp, FailuresUp, V1Up, V2Up,
              SessionsUp, OwnershipUp>>
Downgrades == <<InitialDown, ProvenanceDown, CommunicationsDown, CaseDocumentsDown, DraftKeyDown,
                ConnectorsDown, BankDown, FailuresDown, V1Down, V2Down, SessionsDown,
                OwnershipDown>>
Revisions == 0 .. Len(Upgrades)

(* The schema a database has after the first r upgrades, the only member   *)
(* of Reached[r]: TLC computes a set before the one that is made from it.  *)
Reached[r \in Revisions] ==
    IF r = 0 THEN {NoSchema} ELSE {FoldLeft(Applied, s, Upgrades[r]) : s \in Reached[r - 1]}
SchemaOf == [r \in Revisions |-> CHOOSE s \in Reached[r] : TRUE]
HeadSchema == SchemaOf[Len(Upgrades)]

-----------------------------------------------------------------------------
(* The tables as the ORM declares them.                                    *)

OrmParties == {
    Table("tenants", {}, {}), Table("users", {}, {{"issuer", "subject"}}),
    Owned("memberships", {<<"user_id", "users">>}, Scoped({"user_id"})),
    Table("portfolio_sessions", {<<"tenant_id", "tenants">>, <<"user_id", "users">>},
          {{"token_hash"}}),
    Owned("customers", {}, Scoped({"code"}))}

OrmCases == {
    Owned("invoices", {<<"customer_id", "customers">>}, Scoped({"source_fingerprint"})),
    Owned("payment_cases", {}, {}),
    Owned("case_invoices", {<<"case_id", "payment_cases">>, <<"invoice_id", "invoices">>},
          Scoped({"case_id", "invoice_id"})),
    Owned("documents", {}, Scoped({"sha256"})),
    Owned("document_sources", {<<"document_id", "documents">>}, {}),
    Owned("case_documents", {<<"case_id", "payment_cases">>, <<"document_id", "documents">>},
          Scoped({"case_id", "document_id"})),
    Owned("evidence_spans", {<<"document_id", "documents">>}, {})}

OrmMail == {
    Owned("communications", {}, Scoped({"provider", "external_id"})),
    Owned("communication_attachments",
          {<<"communication_id", "communications">>, <<"document_id", "documents">>},
          Scoped({"communication_id", "external_id"})),
    Owned("connector_credentials", {}, Scoped({"provider", "account"})),
    Owned("connector_cursors", {}, Scoped({"provider", "account"}))}

OrmMoney == {
    Owned("bank_transactions", {<<"reversal_of_id", "bank_transactions">>},
          Scoped({"source_fingerprint"})),
    Owned("payment_allocations",
          {<<"transaction_id", "bank_transactions">>, <<"invoice_id", "invoices">>},
          Scoped({"transaction_id", "invoice_id"})),
    Owned("failure_records", {}, {}), Owned("blockers", {<<"case_id", "payment_cases">>}, {}),
    Owned("approvals", {<<"case_id", "payment_cases">>}, {}),
    Owned("draft_actions", {<<"approval_id", "approvals">>}, Scoped({"idempotency_key"})),
    Owned("audit_entries", {}, {}), Owned("outbox_events", {}, {}),
    Owned("idempotency_records", {}, Scoped({"key"}))}

OrmV1 == {
    Owned("connector_configs", {}, Scoped({"provider"})),
    Owned("external_record_maps", {},
          Scoped({"provider", "record_type", "external_id", "external_version"})),
    Owned("inbox_events", {}, Scoped({"provider", "external_event_id"})),
    Owned("payment_rules", {<<"customer_id", "customers">>},
          Scoped({"customer_id", "rule_type", "version"})),
    Owned("zalo_templates", {}, Scoped({"template_id", "version"})),
    Owned("notification_actions", {<<"approval_id", "approvals">>}, Scoped({"idempotency_key"})),
    Owned("bulk_approval_batches", {}, Scoped({"idempotency_key"})),
    Owned("bulk_approval_items",
          {<<"batch_id", "bulk_approval_batches">>, <<"approval_id", "approvals">>},
          Scoped({"batch_id", "approval_id"})),
    Owned("forecast_snapshots", {}, {}),
    Table("llm_pricing", {}, {{"provider", "model", "effective_from", "version"}}),
    Owned("llm_usage_events", {}, {}), Owned("llm_quality_metrics", {}, {})}

OrmPredictions == {
    Owned("feature_definitions", {}, Scoped({"name", "version"})),
    Owned("feature_snapshots", {},
          Scoped({"entity_type", "entity_id", "as_of", "feature_version"})),
    Owned("model_registry", {}, Scoped({"task_type", "model_name", "model_version"})),
    Owned("prediction_runs", {}, {}),
    Owned("prediction_records",
          {<<"run_id", "prediction_runs">>, <<"feature_snapshot_id", "feature_snapshots">>},
          Scoped({"run_id", "entity_type", "entity_id", "horizon_days"}))}

OrmAutomation == {
    Owned("automation_policies", {<<"customer_id", "customers">>},
          Scoped({"customer_id", "policy_version"})),
    Owned("automation_decisions",
          {<<"case_id", "payment_cases">>, <<"policy_id", "automation_policies">>},
          Scoped({"idempotency_key"})),
    Owned("dispute_root_causes", {<<"case_id", "payment_cases">>}, {}),
    Owned("escalation_recommendations", {<<"case_id", "payment_cases">>}, {}),
    Owned("customer_behavior_snapshots", {<<"customer_id", "customers">>},
          Scoped({"customer_id", "as_of", "window_days", "profile_version"})),
    Owned("account_manager_benchmarks", {},
          Scoped({"manager_id", "as_of", "window_days", "metric_version"})),
    Owned("derived_job_runs", {}, Scoped({"idempotency_key"}))}

Orm == OrmParties \union OrmCases \union OrmMail \union OrmMoney \union OrmV1
       \union OrmPredictions \union OrmAutomation
OrmTables == {t.table : t \in Orm}
OrmLinks == UNION {LinksOf(t) : t \in Orm}
OrmKeys == UNION {KeysOf(t) : t \in Orm}
(* TenantOwned of the ORM: portfolio_sessions names its tenant but is read  *)
(* before a tenant is known, so it is not one of them.                     *)
TenantOwned == {t.table : t \in {o \in Orm : <<"tenant_id", "tenants">> \in o.refs}}
               \ {"portfolio_sessions"}
=============================================================================
