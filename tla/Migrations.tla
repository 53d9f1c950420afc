----------------------------- MODULE Migrations -----------------------------
(***************************************************************************)
(* Alembic upgrades and downgrades of a database that holds rows.  One     *)
(* command takes the database from its revision to another one in a single *)
(* transaction (migrations/env.py), statement by statement; a refused      *)
(* statement or a crash leaves the schema it started from.  Writers are    *)
(* stopped while a command runs (docs/runbooks/deployment.md), so rows     *)
(* change only between commands.  Of the rows, the three facts are kept    *)
(* that a statement of some migration depends on.                          *)
(***************************************************************************)
EXTENDS Schema

CONSTANTS Data,    \* the facts about rows that may come to hold
          Targets  \* the revisions a command may name

VARIABLES db,        \* the committed schema
          revision,  \* the committed alembic_version, 0 for an empty database
          data,      \* the facts that hold of the committed rows
          run        \* the command under way, or Idle
vars == <<db, revision, data, run>>

Idle == [way |-> "idle"]
Facts == {"shared_key", "long_cursor", "foreign_link"}

(* Where the rows live, and when the schema lets them be written: one      *)
(* idempotency key used by two tenants, a delta link of more than 300      *)
(* characters, a bulk item that names an approval of another tenant.       *)
Home(f) == CASE f = "shared_key"   -> "draft_actions"
             [] f = "long_cursor"  -> "connector_cursors"
             [] f = "foreign_link" -> "bulk_approval_items"
ItemLink == <<"bulk_approval_items", "approval_id", "approvals", "tenant">>
Permitted(schema, f) ==
    /\ Home(f) \in schema.tables
    /\ CASE f = "shared_key"   -> <<"draft_actions", {"idempotency_key"}>> \notin schema.keys
         [] f = "long_cursor"  -> <<"connector_cursors", "cursor">> \in schema.wide
         [] f = "foreign_link" -> ItemLink \notin schema.links

Init == db = NoSchema /\ revision = 0 /\ data = {} /\ run = Idle

Insert(f) ==
    /\ run = Idle
    /\ Permitted(db, f)
    /\ data' = data \union {f}
    /\ UNCHANGED <<db, revision, run>>

Start(target) ==
    /\ run = Idle
    /\ target # revision
    /\ run' = [way |-> IF target > revision THEN "up" ELSE "down", target |-> target,
               at |-> revision, step |-> 1, schema |-> db]
    /\ UNCHANGED <<db, revision, data>>

Script == IF run.way = "up" THEN Upgrades[run.at + 1] ELSE Downgrades[run.at]
Statement == Script[run.step]
Running == run # Idle /\ run.at # run.target

(* PostgreSQL validates the rows a statement constrains; dropped rows are  *)
(* not among them.                                                         *)
Accepted == \A f \in data : Home(f) \in run.schema.tables =>
                                Permitted(Applied(run.schema, Statement), f)
                                \/ Statement.do = "drop"

Execute ==
    /\ Running
    /\ Applicable(run.schema, Statement)
    /\ Accepted
    /\ LET last == run.step = Len(Script)
           next == IF run.way = "up" THEN run.at + 1 ELSE run.at - 1
       IN run' = [run EXCEPT !.schema = Applied(@, Statement),
                             !.step = IF last THEN 1 ELSE @ + 1,
                             !.at = IF last THEN next ELSE @]
    /\ UNCHANGED <<db, revision, data>>

Refuse ==
    /\ Running
    /\ ~ (Applicable(run.schema, Statement) /\ Accepted)
    /\ run' = Idle
    /\ UNCHANGED <<db, revision, data>>

Finish ==
    /\ run # Idle /\ run.at = run.target
    /\ db' = run.schema
    /\ revision' = run.target
    /\ data' = {f \in data : Home(f) \in run.schema.tables}
    /\ run' = Idle

Crash ==
    /\ run # Idle
    /\ run' = Idle
    /\ UNCHANGED <<db, revision, data>>

Next == \/ \E f \in Data : Insert(f)
        \/ \E target \in Targets : Start(target)
        \/ Execute \/ Refuse \/ Finish \/ Crash

Spec == Init /\ [][Next]_vars

-----------------------------------------------------------------------------
(* The committed schema is a set of known tables, the links, keys and      *)
(* guards of a schema concern its own tables, and a command is between its *)
(* two revisions.                                                          *)
SchemaOK(s) ==
    /\ s.tables \subseteq OrmTables
    /\ \A l \in s.links : {l[1], l[3]} \subseteq s.tables
    /\ \A x \in s.keys \union s.privileges \union s.columns : x[1] \in s.tables
    /\ s.isolated \subseteq s.tables
TypeOK ==
    /\ SchemaOK(db) /\ revision \in Revisions /\ data \subseteq Facts
    /\ run # Idle => /\ SchemaOK(run.schema)
                     /\ run.way \in {"up", "down"} /\ run.at \in Revisions
                     /\ Running => run.step \in DOMAIN Script

(* The schema depends on the revision alone, whatever upgrades, downgrades *)
(* and failed commands led to it: every downgrade undoes exactly what its  *)
(* upgrade did (tables, keys, links, columns, row security, privileges).   *)
SchemaFollowsRevision == db = SchemaOf[revision]

(* No statement of a migration meets a schema it cannot be applied to, and *)
(* rows stop a command only where a constraint is narrowed: the two        *)
(* downgrades that restore the global draft key and the cursor's length,   *)
(* and the upgrade that ties links to the tenant.  "Empty DB               *)
(* upgrade/downgrade/upgrade ... pass" (docs/RELEASE_CHECKLIST.md).        *)
StatementsApply ==
    Running => /\ Applicable(run.schema, Statement)
               /\ ~ Accepted => \/ run.way = "down" /\ data \intersect {"shared_key", "long_cursor"} # {}
                                \/ run.way = "up" /\ "foreign_link" \in data

(* At every committed revision each tenant owned table is under forced row *)
(* level security, the application can use it, and the application can     *)
(* neither change nor delete audit entries nor delete a tenant.            *)
TenantTablesGuarded ==
    /\ \A t \in TenantOwned \intersect db.tables :
          t \in db.isolated /\ {t} \X {"SELECT", "INSERT"} \subseteq db.privileges
    /\ \A p \in db.privileges :
          /\ p[1] = "audit_entries" => p[2] \notin {"UPDATE", "DELETE"}
          /\ p[1] = "tenants" => p[2] # "DELETE"

(* At the newest revision no row can link to a row of another tenant:      *)
(* every link between tenant owned tables is also one of (tenant_id, id).  *)
LinksStayInTenant ==
    revision = Len(Upgrades) =>
        \A l \in db.links : {l[1], l[3]} \subseteq TenantOwned /\ l[4] = "id"
                                => <<l[1], l[2], l[3], "tenant">> \in db.links

(* At the newest revision the database has the tables, links and unique    *)
(* keys that the ORM, and so the application, is written against.          *)
OrmMatchesHead ==
    revision = Len(Upgrades) =>
        /\ db.tables = OrmTables
        /\ {l \in db.links : l[4] = "id"} = OrmLinks
        /\ {k \in db.keys : k[2] # TenantKey} = OrmKeys
=============================================================================
