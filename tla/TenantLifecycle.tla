--------------------------- MODULE TenantLifecycle ---------------------------
(***************************************************************************)
(* The deletion of a tenant (backend/application/tenant_lifecycle.py) in a *)
(* database at the newest revision: one transaction that reads the object  *)
(* keys of the tenant's documents and deletes its rows table by table,     *)
(* while other sessions of the tenant still commit rows.  A row is its     *)
(* table and whether it was there "before" the deletion or came "late";    *)
(* it links to the rows of every table its table links to.                 *)
(***************************************************************************)
EXTENDS Schema

CONSTANTS Leaves,  \* the tenant has rows in one of these tables and in their parents
          Late     \* the tables of which rows may arrive during a deletion

VARIABLES tenant,   \* whether the tenant's own row exists
          rows,     \* the committed rows of the tenant
          deletion, \* the deletion under way, or the outcome of the last one
          reported  \* the document rows whose object keys the deletion returned
vars == <<tenant, rows, deletion, reported>>

Tables == <<
    "payment_allocations", "failure_records", "communication_attachments", "evidence_spans",
    "case_documents", "document_sources", "blockers", "draft_actions", "approvals",
    "case_invoices", "communications", "bank_transactions", "invoices", "customers",
    "payment_cases", "documents", "connector_cursors", "connector_credentials",
    "idempotency_records", "outbox_events", "audit_entries", "memberships", "tenants">>
\* Mutant: the allocations after the transactions and invoices they link.
AllocationsLate == [Tables EXCEPT ![1] = "customers", ![14] = "payment_allocations"]
DeletionOrder == Tables
Covered == {DeletionOrder[i] : i \in DOMAIN DeletionOrder}
Roles == {"owner", "ar_app"}

ParentsOf == [t \in HeadSchema.tables |->
                 {l[3] : l \in {k \in HeadSchema.links : k[1] = t}} \ {"tenants", "users", t}]
WithParents == [t \in HeadSchema.tables |->
    LET up(S) == S \union UNION {ParentsOf[s] : s \in S} IN up(up(up({t})))]

Settled(outcome) == [phase |-> outcome]
Open == deletion.phase = "open"
Remaining == IF Open THEN rows \ deletion.gone ELSE rows
In(S, t) == {r \in S : r[1] = t}

Init ==
    /\ tenant = TRUE
    /\ \E t \in Leaves \union {"covered"} :
          rows = (IF t = "covered" THEN Covered \ {"tenants"} ELSE WithParents[t]) \X {"before"}
    /\ deletion = Settled("none")
    /\ reported = {}

(* Another session commits a row; its foreign key checks wait for the rows *)
(* the deletion has deleted.                                               *)
Arrive(t) ==
    /\ Open
    /\ deletion.step <= Len(DeletionOrder)
    /\ <<t, "late">> \notin rows
    /\ \A p \in ParentsOf[t] : In(Remaining, p) # {}
    /\ rows' = rows \union {<<t, "late">>}
    /\ UNCHANGED <<tenant, deletion, reported>>

(* Without the approval of an administrator nothing is touched.            *)
Begin(approved, role) ==
    /\ tenant /\ ~ Open
    /\ IF approved
       THEN /\ deletion' = [phase |-> "open", step |-> 1, gone |-> {}, role |-> role]
            /\ reported' = In(rows, "documents")
       ELSE deletion' = Settled("refused") /\ UNCHANGED reported
    /\ UNCHANGED <<tenant, rows>>

Target == DeletionOrder[deletion.step]
Children(t) == {l[1] : l \in {k \in HeadSchema.links : k[3] = t /\ k[1] # t}}
Allowed == deletion.role = "owner" \/ <<Target, "DELETE">> \in HeadSchema.privileges
Unreferenced == \/ Target # "tenants" /\ In(Remaining, Target) = {}
                \/ \A c \in Children(Target) : In(Remaining, c) = {}

DeleteFrom ==
    /\ Open /\ deletion.step <= Len(DeletionOrder)
    /\ Allowed /\ Unreferenced
    /\ deletion' = [deletion EXCEPT !.gone = @ \union In(rows, Target), !.step = @ + 1]
    /\ UNCHANGED <<tenant, rows, reported>>

\* Mutant: every deletion commits on its own.
RollBackPartly ==
    /\ Open /\ deletion.step <= Len(DeletionOrder)
    /\ ~ (Allowed /\ Unreferenced)
    /\ deletion' = [phase |-> "failed", role |-> deletion.role]
    /\ rows' = rows \ deletion.gone
    /\ UNCHANGED <<tenant, reported>>
RollBack ==
    /\ Open /\ deletion.step <= Len(DeletionOrder)
    /\ ~ (Allowed /\ Unreferenced)
    /\ deletion' = [phase |-> "failed", role |-> deletion.role]
    /\ reported' = {}
    /\ UNCHANGED <<tenant, rows>>

\* Mutant: the keys are read after the rows are deleted.
CommitKeysLast ==
    /\ Open /\ deletion.step > Len(DeletionOrder)
    /\ rows' = rows \ deletion.gone
    /\ tenant' = FALSE
    /\ deletion' = Settled("deleted")
    /\ reported' = In(rows', "documents")
Commit ==
    /\ Open /\ deletion.step > Len(DeletionOrder)
    /\ rows' = rows \ deletion.gone
    /\ tenant' = FALSE
    /\ deletion' = Settled("deleted")
    /\ UNCHANGED reported

Crash ==
    /\ Open
    /\ deletion' = Settled("none")
    /\ reported' = {}
    /\ UNCHANGED <<tenant, rows>>

Next == \/ \E t \in Late : Arrive(t)
        \/ \E approved \in BOOLEAN, role \in Roles : Begin(approved, role)
        \/ DeleteFrom \/ RollBack \/ Commit \/ Crash

Spec == Init /\ [][Next]_vars

-----------------------------------------------------------------------------
(* Rows of the tenant disappear all at once and with the tenant, whatever  *)
(* arrives while they are deleted.                                         *)
DeletionAllOrNothing == rows \subseteq rows' \/ (rows' = {} /\ ~ tenant')

(* The keys of all objects of a deleted tenant are returned, so that the   *)
(* objects can be removed too; only a document stored during the deletion  *)
(* escapes.                                                                *)
ObjectsReported ==
    tenant /\ ~ tenant' => \A r \in In(rows, "documents") : r[2] = "before" => r \in reported'

(* The order respects the foreign keys: a deletion by the owner of the     *)
(* tables fails only for a row in a table that the order leaves out, or    *)
(* one that arrived meanwhile.                                             *)
OrderRespectsLinks ==
    deletion.phase = "failed" =>
        \/ deletion.role = "ar_app"
        \/ \E r \in rows : r[1] \notin Covered \/ r[2] = "late"

(* "Tenant export/delete must cover relational rows, objects, predictions, *)
(* caches and job artifacts" (docs/SECURITY_AND_PRIVACY.md): an approved   *)
(* deletion that nothing interferes with does not fail.                    *)
DeletionCoversTenant ==
    deletion.phase = "failed" =>
        deletion.role = "ar_app" \/ \E r \in rows : r[2] = "late"
=============================================================================
