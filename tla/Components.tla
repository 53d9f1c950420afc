----------------------------- MODULE Components -----------------------------
(***************************************************************************)
(* The components that do not share state, one of them at a time: focus    *)
(* names the one that runs, the variables of the others are Off and none   *)
(* of their steps is taken.  Components that work in database sessions     *)
(* share the names of the database's variables, the two synchronisations   *)
(* that of the sync under way.                                             *)
(***************************************************************************)
EXTENDS Naturals, Sequences, FiniteSets

CONSTANTS Session,                               \* database sessions
          Targets, Data,                         \* Migrations
          Leaves, Late,                          \* TenantLifecycle
          Files,                                 \* Ingest
          Contents, Infected,                    \* Documents
          Starts, Statuses, MaxSignals,          \* CaseWorkflow
          Users, Customers, RuleIds, Days, Drafts, Definitions,  \* PaymentRules
          Pages, MaxAttempts,                    \* MisaSync
          MaxMessages, PageSize,                 \* GmailSync
          Bucket, MaxPolicies, MaxVersion, Policies  \* Automation

(* The sizes are numbers, and policies have the fields that the endpoint   *)
(* accepts.                                                                *)
ASSUME GmailAssumption == MaxMessages \in Nat /\ PageSize \in Nat
ASSUME AutomationAssumption ==
    /\ Bucket \in Nat /\ MaxPolicies \in Nat /\ MaxVersion \in Nat \ {0}
    /\ Policies \subseteq [mode : {"disabled", "shadow", "canary", "enabled"},
                           kill_switch : BOOLEAN, canary : Nat, confirmed : BOOLEAN]

(* A file names rows of the three tables, an invoice behind its customer.  *)
ASSUME FilesAssumption ==
    \A f \in Files :
        /\ Len(f) \in Nat /\ DOMAIN f = 1 .. Len(f)
        /\ \A i \in DOMAIN f :
              /\ f[i].table \in {"customers", "invoices", "bank"} /\ f[i].value # <<>>
              /\ f[i].table = "invoices" =>
                    \E j \in 1 .. i - 1 : f[j].table = "customers" /\ f[j].key = f[i].value[1]

(* The rules are ones that RuleDefinition accepts, and a simulation may    *)
(* ask about the day that one begins.                                      *)
ASSUME RulesAssumption ==
    /\ Days \subseteq Nat /\ IsFiniteSet(Definitions)
    /\ \A d \in Definitions :
          /\ d.scope \in {"default", "customer", "tenant"} /\ d.priority \in Nat /\ d.version \in Nat
          /\ d.from \in Days /\ d.to \in Nat /\ d.from <= d.to

(* The source has pages of records.                                        *)
ASSUME MisaAssumption ==
    /\ Len(Pages) \in Nat /\ DOMAIN Pages = 1 .. Len(Pages)
    /\ \A i \in DOMAIN Pages : Len(Pages[i]) \in Nat /\ DOMAIN Pages[i] = 1 .. Len(Pages[i])

VARIABLES focus, db, work, locks, sync,
          revision, data, run,
          tenant, rows, deletion, reported,
          file, at, loaded, created, counted,
          upload, objects, answered,
          phase, status, inbox, cancelled, expired, received, applied,
          publishing,
          available, checkpoint, known, returned,
          mailbox, oldest, cursor, stored,
          policies, case, switch, evaluation, mail, sent

store == <<db, work, locks>>
migrations == <<revision, data, run>>
lifecycle == <<tenant, rows, deletion, reported>>
ingest == <<file, at, loaded, created, counted>>
documents == <<upload, objects, answered>>
workflow == <<phase, status, inbox, cancelled, expired, received, applied>>
misa == <<available, checkpoint, known, returned>>
gmail == <<mailbox, oldest, cursor, stored>>
automation == <<policies, case, switch, evaluation, mail, sent>>
vars == <<focus, store, sync, migrations, lifecycle, ingest, documents, workflow, publishing,
          misa, gmail, automation>>

S == INSTANCE Migrations
T == INSTANCE TenantLifecycle
I == INSTANCE Ingest
D == INSTANCE Documents
W == INSTANCE CaseWorkflow
R == INSTANCE PaymentRules
M == INSTANCE MisaSync
G == INSTANCE GmailSync
A == INSTANCE Automation

(* Commands name known revisions, and rows come with known facts.         *)
ASSUME MigrationsAssumption == Targets \subseteq S!Revisions /\ Data \subseteq S!Facts

(* The tables a tenant has rows in all link to the tenant: those that the  *)
(* deletion covers, those of the instance and their parents.               *)
ASSUME LifecycleAssumption ==
    (T!Covered \ {"tenants"}) \union Late \union UNION {T!WithParents[t] : t \in Leaves}
        \subseteq T!Children("tenants")

-----------------------------------------------------------------------------
Off == "off"
Components == {"migrations", "lifecycle", "ingest", "documents", "workflow", "rules", "misa",
               "gmail", "evaluations", "deliveries"}
InDatabase == focus = "migrations"
InSessions == focus \in {"ingest", "documents", "rules", "evaluations", "deliveries"}

InitDatabase == /\ IF InDatabase \/ InSessions THEN TRUE ELSE db = Off
                /\ IF InSessions THEN TRUE ELSE work = Off /\ locks = Off
InitSync == IF focus \in {"misa", "gmail"} THEN TRUE ELSE sync = Off
InitMigrations == IF focus = "migrations" THEN S!Init
                  ELSE revision = Off /\ data = Off /\ run = Off
InitLifecycle == IF focus = "lifecycle" THEN T!Init
                 ELSE tenant = Off /\ rows = Off /\ deletion = Off /\ reported = Off
InitIngest == IF focus = "ingest" THEN I!Init
              ELSE file = Off /\ at = Off /\ loaded = Off /\ created = Off /\ counted = Off
InitDocuments == IF focus = "documents" THEN D!Init
                 ELSE upload = Off /\ objects = Off /\ answered = Off
InitWorkflow == IF focus = "workflow" THEN W!Init
                ELSE /\ phase = Off /\ status = Off /\ inbox = Off
                     /\ cancelled = Off /\ expired = Off /\ received = Off /\ applied = Off
InitRules == IF focus = "rules" THEN R!Init ELSE publishing = Off
InitMisa == IF focus = "misa" THEN M!Init
            ELSE available = Off /\ checkpoint = Off /\ known = Off /\ returned = Off
InitGmail == IF focus = "gmail" THEN G!Init
             ELSE mailbox = Off /\ oldest = Off /\ cursor = Off /\ stored = Off
InitAutomation == IF focus \in {"evaluations", "deliveries"} THEN A!Init
                  ELSE /\ policies = Off /\ case = Off /\ switch = Off
                       /\ evaluation = Off /\ mail = Off /\ sent = Off

Init == /\ focus \in Components
        /\ InitMigrations /\ InitDatabase /\ InitSync /\ InitLifecycle /\ InitIngest
        /\ InitDocuments /\ InitWorkflow /\ InitRules /\ InitMisa /\ InitGmail /\ InitAutomation

Migrations == /\ focus = "migrations" /\ S!Next
              /\ UNCHANGED <<focus, work, locks, sync, lifecycle, ingest, documents, workflow,
                             publishing, misa, gmail, automation>>
Lifecycle == /\ focus = "lifecycle" /\ T!Next
             /\ UNCHANGED <<focus, store, sync, migrations, ingest, documents, workflow,
                            publishing, misa, gmail, automation>>
Ingest == /\ focus = "ingest" /\ I!Next
          /\ UNCHANGED <<focus, sync, migrations, lifecycle, documents, workflow, publishing,
                         misa, gmail, automation>>
Documents == /\ focus = "documents" /\ D!Next
             /\ UNCHANGED <<focus, sync, migrations, lifecycle, ingest, workflow, publishing,
                            misa, gmail, automation>>
OutsideWorkflow == UNCHANGED <<focus, store, sync, migrations, lifecycle, ingest, documents,
                               publishing, misa, gmail, automation>>
Workflow == focus = "workflow" /\ W!Next /\ OutsideWorkflow
Rules == /\ focus = "rules" /\ R!Next
         /\ UNCHANGED <<focus, sync, migrations, lifecycle, ingest, documents, workflow, misa,
                        gmail, automation>>
Misa == /\ focus = "misa" /\ M!Next
        /\ UNCHANGED <<focus, store, migrations, lifecycle, ingest, documents, workflow,
                       publishing, gmail, automation>>
Gmail == /\ focus = "gmail" /\ G!Next
         /\ UNCHANGED <<focus, store, migrations, lifecycle, ingest, documents, workflow,
                        publishing, misa, automation>>
OutsideAutomation == UNCHANGED <<focus, sync, migrations, lifecycle, ingest, documents, workflow,
                                 publishing, misa, gmail>>
Evaluations == focus = "evaluations" /\ A!Evaluations /\ OutsideAutomation
Deliveries == focus = "deliveries" /\ A!Deliveries /\ OutsideAutomation

Next == \/ Migrations \/ Lifecycle \/ Ingest \/ Documents \/ Workflow \/ Rules \/ Misa \/ Gmail
        \/ Evaluations \/ Deliveries

WorkflowActivates == focus = "workflow" /\ W!Activate /\ OutsideWorkflow
Spec == Init /\ [][Next]_vars /\ WF_vars(WorkflowActivates)

-----------------------------------------------------------------------------
(* The committed schema is well formed and a command is between its two    *)
(* revisions.                                                              *)
TypeOK == focus = "migrations" => S!TypeOK

(* Every downgrade undoes its upgrade, whatever commands came before.      *)
SchemaFollowsRevision == focus = "migrations" => S!SchemaFollowsRevision

(* No statement of a migration meets a schema it cannot be applied to.     *)
StatementsApply == focus = "migrations" => S!StatementsApply

(* Every tenant owned table is under row level security from its creation. *)
TenantTablesGuarded == focus = "migrations" => S!TenantTablesGuarded

(* At the newest revision no row can link to a row of another tenant.      *)
LinksStayInTenant == focus = "migrations" => S!LinksStayInTenant

(* At the newest revision the database is the one the ORM declares.        *)
OrmMatchesHead == focus = "migrations" => S!OrmMatchesHead

(* Rows of a tenant disappear all at once and with the tenant              *)
(* (delete_tenant_rows), whatever arrives meanwhile.                       *)
DeletionAllOrNothing == [][focus = "lifecycle" => T!DeletionAllOrNothing]_vars

(* delete_tenant_rows returns the object keys of all documents it deletes, *)
(* except of those stored while it runs.                                   *)
ObjectsReported == [][focus = "lifecycle" => T!ObjectsReported]_vars

(* The order of its tables respects the foreign keys.                      *)
OrderRespectsLinks == focus = "lifecycle" => T!OrderRespectsLinks

(* Overlapping, failing and repeated imports leave one case per invoice    *)
(* and count every created row in exactly one answer.                      *)
ImportsExact == focus = "ingest" => I!ImportsExact

(* A document in the database was scanned, is in storage and has a source. *)
DocumentsStored == focus = "documents" => D!DocumentsStored

(* An upload answered with success is recorded in full.                    *)
SuccessfulUploadsKept == focus = "documents" => D!SuccessfulUploadsKept

(* The workflow applies signals in the order they were sent.               *)
SignalsInOrder == focus = "workflow" => W!SignalsInOrder

(* A workflow that is cancelled or sent a terminal status ends.            *)
CasesEnd == (focus = "workflow" /\ W!MustEnd) ~> (phase = "done")

(* A payment rule is published once, by another person than its creator.   *)
PublishedForGood == [][focus = "rules" => R!PublishedForGood]_vars

(* A simulation that is not refused for a conflict has one outcome per     *)
(* rule type, whatever the order of its rules.                             *)
RulesDecide == focus = "rules" => R!RulesDecide

(* sync_misa returns no record version twice, and records in the order of  *)
(* the source.                                                             *)
RecordsOnceInOrder == focus = "misa" => M!RecordsOnceInOrder

(* The Gmail cursor only goes forward, and a full sync that moves it has   *)
(* ingested all that was there when it began.                              *)
FullSyncsComplete == [][focus = "gmail" => G!FullSyncsComplete]_vars

(* An e-mail is sent only if every condition held at its last check.       *)
SentSafely == focus = "deliveries" => A!SentSafely

(* A decision is recorded once per case and policy version.                *)
DecisionsRecordedOnce == focus = "evaluations" => A!DecisionsRecordedOnce
=============================================================================
