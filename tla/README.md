# DeB2B: a verification development

DeB2B helps an accounts-receivable team collect B2B invoices. An importer turns
files into invoices and cases; people match bank transactions to invoices,
approve e-mails that an assistant proposes, and let the system put approved
drafts into a mailbox. This directory models the parts of it that keep state
and can go wrong in ways a unit test hardly reaches, checks them with TLC on
small instances and proves the most important facts with TLAPS for all
instances. Paths below are relative to `src/`.

## 1. Inventory

All components share one PostgreSQL database. Requests reach it through
`tenant_session` (`backend/infrastructure/database.py`): one transaction per
`with` block, committed at its end, rolled back by any exception. The isolation
level is the default, READ COMMITTED, so what keeps concurrent requests apart
is only `SELECT ... FOR UPDATE`, the row lock an `UPDATE` takes, unique
constraints, checks and foreign keys. The API endpoints are `async def` with
synchronous database calls: inside one process requests interleave only at
`await`. The deployment runs one API process; two overlap while a release is
rolled out, and the operating documents foresee scaling. The models let requests
interleave between statements, which covers both; every counterexample listed
under *Findings* needs one session only.

| Component | State | Operations | What is hard | What makes it correct |
|---|---|---|---|---|
| Reconciliation (`application/reconciliation.py`, `services/api/main.py`) | bank transactions, invoices' outstanding, allocations, case status | confirm allocations, reverse an allocation | overlapping requests on a transaction or an invoice, lock-order deadlocks, retries | money conserved, no transaction overspent, PAID only when settled |
| Invoice import (`application/invoice_import_service.py`, `imports.py`) | customers, invoices, cases | preview a file, upsert its rows | a re-import meets payments; two imports meet each other | no duplicates, no lost update, cases and invoices 1:1 |
| Bank import (`application/bank_imports.py`) | bank transactions | preview, insert unseen rows | two imports of one file | no duplicates |
| Approvals and drafts (`application/approvals.py`, `draft_effect.py`, `services/api/v1_features.py`, `main.py`) | approvals, batches, draft actions, outbox, the mailbox | request, approve, reject, bulk commit, create draft | decisions that overlap, expiry, a provider call inside a transaction | nothing is sent that was not approved; one draft per request |
| Outlook connection (`v1_features.py`, `v1_connectors.py`, `microsoft_tokens.py`, `microsoft_auth.py`) | credential, cursor, communications | connect, refresh token, delta sync, disconnect | concurrent refreshes and syncs | no message lost, connection not lost by a race |
| Gmail and MISA connectors (`gmail_sync.py`, `v1_connectors.py`) | cursor, known versions | initial and incremental sync, retry of a page | failure between pages, cursor order | no record lost or applied twice |
| Case workflow (`workflows/payment_case.py`, `domain/state_machine.py`) | status, pending signals, timer | transition, cancel, time-out | timer against signal against cancellation | signals in order, an end when one was asked for |
| E-mail automation (`domain/email_automation.py`, `email_delivery.py`, `v2_features.py`) | policy, decisions, kill switches | evaluate, record, revalidate, deliver | a case changes between decision and delivery | nothing leaves while a switch forbids it |
| Payment rules (`domain/payment_rules.py`, `v1_features.py`) | rule versions | create, publish | two publications | maker is not checker, published once |
| Documents (`application/documents.py`, ...) | documents, objects in storage | validate, scan, store | awaited calls inside a transaction | one row per content, every row has its object |
| Tenant lifecycle (`tenant_lifecycle.py`) | all tables | export, delete | foreign keys added later, rows that arrive meanwhile | deletion takes all or nothing |
| Schema and migrations (`migrations/versions`, `infrastructure/models.py`) | tables, keys, links, row level security, privileges | upgrade, downgrade | twelve hand-written pairs over a database with rows | a revision has one schema, and the newest is the ORM's |
| Failure queue, stored responses | failure records, idempotency records | record, recover | attempt limits | called by tests only |
| Matching, forecasting, scoring (`domain/*`) | none | pure functions | boundaries | agree with their definitions |
| AI features, login, web application | sessions, prompts | calls of models, OAuth, pages | outside services | not the subject here |

Interactions: the import creates the invoices and the one case of each that
reconciliation pays; reconciliation and bulk approval both lock cases; the
assistant and the Outlook preview create approvals, the approval endpoints
decide them, draft creation reads them and calls the mail provider; sync and
draft creation share the Outlook credential. Nothing publishes the outbox yet,
nothing increments `PaymentCase.version`, and the case workflow is not started
by the API.

The full list of hazards, each at its line, is in `PROJECT.json`.

## 2. Modules

| Module | Models | Kind |
|---|---|---|
| `ReadCommitted` | PostgreSQL as `tenant_session` uses it (external) | store of committed rows, private writes, row locks |
| `Reconciliation` | `confirm_allocations`, `reverse_allocation`, the update half of `upsert_invoice_rows` | statement by statement |
| `Ledger` | what reconciliation promises | abstract: one instant per request |
| `Approvals` | approve, reject, bulk commit, draft creation | statement by statement, with the mailbox |
| `OutlookSync` | sign-in's credential, token refresh, manual delta sync | step by step, with the inbox |
| `Schema` | the statements of all migrations, the ORM's tables | data and operators, no state |
| `Migrations` | upgrades and downgrades of a database with rows | statement by statement |
| `TenantLifecycle` | `delete_tenant_rows` at the newest schema | statement by statement |
| `Ingest` | `upsert_invoice_rows`, `upsert_bank_rows` against unique keys | statement by statement |
| `Documents` | `upload_document`, `quarantine_and_store` | step by step, with scanner and storage |
| `CaseWorkflow` | `PaymentCaseWorkflow` | one action per activation |
| `PaymentRules` | creation, publication; conflicts and precedence of rules | statement by statement; operators |
| `MisaSync`, `GmailSync` | `sync_misa`; `initial_sync`, `incremental_sync` | page by page, with the source |
| `Automation` | automation policy, evaluation endpoint, revalidation, delivery | statement by statement |
| `Components` | the ten components that share no state, one of them at a time | composition |
| `MCReconciliation`, `MCApprovals`, `MCOutlookSync`, `MCComponents`, `MCMisaSync` | instances for TLC | |
| `ReconciliationProofs`, `LedgerProofs` | theorems about `Reconciliation`; what the sums of the community modules compute | TLAPS |
| `ApprovalsProofs`, `OutlookSyncProofs` | theorems about those modules | TLAPS |
| `ComponentsProofs`, `SequencesProofs` | theorems about nine of the components; the second those that read sequences | TLAPS |
| `SchemaProofs` | what the scripts of the migrations make of a schema | TLAPS |
| `MigrationsProofs` | theorems about the migrations and the order of deletion | TLAPS |

### ReadCommitted

`db` holds the committed rows, `work[s]` the uncommitted writes of session `s`,
`locks[s]` the rows it has locked. A statement reads `Seen(s, row)` (own write,
else committed), asks `Free(s, row)` when it takes a lock, and adds its locks
and writes with `Statement`. `Commit` publishes the writes, `Rollback` drops
them. `Deadlocked` says that a session is on a cycle of waiting sessions;
PostgreSQL then fails one of them (`DeadlockVictim` in the modules).

### Reconciliation

One session per request; one action per statement that can wait for a lock,
together with the computation that follows it. `req`, `pc`, `item`, `unsettled`
and `loaded` are the local variables of the Python functions:

| Action | Code |
|---|---|
| `ConfirmLockTransaction` | lock the transaction, check type and sum (36-60) |
| `ConfirmAllocate` | one round of the loop (63-90): lock the invoice, check, subtract, insert |
| `ConfirmMarkTransaction` | flush and status (91-93) |
| `ConfirmSettleCase` | one affected case (94-107) |
| `ReverseLockAllocation`, `ReverseGiveBack`, `ReverseUnmatchTransaction`, `ReverseReopenCase` | the four locks of `reverse_allocation` (121-168) |
| `ReimportSelect`, `ReimportUpdate` | the select without a lock and the `UPDATE` of changed columns (`invoice_import_service.py` 56-60, 98-104) |
| `CommitRequest`, `Fail`, `Crash`, `DeadlockVictim` | the ends of `tenant_session` |

Two details decide what is true here and are modelled exactly. The ORM sends
only columns whose new value differs from the loaded one (`Overwritten`), so a
file that repeats the loaded outstanding does not overwrite a payment made in
between. And the unique constraint on (transaction, invoice) is for ever: after
a reversal the pair can never be allocated again.

Abstracted: names, dates, currencies (not compared by the code), customers
(a file that renames one also holds that row), who confirmed. The importer
links one case to each invoice and nothing else links them, so a case is named
by its invoice.

### Ledger

`Confirm`, `Reverse` and `Reimport` change invoices, allocations and statuses at
once. `ImplementsLedger` states that `Reconciliation`, seen through its
committed rows, is such a ledger: every commit is one ledger step, everything
else stutters.

### Approvals

| Action | Code |
|---|---|
| `RequestApproval` | `draft_follow_up`, `outlook_draft_preview`: a PENDING row |
| `Expire` | the clock passes `expires_at` |
| `ApproveRead`, `ApproveCommit` | `approve_content` in its own session: unlocked read, later `UPDATE` |
| `RejectRead`, `RejectCommit` | `reject_approval` |
| `DraftRead`, `DraftCreate`, `DraftRecord` | `outlook_draft_create`, `create_approved_draft` around the awaited provider call |
| `BulkOpen`, `BulkLockApproval`, `BulkJudge`, `BulkCommit` | `bulk_commit` |

The mailbox is a sequence of drafts; the provider makes a new one for every
call, because the adapter only sends the key as a header. Its answer may be an
error or may be lost after the draft was made. Locks have the modes that
matter: `FOR UPDATE` excludes the shared lock that a foreign key check takes
(`Share`). A content mismatch sets INVALIDATED and raises, which the single
endpoint rolls back and the batch keeps.

Abstracted: contents stand for their hashes; `decided_by`, roles (every role
that may run batches may approve) and the reasons of exclusions are left out.

### OutlookSync

A sync is a chain of short sessions with awaited calls between them, so most
steps are a select or an update that commits at once:

| Action | Code |
|---|---|
| `Arrive`, `Age` | the inbox changes; the access token nears its expiry |
| `ConnectLoad`, `ConnectStore` | `microsoft_callback`: look the credential up, insert or update it |
| `FindAccount`, `LoadToken` | `_outlook_account`, first session of `outlook_access_token` |
| `Refresh` | the token endpoint: granted, refused (any status but 200), unreachable |
| `RefreshedLoad`, `RefreshedStore`, `RefusedLoad`, `RefusedStore` | the session that records the outcome |
| `ReadCursor`, `FetchPage` | the stored link, one round of the loop in `sync_outlook` |
| `FindMessage`, `InsertMessage` | one message of the last session of `outlook_manual_sync` |
| `LoadCursor`, `StoreCursor`, `CursorConflict` | the cursor record and the commit |

A delta link is a position in the inbox's sequence of changes, and a page the
next `PageSize` of those that have happened. The messages of a round keep the
order of the Python dict, the first appearance of each; the inserts follow it,
which is why overlapping syncs cannot deadlock. There is no `DeadlockVictim` for
that reason, and `SyncsNeverDeadlock` checks it.

Abstracted: contents, tokens (only whether one is stale), the user, membership,
configuration and login session that the callback writes beside the credential.

### Schema and Migrations

A schema is a record of tables, links, unique keys, added columns, tables under
forced row level security, and privileges. A statement of a migration is a
record too; `Applicable` says what PostgreSQL requires before it executes one,
`Applied` what it makes of the schema. The twelve migrations are sequences of
such statements, and `Orm...` the tables as `models.py` declares them; the two
were translated from their own files, so `OrmMatchesHead` compares them.
`Migrations` runs commands (`Start`, `Execute`, `Refuse`, `Finish`, `Crash`) as
`env.py` does, in one transaction per command, over rows of which three facts
are kept: the ones some statement refuses. Left out: indexes, check
constraints, column types other than the one a migration changes.

### TenantLifecycle

`Begin` reads the object keys, `DeleteFrom` deletes the rows of one table,
`RollBack` is the foreign key or privilege error that ends the transaction.
`Arrive` is another session that commits a row meanwhile. The role is the owner
of the tables, or `ar_app`, which may delete neither audit entries nor tenants.

### Ingest

A file is a sequence of rows; an invoice line is its customer followed by its
invoice. `Select` reads by the unique key without a lock, `Store` inserts
(invoice, case, link, audit entry and event together), updates or skips. An
insert waits for another session's insert of the same key and fails after its
commit (`Conflict`). The SQLAlchemy session delays some inserts and updates to
its next select or its commit; they are modelled where they are requested. What a
file that names one customer twice finds in the session's identity map is left
out.

### Documents

`LookUp`, `Scan`, `Put`, `Insert`, `Record`, `LinkCase`, `CommitUpload`: the
steps of `upload_document` in one database session, two of which are awaited
calls. Contents are named by their hash; a failed upload may leave its object
in storage, which the code accepts.

### CaseWorkflow

`Transition`, `Cancel` and `Expire` are what Temporal may deliver, `Activate` runs
the coroutine over it: `inbox` holds the signalled statuses, `cancelled` is
`self.cancelled`. A status is applied as sent: nothing but tests consults
`ALLOWED` of `domain/state_machine.py`. A cancellation that arrives with the
start ends the workflow with the status it was started with.

### PaymentRules

`Create`, `Begin`, `LockRule`, `CommitPublication`, and the pure functions as
operators (`Conflicts`, `ActiveOn`, `Winners`). `Forever` stands for no expiry.
Rules for no customer never collide on the unique key, because NULLs are
distinct.

### MisaSync and GmailSync

One action per page; `Take` is the loop over the records of a MISA page. The
callers, which keep the checkpoint, the cursor and `known_versions`, are not in
the repository: the models keep them as `tests/contract/test_v1_connectors.py`
does (one set for all syncs, also after one that raised) and as
`SyncOutcome.next_cursor` asks for. A MISA record has a kind, an external id and a
version, and is known by the last two only, as in `sync_misa`.

A Gmail message is its position in the mailbox. What the provider does is an
assumption: the message list begins with the newest message, a page of the
history with the oldest after the cursor, and every page comes with the current
history id of the whole mailbox, as in Gmail's API. `incremental_sync` reads one
page of the history (`HistoryPage`) and ignores its `next_page_token`.

### Automation

`SetPolicy`, `Evaluate`/`Record`/`CommitDecision` (the endpoint, with the unique
key of decisions), `Decide`/`Revalidate`/`Deliver` (the path of one e-mail).
Everything that excludes a case for its own data is one set of troubles. The
endpoint evaluates every case as unverified, so it records only blocked
decisions; the loop that would send e-mails is not in the repository. The policy
in force is the one with the newest `enabled_at`; `SetPolicy` takes that to be the
one committed last, which two overlapping changes of the policy could break.

### Components

`focus` names the component that runs; the variables of the others are `Off`, and
a step is a step of that component. The modules above are instances in it, so
that their properties and theorems are about one specification; it also holds
the assumptions on their constants.

## 3. Runs

| Run | Instance | Shows |
|---|---|---|
| `recon_payments` | 2 sessions, 2 credits, 1 refund, 2 invoices, payments only, with fairness | `PaidExactlyWhenCovered`, `TransactionStatusAgrees`, `WritersExclusive`, `EveryRequestAnswered` |
| `recon_reimport` | the same with files and fewer payments | `TypeOK`, `TransactionCovered`, `PaidOnlyWhenSettled`, `AllocationsConserved`, `AllocationLifecycle`, `ImplementsLedger` |
| `recon_false_paid` | 1 session | finding: a PAID case with an outstanding invoice |
| `approvals` | 2 sessions, 2 approvals of one case, 2 batch keys, 1 draft key, with fairness | `TypeOK`, `BatchesDecideOnce`, `BulkKeepsDecisions`, `DraftsApproved`, `DraftActionsFaithful`, `EveryRequestAnswered` |
| `approvals_duplicate_draft` | 1 session | finding: two drafts under one key |
| `approvals_expired_draft` | 1 session | finding: a draft for an expired approval |
| `approvals_rejection` | 1 session | finding: a rejected approval becomes approved |
| `outlook_sync` | 2 sessions, 1 inbox with 5 changes of 2 messages, a deletion last, pages of 2 | `TypeOK`, `CursorCovered`, `SyncsNeverDeadlock`, `SyncedMeansStored` |
| `components` | ten components, one at a time: `Components` as `MCComponents` instantiates it | see below |
| `tenant_deletion` | rows in six tables | finding: a tenant with rows in newer tables cannot be deleted |
| `misa_replay` | 2 pages of one record, 3 attempts | finding: records of a sync that raised are returned by no sync |
| `gmail_cursor` | 4 messages, pages of 2 | finding: the cursor passes a message that was not ingested |

`components` has one initial state or more for each component (`focus`), and
the steps of that component only; they share no state, so nothing is lost by
checking them side by side, and their instances stay small:

| Focus | Instance | Properties |
|---|---|---|
| migrations | every pair of revisions, three facts about rows | `TypeOK`, `SchemaFollowsRevision`, `StatementsApply`, `TenantTablesGuarded`, `LinksStayInTenant`, `OrmMatchesHead` |
| lifecycle | rows in one of ten tables and its parents, or in all the deletion names; late documents and blockers | `DeletionAllOrNothing`, `ObjectsReported`, `OrderRespectsLinks` |
| ingest | 2 sessions, 2 invoice files in opposite orders, 2 statements | `ImportsExact` |
| documents | 2 sessions, a clean and an infected content | `DocumentsStored`, `SuccessfulUploadsKept` |
| workflow | 4 signals, 2 start statuses, any number of time-outs | `SignalsInOrder`, `CasesEnd` |
| rules | 2 sessions, 3 people, 2 rules; all sets of 6 definitions | `PublishedForGood`, `RulesDecide` |
| misa | 3 pages with repeated records and a common identity, 3 attempts a page | `RecordsOnceInOrder` |
| gmail | 6 messages, pages of 2 | `FullSyncsComplete` |
| evaluations | 2 sessions, 2 policies, 2 case versions | `DecisionsRecordedOnce` |
| deliveries | the same policies, one e-mail at a time | `SentSafely` |

What the properties leave open is part of the result. `RecordsOnceInOrder` and
`FullSyncsComplete` say what the two synchronisations keep; that nothing gets
lost is stated without exception as `RecordsReplayed` and
`CursorFollowsIngestion`, and is false (findings 6 and 7). `StatementsApply` names
the three places where rows stop a migration; `ObjectsReported` excepts the
documents that are stored while the deletion runs, `AllocationsConserved` the
commits of files, and `SentSafely` ends at the revalidation.

Bounds. Two concurrent sessions are the least with which two requests overlap,
and every statement of one can fall between any two of the other; a session
serves requests for ever, so sequences of any length are covered. Lock cycles
need two sessions. The amounts let a transaction cover both invoices, one, or
neither, and leave one invoice half paid at import. Confirmations name the
invoices in both orders. The two sessions of `approvals` choose among seven
requests (`OverlappingBody`): liveness over all of `SingleBody` is out of TLC's
reach, and the safety properties are proved for any requests. `MaxDrafts = 2` is the least bound at which a duplicate
exists; at the bound the provider answers with errors, which it may always do.
Where a property has a counterexample it needs one session. The five changes of
the inbox make a round of three pages, a message that appears again within a page
and across pages, and a page that cannot be read.

Fairness. `LiveSpec` assumes strong fairness of the next statement of each
session: PostgreSQL queues the waiters of a lock, so a statement that could run
again and again is granted in the end; a deadlock is detected and costs one
session its request; the provider call has a time-out. `OutlookSync` states no liveness: its
waits end because there are no cycles, its page loop because changes are finite.
Clients and crashes are
under no obligation. `CasesEnd` assumes weak fairness of `Activate`: Temporal
schedules a workflow task for every signal and timer that has fired, and a
worker that dies is replaced.

Bounds of `components`. Two sessions as above. Two files with the same invoices
in opposite orders give unique conflicts, waits and a deadlock. Four signals
hold a status before and after a terminal one and a cancellation. Six messages
are three pages, so that arrivals fall between pages and behind the last one, and
histories of more than one page; `gmail_cursor` needs only two pages;
three attempts exceed and stay within `max_attempts`. The definitions of rules
meet in one day, contain each other, have no expiry, and differ in version,
value or scope only. The deletion runs with a row in one table and its parents
rather than in any set of tables: a foreign key concerns two tables, and the
instance with rows everywhere checks the order as a whole. The workflow's time-outs and the commands of `Migrations`
are unbounded.

Each property of a passing run has a mutant in `PROJECT.json`: a definition of
the code changed as a plausible bug would change it (a missing lock, a check of
only this request's items, a swallowed exception, a leaked lock), under which
TLC finds the property violated.

### Findings

1. *PAID with money outstanding.* `invoice_import_service.py:102` restores the
   outstanding of an invoice whose case is PAID. The plan says PAID requires
   allocations equal to the outstanding amount.
2. *Duplicate drafts.* `draft_effect.py:29` calls the provider before recording
   anything. A lost answer and a repetition leave two drafts under one key.
3. *Drafts after expiry.* Nothing on the way to `create_draft` reads
   `expires_at`, which the plan says is rechecked immediately before.
4. *Rejected, then approved.* `approve_content` does not look at the status.
5. *Tenants that cannot be deleted.* `tenant_lifecycle.py:66` lists 22 tables; the
   tables of three later migrations are missing, and a row in one of them fails
   the deletion on its foreign key. The deletion is rolled back as a whole.

6. *MISA records lost behind an error.* `sync_misa` adds each identity to the
   caller's `known_versions` while it reads (`v1_connectors.py:111`) and raises when
   a later page fails. The next sync takes what was read for duplicates and its
   checkpoint passes it. `docs/v1-implementation.md:71`, 73 and 79 ask for replay, a
   safe retry and errors that can be retried or replayed. Records of different
   kinds that share external id and version lose one of them in the same way.
7. *The Gmail cursor passes messages.* The cursor of a full sync is the history id
   of the page read last (`gmail_sync.py:39`), so a message that arrives while it
   pages is neither listed nor in any later history. An incremental sync does the
   same to every page of the history but the first (`gmail_sync.py:48`): TLC finds
   the arrival first, the trace through the history is a sync, `PageSize + 1`
   arrivals and a notification. `docs/MVP_IMPLEMENTATION_PLAN.md:137` says that the
   cursor advances only after durable ingestion, `docs/MVP_TASKS.md:67` that an
   expired history performs a safe full sync.

Disagreements with documents that the models show but no run is devoted to:

- a repeated confirmation is refused by the unique pair instead of answered with
  its first result (`docs/MVP_IMPLEMENTATION_PLAN.md:122`, "duplicate commands
  return original result"; `Allocatable` in `Reconciliation`);
- `publish_payment_rule` looks for no conflicts, only the simulation does, so rules
  that conflict are published (`docs/v1-implementation.md:148`; `LockRule` in
  `PaymentRules`);
- `revalidate_before_send` does not ask for the error rate and nothing is asked
  after it, so an open circuit breaker does not stop an e-mail that was decided
  (`docs/v2-implementation.md:71`, 74; `Unchanged` in `Automation`);
- the case workflow applies every status it is sent, also those `ALLOWED` of
  `domain/state_machine.py` forbids (`docs/MVP_IMPLEMENTATION_PLAN.md:122`, "Illegal
  transitions return 409"; `Activate` in `CaseWorkflow`);
- an item of a batch that names an unknown approval, or one approval twice, fails
  the whole batch on a constraint (`docs/v1-implementation.md:160` asks for a
  per-item result; `BulkLockApproval` in `Approvals`).

Observations about which no document was found to say what should hold: a
reversal marks its transaction REVERSED even when other allocations of it stand;
after a re-import has restored an outstanding amount the allocation may be
impossible to reverse; any status but 200 of the token endpoint, a server error
included, marks the connection REAUTH_REQUIRED, also when a newer sign-in has
replaced the credential since; a deletion in the inbox cannot be read, so the
cursor stays before it and every later sync fails there; a status and a
cancellation in one activation of the workflow leave the status. Two downgrades
and one upgrade fail on rows that the other revision allows, as the production
readiness report notes for the draft key.

## 4. Proofs

The theorems hold for every value of the constants that satisfies the named
assumptions: any set of sessions, rows, requests, files, contents, pages. Each
inductive invariant below was checked with TLC on the instance of its run before
it was proved. `PROJECT.json` lists the theorems with the property each states.

### Assumptions

| Assumption | Says | Why |
|---|---|---|
| `TxnAssumption`, `OpeningAssumption`, `BodyAssumption`, `FiniteAssumption` (`Reconciliation`) | positive transactions, invoices and files with 0 <= outstanding <= amount, finite tables | checks of the tables, `preview_import`, the request models |
| `ContentAssumption`, `BodyAssumption`, `BoundAssumption` (`Approvals`) | an approval has one content, a batch has items | column, request model |
| `ChangesAssumption`, `PageAssumption`, `AccountAssumption` (`OutlookSync`) | an inbox is a sequence of messages and deletions, a page is not empty, there is an inbox | Graph's delta query |
| `FilesAssumption` (`Components`) | a file names an invoice behind its customer | the parsed line carries both |
| `RulesAssumption` | a finite list of rules whose period is not empty; a simulation may ask for the day a rule begins | `RuleDefinition` and its validators |
| `GmailAssumption`, `MisaAssumption`, `AutomationAssumption` | sizes are numbers, pages are sequences, policies have their fields | types of the code |
| `MigrationsAssumption` (`Components`) | commands name revisions 0 to 12, rows come with known facts | the revisions that Alembic finds |
| `LifecycleAssumption` | tables with rows of the tenant link to the tenant | follows from the migrations when the rows are of tables of tenants, all but `tenants`, `users` and `llm_pricing` (`TenantsAreLinked`) |

### Sums

`SumFunctionOnSet` of the community modules is a recursive function below a
`CHOOSE`. `LedgerProofs` begins with what it computes on finite sets: the empty sum, the sum
split at an element (`SumSplit`), a changed value, renamed elements
(`SumRenamed`). An induction is an argument about a minimal counterexample:
a nonempty set of natural numbers (cardinalities, indices) has a least member.
`OutlookSyncProofs` and `SequencesProofs` treat the folds over pages in the same
way (`PutSteps`, `FoldSteps`), `SchemaProofs` the fold over the statements of a script
(`CourseSteps`).

### Reconciliation

- `TypeCorrect` from `TypeInv`, which adds that a session is only at statements of
  the request it serves and at an item that exists.
- `WritersNeverOverlap` from `LockInv`: locks of different sessions are disjoint,
  writes lie under locks, a confirm past its first statement holds its
  transaction, a reversal its allocation. `WritersExclusive` alone is not
  inductive: a commit may publish a row only if its writer still holds it.
- `AllocationsFollowLifecycle` from `LockInv`, `CasesPaidOnlyWhenSettled` from
  `PayingInv`: a session that has written PAID holds the invoice, sees nothing
  outstanding and has written a confirmed allocation.
- `WorkInv` (`LedgerProofs`) says what a session has written at each statement:
  a confirmation exactly the payments of the items it has passed, each relative
  to the committed row it holds, and the statuses of the cases it has settled. From
  it `LedgerSteps`: every step of the program leaves the committed rows alone or is
  one of `Pays`, `TakesBack`, `Rewrites`, the whole effect of a request.
- `LedgerInv` is inductive over these three: `TransactionsCovered`,
  `TransactionStatusesAgree`. `ConfirmedPositive` is needed because a reversal must
  leave a transaction with less than its amount allocated.
- `MoneyConserved`: what an invoice is worth (outstanding plus confirmed) changes
  only by the commit of a file.
- `PaidExactly`: `InvoiceSettled` is inductive over payments and reversals. Its
  hypothesis, no request is a re-import, is the one the run has: with
  re-imports the property is false (finding 1).
- `LedgerImplemented`: `Reconciliation` implements `Ledger`. The initial states map
  to initial states; `PaysIsConfirm`, `TakesBackIsReverse` and `RewritesIsReimport`
  map the steps. The refinement mapping reads the committed rows only.

### Approvals

`BatchInv` says what a batch holds between its statements: its own row, and of
every approval it has decided the lock, under which the committed status is still
PENDING. `BatchesKeepDecisions` is an action property over it, `ReportInv`
(reported approvals are decided and belong to one batch) gives
`ApprovalsReportedOnce`. `DraftInv` adds that a session that calls the provider
has an approval whose committed status is a decision, and that decisions are not
taken back to PENDING: `DraftsAreApproved`. `DraftActionsTrue` needs `DraftHeld`:
the draft a session is about to record was made for its request.

### Outlook

`Reads(o, n, list)` is what a sync knows of the first `n` changes of an inbox:
each is in its list or stored, and messages that are not stored stand in the
order of the inbox. `SyncInv` says that every running sync reads that way, that
it sees every message it has dealt with, and that it locks only such
messages. It gives `CursorNeverSkips` and `SuccessMeansStored`. `SyncsWaitInOrder`
follows from the order: around a cycle of waiting syncs the first appearances in
the inbox would increase for ever. Its hypothesis `InboxesApart` (no message is in
two inboxes) is necessary: with two inboxes that share two messages in opposite
orders TLC finds two syncs that wait for each other. Microsoft's identifiers are
per mailbox, so inboxes do not share them.

### Components

An invariant of a component has the form `focus = ... => Inv`; the lemma
`OneComponent` gives that the steps of another component leave it alone.

- *Imports* (`ImportInv`): a session has locked the rows it writes, has counted
  exactly those that are not committed, with a case for each new invoice, and sees
  the customer of every invoice it writes; a committed row was counted once.
- *Documents* (`DocumentInv`): what an upload has written, locked and found at each
  step; a document it will commit is clean, stored, and comes with its source.
- *Rules* (`RuleInv`): a publication that will commit holds a rule that is a draft
  for everybody else. `RulesAlwaysDecide` concerns the operators alone: two rules
  in force on a day that differ in value only are found by the comparison of
  periods, and then on every day one value per type wins.
- *Workflow* (`SignalsInv`): what was received is what was applied followed by what
  waits, as long as the workflow has not ended.
- *MISA* (`RecordsInv`): what was returned, followed by what the sync under way has
  read, is known, without repetition and in the order of the pages, and every
  record of the pages behind the sync is known. The second part makes a record
  that is not known new on its page.
- *Gmail* (`GmailInv`): a full sync has listed everything from its token to the
  message with which it began, which is newer than the cursor.
- *Automation* (`EvaluationInv`, `DeliveryInv`): an evaluation that has inserted its
  decision holds its key; an e-mail that is validated passed its last check.
- *Tenant lifecycle* (`DeletionInv`): past the last table of the order, the tenant's
  own, nothing of the tenant is left, since every table links to it.

### Schema and migrations

The theorems hold for any targets of commands and any facts about rows. They are
about twelve concrete migrations, so most of the work is to say what those do
without computing sets of 49 tables statement by statement.

- `Course(base, script)` is the function from positions to schemas that the fold over
  a script goes through (`CourseSteps`); every later argument is about one statement
  at a time.
- `Place` numbers the tables in the order in which they are created, so the tables of
  every revision are those up to a number, `TablesUpTo(CountAt(r))`, and a creation, a
  drop, an isolation or a grant over a list moves that number by one. The links of a
  table go to tables with a smaller place, which is why creations in this order and
  drops in the opposite one apply.
- `Shape(s, n, q)` gives every field of a schema in closed form, `IsAt(s, r)` the one
  of revision `r`. A lemma per script, up and down, shows `Leads`: from
  the shape of its revision each statement can be applied, and the last one leads to
  the shape of the next. Two schemas of one shape are equal (`OneSchema`), so a
  downgrade restores what its upgrade found: `SchemaIsOfRevision` rests on it.
- `MigrationsInv` is the inductive invariant: the committed schema is that of the
  revision and permits the rows there are, and a command between two statements has
  made exactly the schema due at that position of its script (`Path`). The statement
  about committed schemas alone is not inductive, because `Finish` commits what the
  command has made. `RowsFit` is needed for `StatementsAlwaysApply`: rows are checked
  against committed schemas only, and a script may drop their table, or narrow a
  constraint, in between.
- `TablesGuarded`, `LinksInTenant` and `OrmAtHead` follow from the shape of the
  committed revision, compared with the ORM's tables as `models.py` declares them.
- `DeletionOrderRespectsLinks` from `OrderInv`: rows of the tables whose turn has been
  are deleted, unless they arrived late. `Turn` is the position of a table in the
  order; at the newest shape each link between two covered tables goes from an earlier
  turn to a later one.

### Only model-checked

Every invariant that a passing run checks is stated by a theorem, and so is every
action property and the refinement. `CasesEnd` and `EveryRequestAnswered` are only
model-checked: liveness under fairness is out of the prover's reach.

## 5. Plan

1. `ReadCommitted`: the exclusion of row locks is proved once for each module that
   uses it (`LockInv`, `LocksExclusive`, `KeysExclusive`); common lemmas would do.
2. A migration added to the repository: its two scripts in `Schema`, the places of its
   tables behind the last, a lemma for each script, and one more case in `Counts` and
   in the walk over the revisions.
3. `Components`: that each component's part of the state is left alone by the
   others as a theorem, so that new components need no proof of it.

## 6. Not modelled

- OCR, text extraction, calls of language models and checks of their text: they
  compute on contents that TLC cannot enumerate usefully and share no state.
- Scores and forecasts (matching, probability to pay, behaviour, cash flow): pure
  functions, most of them on floating-point numbers, which TLC does not have. The
  endpoints of `v2_features.py` and `ai_features.py` that store their results
  insert rows that nothing reads back into a decision.
- Login, permissions and sessions: every modelled request is assumed to have
  passed them. Row level security is checked as schema, not per request.
- The failure queue and the stored idempotent responses: only tests call them.
- The data set generator, scripts, deployment files and the web pages.
