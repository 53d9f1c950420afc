-------------------------- MODULE ComponentsProofs --------------------------
(***************************************************************************)
(* Theorems about the components: for any sessions, files, contents,       *)
(* people and pages, not only those of the runs.                           *)
(***************************************************************************)
EXTENDS Components, FiniteSetTheorems, WellFoundedInduction, TLAPS

-----------------------------------------------------------------------------
(* Numbers.                                                                *)

\* A nonempty set of natural numbers has a least member.
LEMMA LeastNat ==
  ASSUME NEW set \in SUBSET Nat, set # {}
  PROVE  \E n \in set : \A k \in set : n <= k
<1>1. PICK n \in set : \A k \in set : ~ (<<k, n>> \in OpToRel(<, Nat))
  BY Zenon, NatLessThanWellFounded, WFMin
<1>2. \A k, m \in Nat : k < m => <<k, m>> \in OpToRel(<, Nat)
  BY Zenon DEF OpToRel
<1>3. \A k \in set : ~ (k < n)
  BY <1>1, <1>2
<1>4. QED
  BY <1>3

-----------------------------------------------------------------------------
(* One component at a time.                                                *)

\* The component that runs stays the same, and only it moves.
LEMMA OneComponent ==
  ASSUME [Next]_vars
  PROVE  /\ focus' = focus
         /\ focus = "migrations" => [S!Next]_(S!vars)
         /\ focus = "lifecycle" => [T!Next]_(T!vars)
         /\ focus = "ingest" => [I!Next]_(I!vars)
         /\ focus = "documents" => [D!Next]_(D!vars)
         /\ focus = "workflow" => [W!Next]_(W!vars)
         /\ focus = "rules" => [R!Next]_(R!vars)
         /\ focus = "misa" => [M!Next]_(M!vars)
         /\ focus = "gmail" => [G!Next]_(G!vars)
         /\ focus = "evaluations" => [A!Evaluations]_(A!vars)
         /\ focus = "deliveries" => [A!Deliveries]_(A!vars)
<1>1. CASE UNCHANGED vars
  BY <1>1 DEF vars, store, migrations, lifecycle, ingest, documents, workflow, misa, gmail,
     automation, S!vars, T!vars, I!vars, D!vars, W!vars, R!vars, M!vars, G!vars, A!vars
<1>2. CASE Migrations
  BY <1>2 DEF Migrations
<1>3. CASE Lifecycle
  BY <1>3 DEF Lifecycle
<1>4. CASE Ingest
  BY <1>4 DEF Ingest
<1>5. CASE Documents
  BY <1>5 DEF Documents
<1>6. CASE Workflow
  BY <1>6 DEF Workflow, OutsideWorkflow
<1>7. CASE Rules
  BY <1>7 DEF Rules
<1>8. CASE Misa
  BY <1>8 DEF Misa
<1>9. CASE Gmail
  BY <1>9 DEF Gmail
<1>10. CASE Evaluations
  BY <1>10 DEF Evaluations, OutsideAutomation
<1>11. CASE Deliveries
  BY <1>11 DEF Deliveries, OutsideAutomation
<1>12. QED
  BY <1>1, <1>2, <1>3, <1>4, <1>5, <1>6, <1>7, <1>8, <1>9, <1>10, <1>11 DEF Next

-----------------------------------------------------------------------------
(* GmailSync.                                                              *)

\* Positions are numbers and the cursor is a position of the mailbox.  A full sync under
\* way had a reason, and has listed everything from its token to where it began.
GmailInv ==
  /\ mailbox \in Nat /\ oldest \in Nat /\ cursor \in 0 .. mailbox
  /\ sync.running =>
       /\ sync.token \in Nat /\ sync.began \in 0 .. mailbox
       /\ cursor < sync.began
       /\ \A m \in 1 .. sync.began : m > sync.token => m \in sync.ids

\* A page and the rest below it make up what is below the token.
LEMMA PageAndRest ==
  ASSUME NEW token \in Nat
  PROVE  /\ G!Rest(token) \in Nat
         /\ \A m \in 1 .. token : m > G!Rest(token) => m \in G!Page(token)
BY GmailAssumption DEF G!Rest, G!NextToken, G!Page

\* One round of the loop keeps what is listed, and the last one stores it.
LEMMA RoundCovers ==
  ASSUME NEW token \in Nat, NEW ids, NEW began, GmailInv,
         mailbox' = mailbox, oldest' = oldest, began \in 0 .. mailbox, cursor < began,
         \A m \in 1 .. began : m > token => m \in ids,
         G!ReadPage(began, token, ids)
  PROVE  GmailInv' /\ (cursor' # cursor => cursor' > cursor /\ 1 .. began \subseteq stored')
<1> DEFINE sofar == ids \union G!Page(token)
<1>1. G!Rest(token) \in Nat /\ \A m \in 1 .. began : m > G!Rest(token) => m \in sofar
  BY PageAndRest DEF GmailInv
<1>2. CASE G!Rest(token) = 0
  <2>1. sync' = G!Idle /\ cursor' = mailbox /\ stored' = stored \union sofar
    BY <1>2 DEF G!ReadPage, G!Ingest
  <2>2. 1 .. began \subseteq sofar
    BY <1>1, <1>2 DEF GmailInv
  <2>3. QED
    BY <2>1, <2>2 DEF GmailInv, G!Idle
<1>3. CASE G!Rest(token) # 0
  <2>1. sync' = G!Listing(began, G!Rest(token), sofar) /\ cursor' = cursor
    BY <1>3 DEF G!ReadPage
  <2>2. sync'.began = began /\ sync'.token = G!Rest(token) /\ sync'.ids = sofar
    BY <2>1 DEF G!Listing
  <2>3. QED
    BY <1>1, <2>1, <2>2 DEF GmailInv
<1>4. QED
  BY <1>2, <1>3

\* A step of the synchronisation keeps the listing; the last one of a full sync has
\* stored all of it.
LEMMA GmailStep ==
  ASSUME GmailInv, [G!Next]_(G!vars)
  PROVE  GmailInv' /\ G!FullSyncsComplete
<1>1. CASE UNCHANGED G!vars
  BY <1>1 DEF G!vars, GmailInv, G!FullSyncsComplete
<1>2. CASE G!Arrive
  BY <1>2 DEF G!Arrive, GmailInv, G!FullSyncsComplete
<1>3. CASE G!Forget
  BY <1>3 DEF G!Forget, GmailInv, G!FullSyncsComplete
<1>4. CASE G!Continue
  <2>1. /\ sync.running /\ mailbox' = mailbox /\ oldest' = oldest
        /\ G!ReadPage(sync.began, sync.token, sync.ids)
    BY <1>4 DEF G!Continue
  <2>2. GmailInv' /\ (cursor' # cursor => cursor' > cursor /\ 1 .. sync.began \subseteq stored')
    BY <2>1, RoundCovers DEF GmailInv
  <2>3. QED
    BY <2>1, <2>2 DEF G!FullSyncsComplete, G!Began
<1>5. CASE G!Crash
  BY <1>5 DEF G!Crash, G!Idle, GmailInv, G!FullSyncsComplete
<1>6. ASSUME NEW notified \in 1 .. mailbox, G!Notify(notified)
      PROVE  GmailInv' /\ G!FullSyncsComplete
  <2>1. /\ ~ sync.running /\ mailbox' = mailbox /\ oldest' = oldest
        /\ cursor < mailbox
    BY <1>6 DEF G!Notify, G!NotificationAdvances, GmailInv
  <2>2. CASE G!NeedsFullSync
    <3>1. G!ReadPage(mailbox, mailbox, {})
      BY <1>6, <2>2 DEF G!Notify
    <3>2. \A m \in 1 .. mailbox : m > mailbox => m \in {}
      BY DEF GmailInv
    <3>3. GmailInv' /\ (cursor' # cursor => cursor' > cursor /\ 1 .. mailbox \subseteq stored')
      BY <2>1, <3>1, <3>2, RoundCovers DEF GmailInv
    <3>4. QED
      BY <2>1, <3>3 DEF G!FullSyncsComplete, G!Began
  <2>3. CASE ~ G!NeedsFullSync
    BY <1>6, <2>1, <2>3 DEF G!Notify, G!Ingest, G!Idle, GmailInv, G!FullSyncsComplete
  <2>4. QED
    BY <2>2, <2>3
<1>7. QED
  BY <1>1, <1>2, <1>3, <1>4, <1>5, <1>6 DEF G!Next

\* For any page size, order of notifications, expiry of the history, arrivals and
\* crashes, the cursor only goes forward, and a full sync that moves it has ingested
\* every message that was there when it began (gmail_sync.py initial_sync).
THEOREM FullSyncsIngestAll == Spec => FullSyncsComplete
<1>1. Init => (focus = "gmail" => GmailInv)
  BY GmailAssumption DEF Init, InitGmail, G!Init, G!Idle, GmailInv
<1>2. (focus = "gmail" => GmailInv) /\ [Next]_vars
        => (focus = "gmail" => GmailInv)' /\ [focus = "gmail" => G!FullSyncsComplete]_vars
  BY OneComponent, GmailStep
<1>3. QED
  BY <1>1, <1>2, PTL DEF Spec, FullSyncsComplete

-----------------------------------------------------------------------------
(* Automation: the delivery of e-mails.                                    *)

Candidates == [version : Nat, recipient : {"r1", "r2"}, troubles : SUBSET {"paid or disputed"}]

\* Policies are ones that may be requested, the case has its columns.
PoliciesTyped == policies \in Seq(Policies) /\ case \in Candidates /\ switch \in BOOLEAN

\* What the last check must have found of the e-mail m.
Checked(m) ==
  /\ m.to = m.check.case /\ m.check.case.troubles = {}
  /\ ~ m.check.switch /\ ~ m.check.policy.kill_switch
  /\ m.check.policy.mode \in {"canary", "enabled"}
  /\ m.check.policy.mode = "canary" => Bucket < m.check.policy.canary

\* An e-mail under way was decided for a case without troubles; once validated
\* its check has found everything as it must be.
MailInv ==
  /\ mail.at \in {"idle", "decided", "validated"}
  /\ mail.at # "idle" => mail.original \in Candidates /\ mail.original.troubles = {}
  /\ mail.at = "validated" => Checked([to |-> mail.original, check |-> mail.check])

DeliveryInv == focus = "deliveries" => PoliciesTyped /\ MailInv /\ A!SentSafely

\* A candidate is given by its three columns.
LEMMA CandidateFields ==
  ASSUME NEW c \in Candidates
  PROVE  c = [version |-> c.version, recipient |-> c.recipient, troubles |-> c.troubles]
BY Zenon DEF Candidates

\* The policy in force, the one that stands for none included, has its fields.
LEMMA PolicyTyped ==
  ASSUME policies \in Seq(Policies)
  PROVE  /\ A!Policy.mode \in {"disabled", "shadow", "canary", "enabled"}
         /\ A!Policy.kill_switch \in BOOLEAN
         /\ A!Policy.canary \in Nat
<1>1. CASE policies = <<>>
  BY <1>1 DEF A!Policy, A!NoPolicy
<1>2. CASE policies # <<>>
  <2>1. A!Policy = policies[Len(policies)]
    BY <1>2 DEF A!Policy, A!Last
  <2>2. policies[Len(policies)] \in Policies
    BY <1>2
  <2>3. QED
    BY <2>1, <2>2, AutomationAssumption
<1>3. QED
  BY <1>1, <1>2

\* A decision to send means that nothing stands against it.
LEMMA EnqueuedIsSafe ==
  ASSUME PoliciesTyped, NEW broken, A!Disposition(case, A!Policy, broken) = "ENQUEUE"
  PROVE  /\ case.troubles = {} /\ ~ switch /\ ~ A!Policy.kill_switch
         /\ A!Policy.mode \in {"canary", "enabled"}
         /\ A!Policy.mode = "canary" => Bucket < A!Policy.canary
<1> DEFINE policy == A!Policy
           why == A!Exclusions(case, policy, broken)
<1>1. /\ policy.mode \in {"disabled", "shadow", "canary", "enabled"}
      /\ policy.kill_switch \in BOOLEAN /\ policy.canary \in Nat
  BY PolicyTyped DEF PoliciesTyped
<1>2. A!Disposition(case, policy, broken) = "ENQUEUE"
  OBVIOUS
<1> HIDE DEF policy
<1>3. policy.mode # "shadow" /\ why = {}
  BY <1>2 DEF A!Disposition
<1>4. case.troubles = {} /\ policy.mode # "disabled"
  BY <1>3 DEF A!Exclusions
<1>5. ~ switch /\ ~ policy.kill_switch
  BY <1>3 DEF A!Exclusions
<1>6. policy.mode = "canary" => ~ (Bucket >= policy.canary)
  BY <1>3 DEF A!Exclusions
<1>7. QED
  BY <1>1, <1>3, <1>4, <1>5, <1>6, AutomationAssumption DEF policy

\* What happens around an e-mail or an evaluation keeps the types, and policies
\* are only added.
LEMMA SurroundingsSteps ==
  ASSUME PoliciesTyped, A!Surroundings
  PROVE  /\ PoliciesTyped'
         /\ UNCHANGED <<store, evaluation, mail, sent>>
         /\ Len(policies) <= Len(policies')
         /\ \A i \in 1 .. Len(policies) : policies'[i] = policies[i]
<1>1. CASE \E p \in Policies : A!SetPolicy(p)
  <2>1. PICK p \in Policies : A!SetPolicy(p)
    BY <1>1
  <2>2. policies' = Append(policies, p) /\ policies \in Seq(Policies)
    BY <2>1 DEF A!SetPolicy, PoliciesTyped
  <2>3. QED
    BY <2>1, <2>2 DEF A!SetPolicy, PoliciesTyped, A!store, store
<1>2. CASE A!Change
  <2>1. UNCHANGED <<store, policies, switch, evaluation, mail, sent>>
    BY <1>2 DEF A!Change, A!store, store
  <2>2. case' \in Candidates
    <3>1. /\ case = [version |-> case.version, recipient |-> case.recipient,
                   troubles |-> case.troubles]
          /\ case.version \in Nat /\ case.recipient \in {"r1", "r2"}
          /\ case.troubles \in SUBSET {"paid or disputed"}
      BY CandidateFields DEF PoliciesTyped, Candidates
    <3>2. CASE case' = [case EXCEPT !.troubles = {"paid or disputed"}]
      BY <3>1, <3>2 DEF Candidates
    <3>3. CASE case' = [case EXCEPT !.version = @ + 1]
      <4>1. case' = [version |-> case.version + 1, recipient |-> case.recipient,
                     troubles |-> case.troubles]
        BY <3>1, <3>3
      <4>2. case.version + 1 \in Nat
        <5>1. case.version \in Nat
          BY <3>1
        <5>2. QED
          BY <5>1
      <4>3. QED
        BY <3>1, <4>1, <4>2, Zenon DEF Candidates
    <3>4. CASE case' = [case EXCEPT !.recipient = "r2"]
      <4>1. case' = [version |-> case.version, recipient |-> "r2", troubles |-> case.troubles]
        BY <3>1, <3>4
      <4>2. QED
        BY <3>1, <4>1, Zenon DEF Candidates
    <3>5. QED
      BY <1>2, <3>2, <3>3, <3>4 DEF A!Change
  <2>3. QED
    BY <2>1, <2>2 DEF PoliciesTyped
<1>3. CASE A!FlipSwitch
  BY <1>3 DEF A!FlipSwitch, PoliciesTyped, A!store, store
<1>4. QED
  BY <1>1, <1>2, <1>3 DEF A!Surroundings

\* A step of the delivery keeps what is known of the e-mail.
LEMMA DeliveryStep ==
  ASSUME PoliciesTyped, MailInv, A!SentSafely, [A!Deliveries]_(A!vars)
  PROVE  (PoliciesTyped /\ MailInv /\ A!SentSafely)'
<1>1. CASE UNCHANGED A!vars
  BY <1>1 DEF A!vars, PoliciesTyped, MailInv, A!SentSafely, Checked
<1>2. CASE A!Surroundings
  BY <1>2, SurroundingsSteps DEF MailInv, A!SentSafely, Checked
<1>3. ASSUME NEW b \in BOOLEAN, A!Decide(b) PROVE (PoliciesTyped /\ MailInv /\ A!SentSafely)'
  <2>1. /\ mail' = [at |-> "decided", original |-> case]
        /\ UNCHANGED <<policies, case, switch, sent>>
        /\ A!Disposition(case, A!Policy, b) = "ENQUEUE"
    BY <1>3 DEF A!Decide
  <2>2. case.troubles = {}
    BY <2>1, EnqueuedIsSafe
  <2>3. QED
    BY <2>1, <2>2 DEF PoliciesTyped, MailInv, A!SentSafely, Checked
<1>4. CASE A!Revalidate
  <2>1. /\ mail.at = "decided" /\ UNCHANGED <<policies, case, switch, sent>>
        /\ mail' = IF A!Unchanged(mail.original) /\ A!Disposition(case, A!Policy, FALSE) = "ENQUEUE"
                   THEN [at |-> "validated", original |-> mail.original,
                         check |-> [case |-> case, policy |-> A!Policy, switch |-> switch]]
                   ELSE A!Idle
    BY <1>4 DEF A!Revalidate
  <2>2. (PoliciesTyped /\ A!SentSafely)'
    BY <2>1 DEF PoliciesTyped, A!SentSafely
  <2>3. CASE /\ A!Unchanged(mail.original)
             /\ A!Disposition(case, A!Policy, FALSE) = "ENQUEUE"
    <3>1. /\ mail'.at = "validated" /\ mail'.original = mail.original
          /\ mail'.check = [case |-> case, policy |-> A!Policy, switch |-> switch]
      BY <2>1, <2>3
    <3>2. /\ case.troubles = {} /\ ~ switch /\ ~ A!Policy.kill_switch
          /\ A!Policy.mode \in {"canary", "enabled"}
          /\ A!Policy.mode = "canary" => Bucket < A!Policy.canary
      BY <2>3, EnqueuedIsSafe
    <3>3. mail.original \in Candidates /\ mail.original.troubles = {}
      BY <2>1 DEF MailInv
    <3>4. mail.original = case
      <4>1. \A c \in Candidates :
              c = [version |-> c.version, recipient |-> c.recipient, troubles |-> c.troubles]
        BY CandidateFields
      <4>2. /\ case \in Candidates
            /\ mail.original.version = case.version /\ mail.original.recipient = case.recipient
        BY <2>3 DEF A!Unchanged, PoliciesTyped
      <4>3. QED
        BY <3>2, <3>3, <4>1, <4>2, Zenon
    <3>5. Checked([to |-> mail'.original, check |-> mail'.check])
      BY <3>1, <3>2, <3>4 DEF Checked
    <3>6. QED
      BY <2>2, <3>1, <3>3, <3>5 DEF MailInv
  <2>4. CASE ~ (/\ A!Unchanged(mail.original)
                /\ A!Disposition(case, A!Policy, FALSE) = "ENQUEUE")
    BY <2>1, <2>2, <2>4 DEF MailInv, A!Idle
  <2>5. QED
    BY <2>3, <2>4
<1>5. ASSUME NEW b \in BOOLEAN, A!Deliver(b) PROVE (PoliciesTyped /\ MailInv /\ A!SentSafely)'
  <2>1. /\ mail.at = "validated" /\ mail' = A!Idle /\ UNCHANGED <<policies, case, switch>>
        /\ \A m \in sent' : m \in sent \/ m = [to |-> mail.original, check |-> mail.check]
    BY <1>5 DEF A!Deliver
  <2>2. \A m \in sent' : Checked(m)
    BY <2>1 DEF MailInv, A!SentSafely, Checked
  <2>3. QED
    BY <2>1, <2>2 DEF PoliciesTyped, MailInv, A!SentSafely, Checked, A!Idle
<1>6. QED
  BY <1>1, <1>2, <1>3, <1>4, <1>5 DEF A!Deliveries

\* An e-mail that is sent was checked against the case, the recipient, the policy
\* and the switches as they were at its last check, and all of them allowed it,
\* whatever changed since the decision (email_automation.py, email_delivery.py).
THEOREM MailsSentSafely == Spec => []SentSafely
<1>1. Init => DeliveryInv
  <2> SUFFICES ASSUME Init, focus = "deliveries"
               PROVE  PoliciesTyped /\ MailInv /\ A!SentSafely
    BY DEF DeliveryInv
  <2>1. A!Init
    BY DEF Init, InitAutomation
  <2>2. QED
    BY <2>1 DEF A!Init, A!Idle, PoliciesTyped, Candidates, MailInv, A!SentSafely
<1>2. DeliveryInv /\ [Next]_vars => DeliveryInv'
  BY OneComponent, DeliveryStep DEF DeliveryInv
<1>3. DeliveryInv => SentSafely
  BY DEF DeliveryInv, SentSafely
<1>4. QED
  BY <1>1, <1>2, <1>3, PTL DEF Spec

-----------------------------------------------------------------------------
(* Automation: the recorded evaluations.                                   *)

\* The decision that the endpoint takes under the policy of a key.
Given(k) == IF policies[k[2]].mode = "shadow" THEN "SHADOW_BLOCKED" ELSE "BLOCKED"

\* Versions and policies stay within their bounds.
EvaluationsBounded ==
  /\ PoliciesTyped
  /\ case.version \in 1 .. MaxVersion /\ Len(policies) <= MaxPolicies

\* The rows, writes and locks are those of the sessions.
EvaluationsTyped ==
  /\ DOMAIN db = A!DecisionKeys
  /\ evaluation = [s \in Session |-> evaluation[s]]
  /\ work = [s \in Session |-> work[s]] /\ locks = [s \in Session |-> locks[s]]

\* What an evaluation has read, written and locked.
EvaluationHolds(s) ==
  LET e == evaluation[s] IN
  \/ e = A!Idle /\ DOMAIN work[s] = {} /\ locks[s] = {}
  \/ /\ e.at \in {"record", "commit"}
     /\ e = [at |-> e.at, key |-> e.key, disposition |-> e.disposition]
     /\ e.key \in A!DecisionKeys /\ e.key[2] <= Len(policies) /\ e.disposition = Given(e.key)
     /\ e.at = "record" => DOMAIN work[s] = {} /\ locks[s] = {}
     /\ e.at = "commit" =>
          /\ DOMAIN work[s] = {e.key} /\ locks[s] = {e.key}
          /\ work[s][e.key] = [disposition |-> e.disposition, audit |-> 1]

\* No two evaluations hold one key, and a recorded decision is the one its policy
\* gives.
KeysExclusive == \A s, t \in Session : s # t => locks[s] \cap locks[t] = {}
DecisionStands(k) ==
  \/ db[k] = [disposition |-> "none", audit |-> 0]
  \/ db[k] = [disposition |-> Given(k), audit |-> 1] /\ k[2] <= Len(policies)
EvaluationInv ==
  /\ EvaluationsBounded /\ EvaluationsTyped /\ KeysExclusive
  /\ \A s \in Session : EvaluationHolds(s)
  /\ \A k \in A!DecisionKeys : DecisionStands(k)

\* The endpoint never finds a case without a trouble, so it never decides to send.
LEMMA EndpointBlocks ==
  ASSUME PoliciesTyped, policies # <<>>
  PROVE  A!Evaluated = IF policies[Len(policies)].mode = "shadow" THEN "SHADOW_BLOCKED" ELSE "BLOCKED"
<1> DEFINE candidate == [case EXCEPT !.troubles = @ \union {"unverified_recipient"}]
           policy == A!Policy
           why == A!Exclusions(candidate, policy, FALSE)
<1>1. policy = policies[Len(policies)]
  BY DEF A!Policy, A!Last
<1>2. "unverified_recipient" \in candidate.troubles
  <2>1. case = [version |-> case.version, recipient |-> case.recipient,
                troubles |-> case.troubles]
    BY CandidateFields DEF PoliciesTyped
  <2>2. \A v, r, t : [[version |-> v, recipient |-> r, troubles |-> t]
                       EXCEPT !.troubles = @ \union {"unverified_recipient"}].troubles
                    = t \union {"unverified_recipient"}
    OBVIOUS
  <2>3. QED
    BY <2>1, <2>2
<1>3. A!Evaluated = A!Disposition(candidate, policy, FALSE)
  BY DEF A!Evaluated
<1> HIDE DEF candidate, policy
<1>4. "unverified_recipient" \in why
  BY <1>2 DEF A!Exclusions
<1>5. why # {} /\ why \ {"kill_switch_active"} # {}
  <2>1. "unverified_recipient" \in why \ {"kill_switch_active"}
    <3> HIDE DEF why
    <3> QED
      BY <1>4
  <2>2. QED
    BY <2>1
<1>6. QED
  BY <1>1, <1>3, <1>5 DEF A!Disposition

EvaluationsInv == focus = "evaluations" => EvaluationInv

\* One evaluation moves and the others keep their rows, writes and locks.
EvaluationAlone(s) ==
  /\ UNCHANGED <<policies, case, switch>>
  /\ \A t \in Session \ {s} :
       /\ evaluation'[t] = evaluation[t]
       /\ work'[t] = work[t] /\ locks'[t] = locks[t]

\* What others hold and what is decided does not depend on one evaluation's step
\* that leaves the committed rows alone.
LEMMA EvaluationFrame ==
  ASSUME EvaluationInv, NEW s \in Session, EvaluationAlone(s), UNCHANGED db,
         EvaluationsTyped', EvaluationHolds(s)',
         \A t \in Session \ {s} : locks'[s] \cap locks[t] = {}
  PROVE  EvaluationInv'
<1>1. EvaluationsBounded'
  BY DEF EvaluationInv, EvaluationsBounded, EvaluationAlone, PoliciesTyped
<1>2. KeysExclusive'
  BY DEF EvaluationInv, KeysExclusive, EvaluationAlone
<1>3. ASSUME NEW t \in Session PROVE EvaluationHolds(t)'
  <2>1. CASE t = s
    BY <2>1
  <2>2. CASE t # s
    BY <2>2 DEF EvaluationInv, EvaluationHolds, EvaluationAlone, Given
  <2>3. QED
    BY <2>1, <2>2
<1>4. \A k \in A!DecisionKeys : DecisionStands(k)'
  BY DEF EvaluationInv, DecisionStands, EvaluationAlone, Given
<1>5. QED
  BY <1>1, <1>2, <1>3, <1>4 DEF EvaluationInv

\* Updating one session of a function on the sessions.
LEMMA OneSession ==
  ASSUME NEW f, NEW g, NEW s \in Session, NEW v, f = [t \in Session |-> f[t]],
         g = [f EXCEPT ![s] = v]
  PROVE  /\ g = [t \in Session |-> g[t]] /\ g[s] = v
         /\ \A t \in Session \ {s} : g[t] = f[t]
OBVIOUS

\* Reading a case takes no lock and writes nothing.
LEMMA EvaluateKeeps ==
  ASSUME EvaluationInv, NEW s \in Session, A!Evaluate(s)
  PROVE  EvaluationInv'
<1> DEFINE key == <<case.version, Len(policies)>>
           e == [at |-> "record", key |-> key, disposition |-> A!Evaluated]
<1>1. /\ evaluation[s] = A!Idle /\ policies # <<>> /\ evaluation' = [evaluation EXCEPT ![s] = e]
      /\ UNCHANGED <<db, work, locks, policies, case, switch>>
  BY DEF A!Evaluate, A!store
<1>2. policies \in Seq(Policies) /\ Len(policies) \in 1 .. MaxPolicies
  BY <1>1, AutomationAssumption DEF EvaluationInv, EvaluationsBounded, PoliciesTyped
<1>3. key \in A!DecisionKeys /\ key[2] = Len(policies)
  BY <1>2 DEF EvaluationInv, EvaluationsBounded, A!DecisionKeys
<1>4. A!Evaluated = Given(key)
  BY <1>1, <1>3, EndpointBlocks DEF EvaluationInv, EvaluationsBounded, Given
<1>5. DOMAIN work[s] = {} /\ locks[s] = {}
  <2>1. EvaluationHolds(s) /\ evaluation[s].at = "idle"
    BY <1>1 DEF EvaluationInv, A!Idle
  <2>2. QED
    BY <2>1 DEF EvaluationHolds
<1> HIDE DEF key
<1>6. /\ evaluation' = [t \in Session |-> evaluation'[t]] /\ evaluation'[s] = e
      /\ \A t \in Session \ {s} : evaluation'[t] = evaluation[t]
  BY <1>1 DEF EvaluationInv, EvaluationsTyped
<1>7. EvaluationsTyped' /\ EvaluationAlone(s)
  BY <1>1, <1>6 DEF EvaluationInv, EvaluationsTyped, EvaluationAlone, A!DecisionKeys
<1>8. EvaluationHolds(s)'
  <2>1. Given(key)' = Given(key) /\ Len(policies)' = Len(policies)
    BY <1>1 DEF Given, key
  <2>2. /\ evaluation'[s].at = "record" /\ evaluation'[s].key = key
        /\ evaluation'[s].disposition = Given(key)
        /\ evaluation'[s] = [at |-> "record", key |-> key, disposition |-> Given(key)]
    BY <1>4, <1>6
  <2>3. key \in A!DecisionKeys /\ key[2] <= Len(policies)
    BY <1>2, <1>3
  <2>4. DOMAIN work'[s] = {} /\ locks'[s] = {}
    BY <1>1, <1>5
  <2>5. QED
    BY <1>1, <2>2, <2>3, <2>4 DEF EvaluationHolds, Given, A!DecisionKeys
<1>9. QED
  BY <1>1, <1>5, <1>7, <1>8, EvaluationFrame

\* A session that is done, or has failed, holds nothing.
LEMMA EvaluationEnds ==
  ASSUME EvaluationInv, NEW s \in Session, A!End(s), A!EndEvaluation(s)
  PROVE  /\ EvaluationAlone(s) /\ EvaluationHolds(s)' /\ locks'[s] = {}
         /\ evaluation' = [t \in Session |-> evaluation'[t]]
         /\ work' = [t \in Session |-> work'[t]] /\ locks' = [t \in Session |-> locks'[t]]
<1>1. /\ locks' = [locks EXCEPT ![s] = {}] /\ work' = [work EXCEPT ![s] = A!Nothing]
      /\ evaluation' = [evaluation EXCEPT ![s] = A!Idle] /\ UNCHANGED <<policies, case, switch>>
  BY DEF A!End, A!EndEvaluation
<1>2. /\ evaluation = [t \in Session |-> evaluation[t]]
      /\ work = [t \in Session |-> work[t]] /\ locks = [t \in Session |-> locks[t]]
  BY DEF EvaluationInv, EvaluationsTyped
<1>3. /\ evaluation' = [t \in Session |-> evaluation'[t]] /\ evaluation'[s] = A!Idle
      /\ \A t \in Session \ {s} : evaluation'[t] = evaluation[t]
  BY <1>1, <1>2
<1>4. /\ work' = [t \in Session |-> work'[t]] /\ work'[s] = A!Nothing
      /\ \A t \in Session \ {s} : work'[t] = work[t]
  BY <1>1, <1>2
<1>5. /\ locks' = [t \in Session |-> locks'[t]] /\ locks'[s] = {}
      /\ \A t \in Session \ {s} : locks'[t] = locks[t]
  BY <1>1, <1>2
<1>6. DOMAIN A!Nothing = {}
  BY DEF A!Nothing
<1>7. EvaluationHolds(s)'
  BY <1>3, <1>4, <1>5, <1>6 DEF EvaluationHolds, A!Idle
<1>8. QED
  BY <1>1, <1>3, <1>4, <1>5, <1>7 DEF EvaluationAlone

\* The record is written under the lock of its key, once.
LEMMA RecordKeeps ==
  ASSUME EvaluationInv, NEW s \in Session, A!Record(s)
  PROVE  EvaluationInv'
<1> DEFINE e == evaluation[s]
<1>0. PICK k : k = e.key
  OBVIOUS
<1>1. e.at = "record" /\ A!Free(s, k)
  BY <1>0 DEF A!Record
<1>2. /\ e = [at |-> "record", key |-> k, disposition |-> e.disposition]
      /\ k \in A!DecisionKeys /\ k[2] <= Len(policies) /\ e.disposition = Given(k)
      /\ DOMAIN work[s] = {} /\ locks[s] = {}
  <2>1. EvaluationHolds(s)
    BY DEF EvaluationInv
  <2>2. e # A!Idle
    BY <1>1 DEF A!Idle
  <2>3. QED
    BY <1>0, <1>1, <2>1, <2>2 DEF EvaluationHolds
<1>3. A!Seen(s, k) = db[k]
  BY <1>2 DEF A!Seen
<1>4. CASE A!Fresh(s)
  <2> DEFINE v == [disposition |-> e.disposition, audit |-> A!Seen(s, k).audit + 1]
             new == A!Write(k, v)
  <2>1. /\ A!Statement(s, {k}, new)
        /\ evaluation' = [evaluation EXCEPT ![s].at = "commit"]
        /\ UNCHANGED <<policies, case, switch>>
    BY <1>0, <1>4 DEF A!Record
  <2>2. db[k] = [disposition |-> "none", audit |-> 0]
    <3>1. db[k].disposition = "none"
      BY <1>0, <1>3, <1>4 DEF A!Fresh
    <3>2. DecisionStands(k)
      BY <1>2 DEF EvaluationInv
    <3>3. Given(k) # "none"
      BY DEF Given
    <3>4. QED
      BY <3>1, <3>2, <3>3 DEF DecisionStands
  <2>3. v = [disposition |-> Given(k), audit |-> 1]
    BY <1>2, <1>3, <2>2
  <2> HIDE DEF v
  <2>4. DOMAIN new = {k} /\ new[k] = v
    BY DEF A!Write
  <2> HIDE DEF new
  <2>5. /\ locks' = [locks EXCEPT ![s] = locks[s] \cup {k}]
        /\ work' = [work EXCEPT ![s] = A!Over(new, work[s])] /\ db' = db
    BY <2>1 DEF A!Statement
  <2>6. /\ locks' = [t \in Session |-> locks'[t]] /\ locks'[s] = {k}
        /\ \A t \in Session \ {s} : locks'[t] = locks[t]
    BY <1>2, <2>5 DEF EvaluationInv, EvaluationsTyped
  <2>7. /\ work' = [t \in Session |-> work'[t]] /\ work'[s] = A!Over(new, work[s])
        /\ \A t \in Session \ {s} : work'[t] = work[t]
    BY <2>5 DEF EvaluationInv, EvaluationsTyped
  <2>8. DOMAIN A!Over(new, work[s]) = {k} /\ A!Over(new, work[s])[k] = v
    BY <1>2, <2>4 DEF A!Over
  <2>9. /\ evaluation' = [t \in Session |-> evaluation'[t]]
        /\ evaluation'[s] = [e EXCEPT !.at = "commit"]
        /\ \A t \in Session \ {s} : evaluation'[t] = evaluation[t]
    BY <2>1 DEF EvaluationInv, EvaluationsTyped
  <2>10. evaluation'[s] = [at |-> "commit", key |-> k, disposition |-> Given(k)]
    <3>1. PICK old : old = e
      OBVIOUS
    <3>2. old = [at |-> "record", key |-> k, disposition |-> Given(k)]
      BY <1>2, <3>1
    <3>3. QED
      BY <2>9, <3>1, <3>2
  <2>11. EvaluationAlone(s) /\ EvaluationsTyped'
    BY <2>1, <2>5, <2>6, <2>7, <2>9 DEF EvaluationAlone, EvaluationInv, EvaluationsTyped, A!DecisionKeys
  <2>12. EvaluationHolds(s)'
    <3>1. /\ evaluation'[s].at = "commit" /\ evaluation'[s].key = k
          /\ evaluation'[s].disposition = Given(k)
      BY <2>10
    <3>2. work'[s][k] = [disposition |-> Given(k), audit |-> 1] /\ DOMAIN work'[s] = {k}
      BY <2>3, <2>7, <2>8
    <3>3. policies' = policies
      BY <2>1
    <3>4. QED
      BY <1>2, <2>6, <2>10, <3>1, <3>2, <3>3 DEF EvaluationHolds, Given, A!DecisionKeys
  <2>13. \A t \in Session \ {s} : locks'[s] \cap locks[t] = {}
    BY <1>1, <2>6 DEF A!Free
  <2>14. QED
    BY <2>5, <2>11, <2>12, <2>13, EvaluationFrame
<1>5. CASE ~ A!Fresh(s)
  <2>1. db' = db /\ A!End(s) /\ A!EndEvaluation(s)
    BY <1>5 DEF A!Record, A!Rollback
  <2>2. EvaluationsTyped'
    BY <2>1, EvaluationEnds DEF EvaluationInv, EvaluationsTyped, A!DecisionKeys
  <2>3. QED
    BY <2>1, <2>2, EvaluationEnds, EvaluationFrame
<1>6. QED
  BY <1>4, <1>5

\* The commit publishes the record: its key was undecided until then.
LEMMA CommitDecisionKeeps ==
  ASSUME EvaluationInv, NEW s \in Session, A!CommitDecision(s)
  PROVE  EvaluationInv'
<1> DEFINE e == evaluation[s]
<1>0. PICK k : k = e.key
  OBVIOUS
<1>1. e.at = "commit" /\ db' = A!Over(work[s], db) /\ A!End(s) /\ A!EndEvaluation(s)
  BY DEF A!CommitDecision, A!Commit
<1>2. /\ k \in A!DecisionKeys /\ k[2] <= Len(policies)
      /\ DOMAIN work[s] = {k} /\ locks[s] = {k}
      /\ work[s][k] = [disposition |-> Given(k), audit |-> 1]
  <2>1. EvaluationHolds(s)
    BY DEF EvaluationInv
  <2>2. e # A!Idle
    BY <1>1 DEF A!Idle
  <2>3. QED
    BY <1>0, <1>1, <2>1, <2>2 DEF EvaluationHolds
<1>3. /\ DOMAIN db' = A!DecisionKeys /\ db'[k] = [disposition |-> Given(k), audit |-> 1]
      /\ \A l \in A!DecisionKeys \ {k} : db'[l] = db[l]
  BY <1>1, <1>2 DEF A!Over, EvaluationInv, EvaluationsTyped
<1>4. EvaluationAlone(s) /\ EvaluationHolds(s)' /\ locks'[s] = {}
  BY <1>1, EvaluationEnds
<1>5. EvaluationsTyped'
  BY <1>1, <1>3, EvaluationEnds DEF EvaluationsTyped, A!DecisionKeys
<1>6. EvaluationsBounded'
  BY <1>4 DEF EvaluationInv, EvaluationsBounded, EvaluationAlone, PoliciesTyped
<1>7. KeysExclusive'
  BY <1>4 DEF EvaluationInv, KeysExclusive, EvaluationAlone
<1>8. ASSUME NEW t \in Session PROVE EvaluationHolds(t)'
  <2>1. CASE t = s
    BY <1>4, <2>1
  <2>2. CASE t # s
    <3>1. /\ evaluation'[t] = evaluation[t] /\ work'[t] = work[t] /\ locks'[t] = locks[t]
          /\ policies' = policies /\ EvaluationHolds(t)
      BY <1>4, <2>2 DEF EvaluationInv, EvaluationAlone
    <3>2. QED
      BY <3>1 DEF EvaluationHolds, Given
  <2>3. QED
    BY <2>1, <2>2
<1>9. ASSUME NEW l \in A!DecisionKeys PROVE DecisionStands(l)'
  <2>1. Given(l)' = Given(l) /\ policies' = policies
    BY <1>4 DEF EvaluationAlone, Given
  <2>2. CASE l = k
    BY <1>2, <1>3, <2>1, <2>2 DEF DecisionStands
  <2>3. CASE l # k
    <3>1. db'[l] = db[l] /\ DecisionStands(l)
      BY <1>3, <2>3 DEF EvaluationInv
    <3>2. QED
      BY <2>1, <3>1 DEF DecisionStands
  <2>4. QED
    BY <2>2, <2>3
<1>10. QED
  BY <1>5, <1>6, <1>7, <1>8, <1>9 DEF EvaluationInv, A!DecisionKeys

\* Policies are added behind those that decisions refer to.
LEMMA SurroundingsKeep ==
  ASSUME EvaluationInv, A!Surroundings
  PROVE  EvaluationInv'
<1>1. /\ PoliciesTyped' /\ UNCHANGED <<store, evaluation>> /\ Len(policies) <= Len(policies')
      /\ \A i \in 1 .. Len(policies) : policies'[i] = policies[i]
  BY SurroundingsSteps DEF EvaluationInv, EvaluationsBounded
<1>2. Len(policies) \in Nat /\ Len(policies') \in Nat
  BY <1>1 DEF EvaluationInv, EvaluationsBounded, PoliciesTyped
<1>3. case'.version \in 1 .. MaxVersion /\ Len(policies') <= MaxPolicies
  <2>1. /\ case \in Candidates /\ case.version \in 1 .. MaxVersion
        /\ policies \in Seq(Policies) /\ Len(policies) <= MaxPolicies
    BY DEF EvaluationInv, EvaluationsBounded, PoliciesTyped
  <2>2. CASE \E p \in Policies : A!SetPolicy(p)
    <3>1. PICK p \in Policies : policies' = Append(policies, p) /\ case' = case
                                /\ Len(policies) < MaxPolicies
      BY <2>2 DEF A!SetPolicy
    <3>2. QED
      BY <2>1, <3>1, AutomationAssumption
  <2>3. CASE A!Change
    <3>1. /\ policies' = policies
          /\ \/ case'.version = case.version
             \/ case'.version = case.version + 1 /\ case.version < MaxVersion
      <4>1. case = [version |-> case.version, recipient |-> case.recipient,
                    troubles |-> case.troubles]
        BY <2>1, CandidateFields
      <4>2. QED
        BY <2>3, <4>1 DEF A!Change
    <3>2. case.version \in 1 .. MaxVersion
      BY <2>1
    <3>3. QED
      BY <2>1, <3>1, <3>2, AutomationAssumption
  <2>4. CASE A!FlipSwitch
    BY <2>1, <2>4 DEF A!FlipSwitch
  <2>5. QED
    BY <2>2, <2>3, <2>4 DEF A!Surroundings
<1>4. EvaluationsBounded' /\ EvaluationsTyped' /\ KeysExclusive'
  BY <1>1, <1>3 DEF store, EvaluationInv, EvaluationsBounded, EvaluationsTyped, KeysExclusive, A!DecisionKeys
<1>5. \A k \in A!DecisionKeys : k[2] <= Len(policies) => Given(k)' = Given(k) /\ k[2] <= Len(policies')
  <2> SUFFICES ASSUME NEW k \in A!DecisionKeys, k[2] <= Len(policies)
               PROVE  Given(k)' = Given(k) /\ k[2] <= Len(policies')
    OBVIOUS
  <2>1. k[2] \in 1 .. MaxPolicies
    BY DEF A!DecisionKeys
  <2>2. k[2] \in 1 .. Len(policies)
    BY <1>2, <2>1, AutomationAssumption
  <2>3. QED
    BY <1>1, <1>2, <2>2 DEF Given
<1>6. ASSUME NEW s \in Session PROVE EvaluationHolds(s)'
  <2>1. /\ evaluation'[s] = evaluation[s] /\ work'[s] = work[s] /\ locks'[s] = locks[s]
        /\ EvaluationHolds(s)
    BY <1>1 DEF store, EvaluationInv
  <2>2. QED
    BY <1>5, <2>1 DEF EvaluationHolds, A!DecisionKeys
<1>7. ASSUME NEW k \in A!DecisionKeys PROVE DecisionStands(k)'
  BY <1>1, <1>5 DEF store, EvaluationInv, DecisionStands
<1>8. QED
  BY <1>4, <1>6, <1>7 DEF EvaluationInv, A!DecisionKeys

\* A step of the endpoint keeps what evaluations hold and have recorded.
LEMMA EvaluationStep ==
  ASSUME EvaluationInv, [A!Evaluations]_(A!vars)
  PROVE  EvaluationInv'
<1>1. CASE UNCHANGED A!vars
  BY <1>1 DEF A!vars, EvaluationInv, EvaluationsBounded, PoliciesTyped, EvaluationsTyped, KeysExclusive,
     EvaluationHolds, DecisionStands, Given, A!DecisionKeys
<1>2. CASE A!Surroundings
  BY <1>2, SurroundingsKeep
<1>3. ASSUME NEW s \in Session, A!CrashEvaluation(s) PROVE EvaluationInv'
  <2>1. db' = db /\ A!End(s) /\ A!EndEvaluation(s)
    BY <1>3 DEF A!CrashEvaluation, A!Rollback
  <2>2. EvaluationsTyped'
    BY <2>1, EvaluationEnds DEF EvaluationInv, EvaluationsTyped, A!DecisionKeys
  <2>3. QED
    BY <2>1, <2>2, EvaluationEnds, EvaluationFrame
<1>4. QED
  BY <1>1, <1>2, <1>3, EvaluateKeeps, RecordKeeps, CommitDecisionKeeps DEF A!Evaluations

\* A case is decided once per version and policy, with one audit entry and as that
\* policy says, although the endpoint looks for an earlier decision before it
\* inserts its own (v2_features.py evaluate_case_automation).
THEOREM DecisionsOnce == Spec => []DecisionsRecordedOnce
<1>1. Init => EvaluationsInv
  <2> SUFFICES ASSUME Init, focus = "evaluations" PROVE EvaluationInv
    BY DEF EvaluationsInv
  <2>1. A!Init
    BY DEF Init, InitAutomation
  <2>2. EvaluationsBounded
    BY <2>1, AutomationAssumption DEF A!Init, EvaluationsBounded, PoliciesTyped, Candidates
  <2>3. DOMAIN A!Nothing = {}
    BY DEF A!Nothing
  <2>4. EvaluationsTyped /\ KeysExclusive /\ \A s \in Session : EvaluationHolds(s)
    BY <2>1, <2>3 DEF A!Init, EvaluationsTyped, KeysExclusive, EvaluationHolds
  <2>5. \A k \in A!DecisionKeys : DecisionStands(k)
    BY <2>1 DEF A!Init, DecisionStands
  <2>6. QED
    BY <2>2, <2>4, <2>5 DEF EvaluationInv
<1>2. EvaluationsInv /\ [Next]_vars => EvaluationsInv'
  BY OneComponent, EvaluationStep DEF EvaluationsInv
<1>3. EvaluationsInv => DecisionsRecordedOnce
  <2> SUFFICES ASSUME EvaluationInv, NEW k \in A!DecisionKeys
               PROVE  /\ db[k].audit = (IF db[k].disposition = "none" THEN 0 ELSE 1)
                      /\ db[k].disposition # "none" => db[k].disposition = Given(k)
    BY DEF EvaluationsInv, DecisionsRecordedOnce, A!DecisionsRecordedOnce, Given
  <2>1. DecisionStands(k) /\ Given(k) # "none"
    BY DEF EvaluationInv, Given
  <2>2. QED
    BY <2>1 DEF DecisionStands
<1>4. QED
  BY <1>1, <1>2, <1>3, PTL DEF Spec

-----------------------------------------------------------------------------
(* PaymentRules: the publication.                                          *)

\* The rows, writes, locks and requests are those of the rules and sessions.
RulesTyped ==
  /\ DOMAIN db = RuleIds
  /\ publishing = [s \in Session |-> publishing[s]]
  /\ work = [s \in Session |-> work[s]] /\ locks = [s \in Session |-> locks[s]]

\* A rule is absent, a draft, or published by somebody else than its creator.
RuleRow(row) ==
  \/ row = R!Absent
  \/ /\ row = [status |-> row.status, customer |-> row.customer, rule |-> row.rule,
               creator |-> row.creator, publisher |-> row.publisher]
     /\ \/ row.status = "DRAFT"
        \/ row.status = "PUBLISHED" /\ row.creator \notin row.publisher

\* A publication that will commit holds a rule that is a draft for everybody else.
PublicationHolds(s) ==
  LET p == publishing[s] IN
  \/ p = R!Idle /\ DOMAIN work[s] = {} /\ locks[s] = {}
  \/ /\ p = [at |-> p.at, rule |-> p.rule, user |-> p.user] /\ p.rule \in RuleIds
     /\ \/ p.at = "lock" /\ DOMAIN work[s] = {} /\ locks[s] = {}
        \/ /\ p.at = "commit" /\ DOMAIN work[s] = {p.rule} /\ locks[s] = {p.rule}
           /\ db[p.rule].status = "DRAFT"
           /\ RuleRow(work[s][p.rule]) /\ work[s][p.rule].status = "PUBLISHED"

RuleInv ==
  /\ RulesTyped /\ KeysExclusive
  /\ \A r \in RuleIds : RuleRow(db[r])
  /\ \A s \in Session : PublicationHolds(s)

RulesInv == focus = "rules" => RuleInv

\* One publication moves and the others keep their requests, writes and locks.
PublicationAlone(s) ==
  \A t \in Session \ {s} :
    /\ publishing'[t] = publishing[t]
    /\ work'[t] = work[t] /\ locks'[t] = locks[t]

\* A step of one publication that leaves the committed rows alone.
LEMMA PublicationFrame ==
  ASSUME RuleInv, NEW s \in Session, PublicationAlone(s), UNCHANGED db,
         RulesTyped', PublicationHolds(s)',
         \A t \in Session \ {s} : locks'[s] \cap locks[t] = {}
  PROVE  RuleInv'
<1>1. KeysExclusive'
  BY DEF RuleInv, KeysExclusive, PublicationAlone
<1>2. ASSUME NEW t \in Session PROVE PublicationHolds(t)'
  <2>1. CASE t = s
    BY <2>1
  <2>2. CASE t # s
    <3>1. /\ publishing'[t] = publishing[t] /\ work'[t] = work[t] /\ locks'[t] = locks[t]
          /\ PublicationHolds(t)
      BY <2>2 DEF RuleInv, PublicationAlone
    <3>2. QED
      BY <3>1 DEF PublicationHolds, RuleRow
  <2>3. QED
    BY <2>1, <2>2
<1>3. \A r \in RuleIds : RuleRow(db[r])'
  BY DEF RuleInv, RuleRow
<1>4. QED
  BY <1>1, <1>2, <1>3 DEF RuleInv

\* A publication that ends holds nothing.
LEMMA PublicationEnds ==
  ASSUME RuleInv, NEW s \in Session, R!End(s), R!Ended(s)
  PROVE  /\ PublicationAlone(s) /\ PublicationHolds(s)' /\ locks'[s] = {}
         /\ publishing' = [t \in Session |-> publishing'[t]]
         /\ work' = [t \in Session |-> work'[t]] /\ locks' = [t \in Session |-> locks'[t]]
<1>1. /\ locks' = [locks EXCEPT ![s] = {}] /\ work' = [work EXCEPT ![s] = R!Nothing]
      /\ publishing' = [publishing EXCEPT ![s] = R!Idle]
  BY DEF R!End, R!Ended
<1>2. /\ publishing = [t \in Session |-> publishing[t]]
      /\ work = [t \in Session |-> work[t]] /\ locks = [t \in Session |-> locks[t]]
  BY DEF RuleInv, RulesTyped
<1>3. /\ publishing' = [t \in Session |-> publishing'[t]] /\ publishing'[s] = R!Idle
      /\ \A t \in Session \ {s} : publishing'[t] = publishing[t]
  BY <1>1, <1>2
<1>4. /\ work' = [t \in Session |-> work'[t]] /\ work'[s] = R!Nothing
      /\ \A t \in Session \ {s} : work'[t] = work[t]
  BY <1>1, <1>2
<1>5. /\ locks' = [t \in Session |-> locks'[t]] /\ locks'[s] = {}
      /\ \A t \in Session \ {s} : locks'[t] = locks[t]
  BY <1>1, <1>2
<1>6. DOMAIN R!Nothing = {}
  BY DEF R!Nothing
<1>7. PublicationHolds(s)'
  BY <1>3, <1>4, <1>5, <1>6 DEF PublicationHolds, R!Idle
<1>8. QED
  BY <1>3, <1>4, <1>5, <1>7 DEF PublicationAlone

\* A publication that fails or crashes leaves the rules alone.
LEMMA PublicationFails ==
  ASSUME RuleInv, NEW s \in Session, R!Rollback(s), R!Ended(s)
  PROVE  RuleInv' /\ UNCHANGED db
<1>1. db' = db /\ R!End(s)
  BY DEF R!Rollback
<1>2. RulesTyped'
  BY <1>1, PublicationEnds DEF RuleInv, RulesTyped
<1>3. QED
  BY <1>1, <1>2, PublicationEnds, PublicationFrame

\* A new rule is a draft in a row that was free.
LEMMA CreateKeeps ==
  ASSUME RuleInv, NEW r \in RuleIds, NEW c, NEW d, NEW u, R!Create(r, c, d, u)
  PROVE  RuleInv' /\ \A q \in RuleIds : db'[q] = db[q] \/ db'[q].status = "DRAFT"
<1> DEFINE row == [status |-> "DRAFT", customer |-> c, rule |-> d, creator |-> u, publisher |-> {}]
<1>1. /\ db[r] = R!Absent /\ db' = [db EXCEPT ![r] = row] /\ UNCHANGED <<work, locks, publishing>>
  BY DEF R!Create
<1>2. /\ DOMAIN db' = RuleIds /\ db'[r] = row
      /\ \A q \in RuleIds \ {r} : db'[q] = db[q]
  BY <1>1 DEF RuleInv, RulesTyped
<1>3. row.status = "DRAFT" /\ RuleRow(row)
  BY DEF RuleRow
<1> HIDE DEF row
<1>4. RulesTyped' /\ KeysExclusive'
  BY <1>1, <1>2 DEF RuleInv, RulesTyped, KeysExclusive
<1>5. \A q \in RuleIds : RuleRow(db'[q])
  BY <1>2, <1>3 DEF RuleInv
<1>6. ASSUME NEW s \in Session PROVE PublicationHolds(s)'
  <2>1. PublicationHolds(s) /\ publishing'[s] = publishing[s] /\ work'[s] = work[s] /\ locks'[s] = locks[s]
    BY <1>1 DEF RuleInv
  <2>2. \A q \in RuleIds : db[q].status = "DRAFT" => db'[q] = db[q]
    BY <1>1, <1>2 DEF R!Absent
  <2>3. QED
    BY <2>1, <2>2 DEF PublicationHolds, RuleRow
<1>7. QED
  BY <1>2, <1>3, <1>4, <1>5, <1>6 DEF RuleInv, RuleRow

\* The draft is locked before it is looked at, and written by somebody else than
\* its creator.
LEMMA LockRuleKeeps ==
  ASSUME RuleInv, NEW s \in Session, R!LockRule(s)
  PROVE  RuleInv' /\ UNCHANGED db
<1> DEFINE p == publishing[s]
<1>0. PICK k : k = p.rule
  OBVIOUS
<1>1. p.at = "lock" /\ R!Free(s, k)
  BY <1>0 DEF R!LockRule, R!Lockable
<1>2. /\ p = [at |-> "lock", rule |-> k, user |-> p.user] /\ k \in RuleIds
      /\ DOMAIN work[s] = {} /\ locks[s] = {}
  <2>1. PublicationHolds(s)
    BY DEF RuleInv
  <2>2. p # R!Idle
    BY <1>1 DEF R!Idle
  <2>3. QED
    BY <1>0, <1>1, <2>1, <2>2 DEF PublicationHolds
<1>3. PICK row : row = db[k]
  OBVIOUS
<1>4. R!Seen(s, k) = row
  BY <1>2, <1>3 DEF R!Seen
<1>5. CASE R!Publishable(row, p.user)
  <2> DEFINE v == [row EXCEPT !.status = "PUBLISHED", !.publisher = {p.user}]
             new == R!Write(k, v)
  <2>1. R!Statement(s, {k}, new) /\ publishing' = [publishing EXCEPT ![s].at = "commit"]
    BY <1>0, <1>4, <1>5 DEF R!LockRule
  <2>2. /\ row = [status |-> "DRAFT", customer |-> row.customer, rule |-> row.rule,
                  creator |-> row.creator, publisher |-> row.publisher]
        /\ row.creator # p.user /\ row.status = "DRAFT"
    <3>1. RuleRow(row)
      BY <1>2, <1>3 DEF RuleInv
    <3>2. row # R!Absent /\ row.creator # p.user /\ row.status = "DRAFT"
      BY <1>5 DEF R!Publishable
    <3>3. QED
      BY <3>1, <3>2 DEF RuleRow
  <2>3. v = [status |-> "PUBLISHED", customer |-> row.customer, rule |-> row.rule,
             creator |-> row.creator, publisher |-> {p.user}]
    <3>1. PICK c, d, u, w : c = row.customer /\ d = row.rule /\ u = row.creator /\ w = row.publisher
      OBVIOUS
    <3>2. row = [status |-> "DRAFT", customer |-> c, rule |-> d, creator |-> u, publisher |-> w]
      BY <2>2, <3>1
    <3> DEFINE published == [row EXCEPT !.status = "PUBLISHED"]
    <3>3. published = [status |-> "PUBLISHED", customer |-> c, rule |-> d, creator |-> u,
                       publisher |-> w]
      BY <3>2
    <3>4. v = [published EXCEPT !.publisher = {p.user}]
      OBVIOUS
    <3> HIDE DEF published, v
    <3>5. ASSUME NEW x
          PROVE  [published EXCEPT !.publisher = x]
                   = [status |-> "PUBLISHED", customer |-> c, rule |-> d, creator |-> u,
                      publisher |-> x]
      BY <3>3
    <3>6. QED
      BY <3>1, <3>4, <3>5
  <2> HIDE DEF v
  <2>4. v.status = "PUBLISHED" /\ RuleRow(v)
    BY <2>2, <2>3 DEF RuleRow
  <2>5. DOMAIN new = {k} /\ new[k] = v
    BY DEF R!Write
  <2> HIDE DEF new
  <2>6. /\ locks' = [locks EXCEPT ![s] = locks[s] \cup {k}]
        /\ work' = [work EXCEPT ![s] = R!Over(new, work[s])] /\ db' = db
    BY <2>1 DEF R!Statement
  <2>7. /\ locks' = [t \in Session |-> locks'[t]] /\ locks'[s] = {k}
        /\ \A t \in Session \ {s} : locks'[t] = locks[t]
    BY <1>2, <2>6 DEF RuleInv, RulesTyped
  <2>8. /\ work' = [t \in Session |-> work'[t]] /\ work'[s] = R!Over(new, work[s])
        /\ \A t \in Session \ {s} : work'[t] = work[t]
    BY <2>6 DEF RuleInv, RulesTyped
  <2>9. DOMAIN R!Over(new, work[s]) = {k} /\ R!Over(new, work[s])[k] = v
    BY <1>2, <2>5 DEF R!Over
  <2>10. /\ publishing' = [t \in Session |-> publishing'[t]]
         /\ publishing'[s] = [p EXCEPT !.at = "commit"]
         /\ \A t \in Session \ {s} : publishing'[t] = publishing[t]
    BY <2>1 DEF RuleInv, RulesTyped
  <2>11. publishing'[s] = [at |-> "commit", rule |-> k, user |-> p.user]
    <3>1. PICK old, u : old = p /\ u = p.user
      OBVIOUS
    <3>2. old = [at |-> "lock", rule |-> k, user |-> u]
      BY <1>2, <3>1
    <3>3. QED
      BY <2>10, <3>1, <3>2
  <2>12. PublicationAlone(s) /\ RulesTyped'
    BY <2>6, <2>7, <2>8, <2>10 DEF PublicationAlone, RuleInv, RulesTyped
  <2>13. PublicationHolds(s)'
    <3>1. /\ publishing'[s].at = "commit" /\ publishing'[s].rule = k
          /\ publishing'[s].user = p.user
      BY <2>11
    <3>2. work'[s][k] = v /\ DOMAIN work'[s] = {k} /\ db'[k].status = "DRAFT"
      BY <1>3, <2>2, <2>6, <2>8, <2>9
    <3>3. QED
      BY <1>2, <2>4, <2>7, <2>11, <3>1, <3>2 DEF PublicationHolds, RuleRow
  <2>14. \A t \in Session \ {s} : locks'[s] \cap locks[t] = {}
    BY <1>1, <2>7 DEF R!Free
  <2>15. QED
    BY <2>6, <2>12, <2>13, <2>14, PublicationFrame
<1>6. CASE ~ R!Publishable(row, p.user)
  <2>1. R!Rollback(s) /\ R!Ended(s)
    BY <1>0, <1>4, <1>6 DEF R!LockRule
  <2>2. QED
    BY <2>1, PublicationFails
<1>7. QED
  BY <1>5, <1>6

\* A commit changes one rule, which nobody has published meanwhile.
LEMMA CommitPublicationKeeps ==
  ASSUME RuleInv, NEW s \in Session, R!CommitPublication(s)
  PROVE  RuleInv' /\ \A q \in RuleIds : db'[q] = db[q] \/ db[q].status = "DRAFT"
<1> DEFINE p == publishing[s]
<1>0. PICK k : k = p.rule
  OBVIOUS
<1>1. p.at = "commit" /\ db' = R!Over(work[s], db) /\ R!End(s) /\ R!Ended(s)
  BY DEF R!CommitPublication, R!Commit
<1>2. /\ k \in RuleIds /\ DOMAIN work[s] = {k} /\ locks[s] = {k} /\ db[k].status = "DRAFT"
      /\ RuleRow(work[s][k])
  <2>1. PublicationHolds(s)
    BY DEF RuleInv
  <2>2. p # R!Idle
    BY <1>1 DEF R!Idle
  <2>3. QED
    BY <1>0, <1>1, <2>1, <2>2 DEF PublicationHolds
<1>3. /\ DOMAIN db' = RuleIds /\ db'[k] = work[s][k]
      /\ \A q \in RuleIds \ {k} : db'[q] = db[q]
  BY <1>1, <1>2 DEF R!Over, RuleInv, RulesTyped
<1>4. PublicationAlone(s) /\ PublicationHolds(s)' /\ locks'[s] = {}
  BY <1>1, PublicationEnds
<1>5. RulesTyped'
  BY <1>1, <1>3, PublicationEnds DEF RulesTyped
<1>6. KeysExclusive'
  BY <1>4 DEF RuleInv, KeysExclusive, PublicationAlone
<1>7. \A q \in RuleIds : RuleRow(db'[q])
  BY <1>2, <1>3 DEF RuleInv
<1>8. ASSUME NEW t \in Session PROVE PublicationHolds(t)'
  <2>1. CASE t = s
    BY <1>4, <2>1
  <2>2. CASE t # s
    <3>1. /\ publishing'[t] = publishing[t] /\ work'[t] = work[t] /\ locks'[t] = locks[t]
          /\ PublicationHolds(t) /\ k \notin locks[t]
      BY <1>2, <1>4, <2>2 DEF RuleInv, PublicationAlone, KeysExclusive
    <3>2. \A q \in locks[t] \cap RuleIds : db'[q] = db[q]
      BY <1>3, <3>1
    <3>3. QED
      BY <3>1, <3>2 DEF PublicationHolds, RuleRow
  <2>3. QED
    BY <2>1, <2>2
<1>9. QED
  BY <1>2, <1>3, <1>5, <1>6, <1>7, <1>8 DEF RuleInv, RuleRow

\* Only drafts change, and only into drafts or publications by another person.
LEMMA RuleStep ==
  ASSUME RuleInv, [R!Next]_(R!vars)
  PROVE  RuleInv' /\ \A q \in RuleIds : db'[q] = db[q] \/ db[q].status = "DRAFT"
                                       \/ db'[q].status = "DRAFT"
<1>1. CASE UNCHANGED R!vars
  BY <1>1 DEF R!vars, RuleInv, RulesTyped, KeysExclusive, RuleRow, PublicationHolds
<1>2. ASSUME NEW r \in RuleIds, NEW c, NEW d, NEW u, R!Create(r, c, d, u)
      PROVE  RuleInv' /\ \A q \in RuleIds : db'[q] = db[q] \/ db'[q].status = "DRAFT"
  BY <1>2, CreateKeeps
<1>3. ASSUME NEW s \in Session, NEW r \in RuleIds, NEW u, R!Begin(s, r, u)
      PROVE  RuleInv' /\ UNCHANGED db
  <2> DEFINE new == [at |-> "lock", rule |-> r, user |-> u]
  <2>1. /\ publishing[s] = R!Idle /\ publishing' = [publishing EXCEPT ![s] = new]
        /\ UNCHANGED <<db, work, locks>>
    BY <1>3 DEF R!Begin, R!store
  <2>2. DOMAIN work[s] = {} /\ locks[s] = {}
    <3>1. PublicationHolds(s) /\ publishing[s].at = "idle"
      BY <2>1 DEF RuleInv, R!Idle
    <3>2. QED
      BY <3>1 DEF PublicationHolds
  <2>3. /\ publishing' = [t \in Session |-> publishing'[t]] /\ publishing'[s] = new
        /\ \A t \in Session \ {s} : publishing'[t] = publishing[t]
    BY <2>1 DEF RuleInv, RulesTyped
  <2>4. RulesTyped' /\ PublicationAlone(s)
    BY <2>1, <2>3 DEF RuleInv, RulesTyped, PublicationAlone
  <2>5. PublicationHolds(s)'
    BY <2>1, <2>2, <2>3 DEF PublicationHolds
  <2>6. QED
    BY <2>1, <2>2, <2>4, <2>5, PublicationFrame
<1>4. ASSUME NEW s \in Session, R!Crash(s) PROVE RuleInv' /\ UNCHANGED db
  BY <1>4, PublicationFails DEF R!Crash
<1>5. QED
  BY <1>1, <1>2, <1>3, <1>4, LockRuleKeeps, CommitPublicationKeeps DEF R!Next

\* A rule is published once, by somebody else than its creator, and for good,
\* whoever publishes it at the same moment (v1_features.py publish_payment_rule).
THEOREM RulesPublishedForGood == Spec => PublishedForGood
<1> DEFINE Good == focus = "rules" => R!PublishedForGood
<1>1. Init => RulesInv
  <2> SUFFICES ASSUME Init, focus = "rules" PROVE RuleInv
    BY DEF RulesInv
  <2>1. R!Init
    BY DEF Init, InitRules
  <2>2. DOMAIN R!Nothing = {}
    BY DEF R!Nothing
  <2>3. QED
    BY <2>1, <2>2 DEF R!Init, RuleInv, RulesTyped, KeysExclusive, RuleRow, PublicationHolds
<1>2. RulesInv /\ [Next]_vars => RulesInv'
  BY OneComponent, RuleStep DEF RulesInv
<1>3. RulesInv /\ RulesInv' /\ [Next]_vars => [Good]_vars
  <2> SUFFICES ASSUME RuleInv, RuleInv', [Next]_vars, focus = "rules", NEW r \in RuleIds,
                      db'[r].status = "PUBLISHED"
               PROVE  /\ db'[r].creator \notin db'[r].publisher
                      /\ db[r].status = "PUBLISHED" => db'[r] = db[r]
    BY OneComponent DEF RulesInv, R!PublishedForGood
  <2>1. db'[r] = db[r] \/ db[r].status = "DRAFT"
    BY OneComponent, RuleStep
  <2>2. RuleRow(db'[r])
    BY DEF RuleInv, RuleRow
  <2>3. QED
    BY <2>1, <2>2 DEF RuleRow, R!Absent
<1>4. QED
  BY <1>1, <1>2, <1>3, PTL DEF Spec, PublishedForGood

-----------------------------------------------------------------------------
(* PaymentRules: simulations.                                              *)

\* Rules that are ambiguous on some day have periods that meet, and the other way round.
LEMMA ConflictsShow ==
  ASSUME NEW rules \in SUBSET Definitions
  PROVE  R!Conflicts(rules) # {} <=> \E day \in Days : R!Ambiguous(R!ActiveOn(rules, day))
<1>1. ASSUME R!Conflicts(rules) # {}
      PROVE  \E day \in Days : R!Ambiguous(R!ActiveOn(rules, day))
  <2>1. PICK a \in rules, b \in rules : R!Conflicting(a, b)
    BY <1>1 DEF R!Conflicts
  <2>2. /\ <<a.type, a.scope, a.priority>> = <<b.type, b.scope, b.priority>>
        /\ b.from <= a.to /\ a.from <= b.to /\ a.value # b.value
    BY <2>1 DEF R!Conflicting, R!Together, R!Overlap
  <2>3. PICK day \in {a.from, b.from} : a.from <= day /\ b.from <= day
    <3>1. a.from \in Nat /\ b.from \in Nat
      BY RulesAssumption
    <3>2. a.from <= b.from \/ b.from <= a.from
      BY <3>1
    <3>3. QED
      BY <3>1, <3>2
  <2>4. day \in Days /\ day <= a.to /\ day <= b.to
    BY <2>2, <2>3, RulesAssumption
  <2>5. a \in R!ActiveOn(rules, day) /\ b \in R!ActiveOn(rules, day)
    BY <2>3, <2>4 DEF R!ActiveOn
  <2>6. QED
    BY <2>2, <2>4, <2>5 DEF R!Ambiguous
<1>2. ASSUME NEW day \in Days, R!Ambiguous(R!ActiveOn(rules, day))
      PROVE  R!Conflicts(rules) # {}
  <2>1. PICK d \in R!ActiveOn(rules, day), e \in R!ActiveOn(rules, day) :
          /\ <<d.type, d.scope, d.priority>> = <<e.type, e.scope, e.priority>>
          /\ d.value # e.value
    BY <1>2 DEF R!Ambiguous
  <2>2. /\ d \in rules /\ e \in rules /\ d.from <= day /\ day <= d.to /\ e.from <= day /\ day <= e.to
    BY DEF R!ActiveOn
  <2>3. e.from <= d.to /\ d.from <= e.to
    <3>1. /\ day \in Nat /\ d.from \in Nat /\ e.from \in Nat /\ d.to \in Nat /\ e.to \in Nat
      BY <2>2, RulesAssumption
    <3>2. QED
      BY <2>2, <3>1
  <2>4. <<d, e>> \in R!Conflicts(rules)
    BY <2>1, <2>2, <2>3 DEF R!Conflicts, R!Conflicting, R!Together, R!Overlap
  <2>5. QED
    BY <2>4
<1>3. QED
  BY <1>1, <1>2

\* Of finitely many rules one has the highest version.
LEMMA NewestVersion ==
  ASSUME NEW some \in SUBSET Definitions, some # {}
  PROVE  \E e \in some : \A x \in some : x.version <= e.version
<1> DEFINE Newest(set) == \E e \in set : \A x \in set : x.version <= e.version
           sizes == {n \in Nat : \E set \in SUBSET Definitions :
                                    set # {} /\ Cardinality(set) = n /\ ~ Newest(set)}
<1>1. \A set \in SUBSET Definitions : IsFiniteSet(set) /\ Cardinality(set) \in Nat
  BY RulesAssumption, FS_Subset, FS_CardinalityType
<1>2. sizes = {}
  <2> SUFFICES ASSUME sizes # {} PROVE FALSE
    OBVIOUS
  <2>1. PICK n \in sizes : \A m \in sizes : n <= m
    <3>1. sizes \in SUBSET Nat
      OBVIOUS
    <3> HIDE DEF sizes
    <3>2. QED
      BY <3>1, LeastNat
  <2>2. PICK set \in SUBSET Definitions : set # {} /\ Cardinality(set) = n /\ ~ Newest(set)
    OBVIOUS
  <2>3. PICK d \in set : TRUE
    BY <2>2
  <2>4. Cardinality(set \ {d}) = n - 1 /\ n \in Nat /\ Cardinality(set \ {d}) \in Nat
    BY <1>1, <2>2, FS_RemoveElement
  <2>5. CASE set \ {d} = {}
    <3>1. \A x \in set : x = d /\ x.version <= d.version
      BY <2>3, <2>5, RulesAssumption
    <3>2. QED
      BY <2>2, <2>3, <3>1
  <2>6. CASE set \ {d} # {}
    <3>1. Newest(set \ {d})
      <4>1. n - 1 \in Nat /\ n - 1 \notin sizes
        BY <2>1, <2>4
      <4>2. QED
        BY <2>4, <2>6, <4>1
    <3>2. PICK e \in set \ {d} : \A x \in set \ {d} : x.version <= e.version
      BY <3>1
    <3>3. Newest(set)
      <4>1. d.version \in Nat /\ e.version \in Nat /\ \A x \in set : x.version \in Nat
        BY <2>3, RulesAssumption
      <4>2. CASE d.version <= e.version
        BY <2>3, <3>2, <4>1, <4>2
      <4>3. CASE e.version <= d.version
        BY <2>3, <3>2, <4>1, <4>3
      <4>4. QED
        BY <4>1, <4>2, <4>3
    <3>4. QED
      BY <2>2, <3>3
  <2>7. QED
    BY <2>5, <2>6
<1>3. PICK n : n = Cardinality(some)
  OBVIOUS
<1>4. Newest(some)
  BY <1>1, <1>2, <1>3
<1>5. QED
  BY <1>4

\* Every rule in force yields to a winner of its type and of at least its scope.
LEMMA WinnerExists ==
  ASSUME NEW active \in SUBSET Definitions, NEW d \in active
  PROVE  \E e \in R!Winners(active) :
            e.type = d.type /\ R!Precedence[e.scope] >= R!Precedence[d.scope]
<1> DEFINE Rank(x) == R!Precedence[x.scope]
           same == {x \in active : x.type = d.type}
<1>1. \A x \in Definitions : Rank(x) \in 0..2
  BY RulesAssumption DEF R!Precedence
<1>2. PICK a \in same : \A x \in same : Rank(x) <= Rank(a)
  <2>1. \A x \in same : Rank(x) \in {0, 1, 2}
    BY <1>1
  <2>2. d \in same
    OBVIOUS
  <2> HIDE DEF Rank, same
  <2>3. CASE \E x \in same : Rank(x) = 2
    BY <2>1, <2>3
  <2>4. CASE (\E x \in same : Rank(x) = 1) /\ ~ \E x \in same : Rank(x) = 2
    BY <2>1, <2>4
  <2>5. CASE ~ (\E x \in same : Rank(x) = 1) /\ ~ \E x \in same : Rank(x) = 2
    BY <2>1, <2>2, <2>5
  <2>6. QED
    BY <2>3, <2>4, <2>5
<1>3. PICK b \in same : b.scope = a.scope /\ \A x \in same : x.scope = a.scope => b.priority <= x.priority
  <2> DEFINE priorities == {x.priority : x \in {y \in same : y.scope = a.scope}}
  <2>1. a \in same /\ priorities \in SUBSET Nat
    BY RulesAssumption
  <2>2. a.priority \in priorities
    BY <2>1
  <2> HIDE DEF priorities, same
  <2>3. PICK p \in priorities : \A q \in priorities : p <= q
    BY <2>1, <2>2, LeastNat
  <2>4. QED
    BY <2>3 DEF priorities
<1>4. PICK e \in same : /\ e.scope = b.scope /\ e.priority = b.priority
                        /\ \A x \in same : x.scope = b.scope /\ x.priority = b.priority => x.version <= e.version
  <2> DEFINE some == {x \in same : x.scope = b.scope /\ x.priority = b.priority}
  <2>1. some \in SUBSET Definitions /\ b \in some
    OBVIOUS
  <2> HIDE DEF some, same
  <2>2. PICK e \in some : \A x \in some : x.version <= e.version
    BY <2>1, NewestVersion
  <2>3. QED
    BY <2>2 DEF some
<1>5. \A x \in same : ~ R!Outranks(x, e)
  <2> SUFFICES ASSUME NEW x \in same, R!Outranks(x, e) PROVE FALSE
    OBVIOUS
  <2>1. Rank(x) <= Rank(e)
    BY <1>2, <1>3, <1>4
  <2>2. Rank(x) \in 0..2 /\ Rank(e) \in 0..2
    BY <1>1
  <2>3. /\ x.priority \in Nat /\ e.priority \in Nat /\ x.version \in Nat /\ e.version \in Nat
    BY RulesAssumption
  <2>4. x.scope = e.scope => e.priority <= x.priority
    BY <1>3, <1>4
  <2>5. x.scope = e.scope /\ x.priority = e.priority => x.version <= e.version
    BY <1>4
  <2>6. \/ Rank(x) > Rank(e)
        \/ x.scope = e.scope /\ x.priority < e.priority
        \/ x.scope = e.scope /\ x.priority = e.priority /\ x.version > e.version
    BY DEF R!Outranks
  <2> HIDE DEF Rank, same
  <2>7. QED
    BY <2>1, <2>2, <2>3, <2>4, <2>5, <2>6
<1>6. e \in R!Winners(active)
  BY <1>5 DEF R!Winners
<1>7. Rank(e) >= Rank(d)
  <2>1. Rank(d) <= Rank(e) /\ Rank(d) \in 0..2 /\ Rank(e) \in 0..2
    BY <1>1, <1>2, <1>3, <1>4
  <2> HIDE DEF Rank
  <2>2. QED
    BY <2>1
<1>8. QED
  BY <1>6, <1>7

\* Winners of one type have one value, if their rules do not conflict.
LEMMA WinnersAgree ==
  ASSUME NEW rules \in SUBSET Definitions, NEW day \in Days, R!Conflicts(rules) = {},
         NEW d \in R!Winners(R!ActiveOn(rules, day)), NEW e \in R!Winners(R!ActiveOn(rules, day)),
         d.type = e.type
  PROVE  d.value = e.value
<1>1. /\ d \in R!ActiveOn(rules, day) /\ e \in R!ActiveOn(rules, day)
      /\ ~ R!Outranks(d, e) /\ ~ R!Outranks(e, d) /\ d \in Definitions /\ e \in Definitions
  BY DEF R!Winners, R!ActiveOn
<1>2. d.scope = e.scope
  <2>1. ~ R!Precedence[d.scope] > R!Precedence[e.scope] /\ ~ R!Precedence[e.scope] > R!Precedence[d.scope]
    BY <1>1 DEF R!Outranks
  <2>2. d.scope \in {"default", "customer", "tenant"} /\ e.scope \in {"default", "customer", "tenant"}
    BY <1>1, RulesAssumption
  <2>3. QED
    BY <2>1, <2>2 DEF R!Precedence
<1>3. d.priority = e.priority
  <2>1. ~ d.priority < e.priority /\ ~ e.priority < d.priority
    BY <1>1, <1>2 DEF R!Outranks
  <2>2. d.priority \in Nat /\ e.priority \in Nat
    BY <1>1, RulesAssumption
  <2>3. QED
    BY <2>1, <2>2
<1>4. ~ R!Ambiguous(R!ActiveOn(rules, day))
  BY ConflictsShow
<1>5. QED
  BY <1>1, <1>2, <1>3, <1>4 DEF R!Ambiguous

\* This holds of the operators, whatever the state.
LEMMA SimulationsDecide == R!RulesDecide
<1> SUFFICES ASSUME NEW rules \in SUBSET Definitions
             PROVE  /\ R!Conflicts(rules) # {} <=>
                         \E day \in Days : R!Ambiguous(R!ActiveOn(rules, day))
                    /\ \A day \in Days :
                         LET answer == R!Simulated(rules, day)
                         IN ~ answer.refused =>
                              /\ \A d, e \in answer.winners : d.type = e.type => d.value = e.value
                              /\ \A d \in R!ActiveOn(rules, day) : \E e \in answer.winners :
                                   e.type = d.type /\ R!Precedence[e.scope] >= R!Precedence[d.scope]
  BY Zenon DEF R!RulesDecide
<1>1. R!Conflicts(rules) # {} <=> \E day \in Days : R!Ambiguous(R!ActiveOn(rules, day))
  BY ConflictsShow
<1>2. ASSUME NEW day \in Days, ~ R!Simulated(rules, day).refused
      PROVE  LET winners == R!Simulated(rules, day).winners
             IN  /\ \A d, e \in winners : d.type = e.type => d.value = e.value
                 /\ \A d \in R!ActiveOn(rules, day) : \E e \in winners :
                      e.type = d.type /\ R!Precedence[e.scope] >= R!Precedence[d.scope]
  <2>1. R!Conflicts(rules) = {} /\ R!Simulated(rules, day).winners = R!Winners(R!ActiveOn(rules, day))
    BY <1>2 DEF R!Simulated
  <2>2. R!ActiveOn(rules, day) \in SUBSET Definitions
    BY DEF R!ActiveOn
  <2>3. QED
    BY <2>1, <2>2, WinnerExists, WinnersAgree
<1>3. QED
  BY <1>1, <1>2

\* For any list of rules a simulation is refused exactly when two of them would be
\* ambiguous on some day; otherwise it has one outcome for each type of rule, whatever the
\* order of the list, of at least the scope of every rule in force
\* (payment_rules.py detect_conflicts, evaluate_rules).
THEOREM RulesAlwaysDecide == Spec => []RulesDecide
<1>1. R!RulesDecide
  BY SimulationsDecide
<1>2. R!RulesDecide => RulesDecide
  BY DEF RulesDecide
<1>3. QED
  BY <1>1, <1>2, PTL

-----------------------------------------------------------------------------
(* Documents.                                                              *)

UploadSteps == {"lookup", "scan", "put", "insert", "record", "link", "commit"}

StoreTyped ==
  work = [s \in Session |-> work[s]] /\ locks = [s \in Session |-> locks[s]]

\* The rows, writes, locks and requests are those of the contents and sessions.
UploadsTyped ==
  /\ DOMAIN db = D!Rows /\ \A r \in D!Rows : db[r] \in BOOLEAN
  /\ upload = [s \in Session |-> upload[s]]
  /\ StoreTyped
  /\ \A a \in answered : a[1] \in Session /\ a[2] \in D!Requests

\* What an upload has written, locked and found at each of its steps: a document it
\* will commit is clean and stored, and comes with its own source; a link it will
\* commit is one of a document that it sees.
Uploading(s, step, q) ==
  LET document == <<"document", q.content>>
      source == <<"source", q.content, s>>
      link == <<"link", q.content>>
      seen(r) == r \in DOMAIN work[s] \/ db[r]
  IN
  /\ DOMAIN work[s] \subseteq {document, source, link}
  /\ \A r \in DOMAIN work[s] : work[s][r] = TRUE
  /\ document \in DOMAIN work[s] => document \in locks[s] /\ ~ db[document]
  /\ link \in DOMAIN work[s] => link \in locks[s] /\ ~ db[link]
  /\ step \in {"lookup", "scan", "put", "insert"} => DOMAIN work[s] = {}
  /\ step \in {"put", "insert"} => q.content \notin Infected
  /\ step = "insert" => q.content \in objects
  /\ document \in DOMAIN work[s] => q.content \in objects \ Infected
  /\ step \in {"record", "link", "commit"} => seen(document)
  /\ step = "record" => DOMAIN work[s] \subseteq {document}
  /\ step \in {"link", "commit"} => source \in DOMAIN work[s]
  /\ step = "link" => link \notin DOMAIN work[s]
  /\ step = "commit" /\ q.case = "known" => seen(link)

UploadHolds(s) ==
  \/ upload[s] = D!None /\ DOMAIN work[s] = {} /\ locks[s] = {}
  \/ \E step \in UploadSteps, q \in D!Requests :
       upload[s] = [at |-> step, request |-> q] /\ Uploading(s, step, q)

DocumentInv ==
  /\ UploadsTyped /\ KeysExclusive /\ D!DocumentsStored /\ D!SuccessfulUploadsKept
  /\ \A s \in Session : UploadHolds(s)

DocumentsInv == focus = "documents" => DocumentInv

\* One upload moves and the others keep their requests, writes and locks.
UploadAlone(s) ==
  \A t \in Session \ {s} :
    upload'[t] = upload[t] /\ work'[t] = work[t] /\ locks'[t] = locks[t]

\* Rows of documents and links that change were locked by the session.
RowsGrow(s) ==
  /\ \A r \in D!Rows : db[r] => db'[r]
  /\ \A d \in Contents : \A table \in {"document", "link"} :
       <<table, d>> \notin locks[s] => db'[<<table, d>>] = db[<<table, d>>]

\* The rows of a content, and that no row stands for two things.
LEMMA RowsApart ==
  ASSUME NEW d \in Contents, NEW s \in Session
  PROVE  /\ <<"document", d>> \in D!Rows /\ <<"link", d>> \in D!Rows /\ <<"source", d, s>> \in D!Rows
         /\ <<"document", d>> # <<"link", d>>
         /\ \A e : /\ <<"document", d>> # <<"source", e, s>> /\ <<"link", d>> # <<"source", e, s>>
                   /\ <<"document", d>> # <<"link", e>>
                   /\ <<"document", d>> = <<"document", e>> => d = e
                   /\ <<"link", d>> = <<"link", e>> => d = e
BY DEF D!Rows

\* At each step an upload holds what it needs there.
LEMMA UploadAt ==
  ASSUME DocumentInv, NEW s \in Session, NEW step \in UploadSteps, D!At(s, step)
  PROVE  \E q \in D!Requests : upload[s] = [at |-> step, request |-> q] /\ Uploading(s, step, q)
<1>1. UploadHolds(s) /\ upload[s].at = step /\ step # "none"
  BY DEF DocumentInv, D!At, UploadSteps
<1>2. upload[s] # D!None
  BY <1>1 DEF D!None
<1>3. PICK found \in UploadSteps, q \in D!Requests :
        upload[s] = [at |-> found, request |-> q] /\ Uploading(s, found, q)
  BY <1>1, <1>2 DEF UploadHolds
<1>4. found = step
  BY <1>1, <1>3
<1>5. QED
  BY <1>3, <1>4

\* The others keep what they hold while one session moves and rows only appear.
LEMMA UploadFrame ==
  ASSUME DocumentInv, NEW s \in Session, UploadAlone(s), RowsGrow(s), objects \subseteq objects',
         UploadsTyped', UploadHolds(s)', \A t \in Session \ {s} : locks'[s] \cap locks[t] = {},
         D!DocumentsStored', D!SuccessfulUploadsKept'
  PROVE  DocumentInv'
<1>1. KeysExclusive'
  BY DEF DocumentInv, KeysExclusive, UploadAlone
<1>2. ASSUME NEW t \in Session \ {s} PROVE UploadHolds(t)'
  <2>1. upload'[t] = upload[t] /\ work'[t] = work[t] /\ locks'[t] = locks[t]
    BY DEF UploadAlone
  <2>2. CASE upload[t] = D!None /\ DOMAIN work[t] = {} /\ locks[t] = {}
    BY <2>1, <2>2 DEF UploadHolds
  <2>3. ASSUME NEW step \in UploadSteps, NEW q \in D!Requests,
               upload[t] = [at |-> step, request |-> q], Uploading(t, step, q)
        PROVE  UploadHolds(t)'
    <3> DEFINE document == <<"document", q.content>>
               link == <<"link", q.content>>
    <3>1. q.content \in Contents
      BY DEF D!Requests
    <3>2. document \in D!Rows /\ link \in D!Rows
      BY <3>1, RowsApart
    <3>3. /\ db[document] => db'[document]
          /\ db[link] => db'[link]
      BY <3>2 DEF RowsGrow
    <3>4. /\ document \in locks[t] => db'[document] = db[document]
          /\ link \in locks[t] => db'[link] = db[link]
      BY <3>1 DEF RowsGrow, DocumentInv, KeysExclusive
    <3>5. Uploading(t, step, q)'
      BY <2>1, <2>3, <3>3, <3>4 DEF Uploading
    <3>6. QED
      BY <2>1, <2>3, <3>5 DEF UploadHolds
  <2>4. QED
    BY <2>2, <2>3 DEF DocumentInv, UploadHolds
<1>3. QED
  BY <1>1, <1>2 DEF DocumentInv

\* A step that commits nothing and answers nobody.
LEMMA UploadQuiet ==
  ASSUME DocumentInv, NEW s \in Session, UploadAlone(s), UNCHANGED <<db, answered>>,
         objects \subseteq objects', UploadHolds(s)',
         upload' = [t \in Session |-> upload'[t]], StoreTyped',
         \A t \in Session \ {s} : locks'[s] \cap locks[t] = {}
  PROVE  DocumentInv'
<1>1. UploadsTyped'
  BY DEF DocumentInv, UploadsTyped, StoreTyped, D!Rows, D!Requests
<1>2. RowsGrow(s)
  BY DEF RowsGrow
<1>3. D!DocumentsStored'
  BY DEF DocumentInv, D!DocumentsStored
<1>4. D!SuccessfulUploadsKept'
  BY DEF DocumentInv, D!SuccessfulUploadsKept
<1>5. QED
  BY <1>1, <1>2, <1>3, <1>4, UploadFrame

\* An upload that ends holds nothing.
LEMMA UploadEnds ==
  ASSUME DocumentInv, NEW s \in Session, D!End(s), upload' = [upload EXCEPT ![s] = D!None]
  PROVE  /\ UploadAlone(s) /\ UploadHolds(s)' /\ locks'[s] = {}
         /\ upload' = [t \in Session |-> upload'[t]]
         /\ StoreTyped'
<1>1. /\ locks' = [locks EXCEPT ![s] = {}] /\ work' = [work EXCEPT ![s] = D!Nothing]
      /\ upload' = [upload EXCEPT ![s] = D!None]
  BY DEF D!End
<1>2. /\ upload = [t \in Session |-> upload[t]]
      /\ work = [t \in Session |-> work[t]] /\ locks = [t \in Session |-> locks[t]]
  BY DEF DocumentInv, UploadsTyped, StoreTyped
<1>3. /\ upload' = [t \in Session |-> upload'[t]] /\ upload'[s] = D!None
      /\ \A t \in Session \ {s} : upload'[t] = upload[t]
  BY <1>1, <1>2
<1>4. /\ work' = [t \in Session |-> work'[t]] /\ work'[s] = D!Nothing
      /\ \A t \in Session \ {s} : work'[t] = work[t]
  BY <1>1, <1>2
<1>5. /\ locks' = [t \in Session |-> locks'[t]] /\ locks'[s] = {}
      /\ \A t \in Session \ {s} : locks'[t] = locks[t]
  BY <1>1, <1>2
<1>6. DOMAIN D!Nothing = {}
  BY DEF D!Nothing
<1>7. UploadHolds(s)'
  BY <1>3, <1>4, <1>5, <1>6 DEF UploadHolds
<1>8. QED
  BY <1>3, <1>4, <1>5, <1>7 DEF UploadAlone, StoreTyped

\* An upload that fails or crashes leaves the rows alone.
LEMMA UploadFails ==
  ASSUME DocumentInv, NEW s \in Session, D!Fail(s)
  PROVE  DocumentInv'
<1>1. /\ D!End(s) /\ upload' = [upload EXCEPT ![s] = D!None]
      /\ UNCHANGED <<db, objects, answered>>
  BY DEF D!Fail, D!Rollback
<1>2. /\ UploadAlone(s) /\ UploadHolds(s)' /\ locks'[s] = {}
      /\ upload' = [t \in Session |-> upload'[t]]
      /\ StoreTyped'
  BY <1>1, UploadEnds
<1>3. \A t \in Session \ {s} : locks'[s] \cap locks[t] = {}
  BY <1>2
<1>4. UNCHANGED <<db, answered>> /\ objects \subseteq objects'
  BY <1>1
<1>5. QED
  BY <1>2, <1>3, <1>4, UploadQuiet

\* The session goes on with its request q.
UploadTo(s, next, q) ==
  /\ upload' = [t \in Session |-> upload'[t]] /\ upload'[s] = [at |-> next, request |-> q]
  /\ \A t \in Session \ {s} : upload'[t] = upload[t]

\* The next step of an upload, with the same request.
LEMMA UploadMoves ==
  ASSUME DocumentInv, NEW s \in Session, NEW step, NEW next, NEW q,
         upload[s] = [at |-> step, request |-> q], upload' = [upload EXCEPT ![s].at = next]
  PROVE  UploadTo(s, next, q)
<1>1. upload = [t \in Session |-> upload[t]]
  BY DEF DocumentInv, UploadsTyped, StoreTyped
<1>2. PICK old : old = upload[s]
  OBVIOUS
<1>3. old = [at |-> step, request |-> q]
  BY <1>2
<1>4. upload'[s] = [old EXCEPT !.at = next]
  BY <1>1, <1>2
<1>5. QED
  BY <1>1, <1>3, <1>4 DEF UploadTo

\* A step to where an upload may go on.
LEMMA UploadGoesOn ==
  ASSUME DocumentInv, NEW s \in Session, NEW step \in UploadSteps, NEW next \in UploadSteps,
         NEW q \in D!Requests, upload[s] = [at |-> step, request |-> q],
         upload' = [upload EXCEPT ![s].at = next], UNCHANGED <<db, answered>>,
         objects \subseteq objects', Uploading(s, next, q)',
         StoreTyped',
         \A t \in Session \ {s} : work'[t] = work[t] /\ locks'[t] = locks[t],
         \A t \in Session \ {s} : locks'[s] \cap locks[t] = {}
  PROVE  DocumentInv'
<1>1. UploadTo(s, next, q)
  BY UploadMoves, Zenon
<1>2. UploadAlone(s)
  BY <1>1 DEF UploadAlone, UploadTo
<1>3. UploadHolds(s)'
  BY <1>1 DEF UploadHolds, UploadTo
<1>4. upload' = [t \in Session |-> upload'[t]]
  BY <1>1 DEF UploadTo
<1>5. QED
  BY <1>2, <1>3, <1>4, UploadQuiet

\* A step without a statement.
LEMMA UploadPasses ==
  ASSUME DocumentInv, NEW s \in Session, NEW step \in UploadSteps, NEW next \in UploadSteps,
         NEW q \in D!Requests, upload[s] = [at |-> step, request |-> q],
         upload' = [upload EXCEPT ![s].at = next], UNCHANGED <<db, work, locks, answered>>,
         objects \subseteq objects', Uploading(s, next, q)'
  PROVE  DocumentInv'
<1>1. /\ StoreTyped'
      /\ \A t \in Session \ {s} : work'[t] = work[t] /\ locks'[t] = locks[t]
      /\ \A t \in Session \ {s} : locks'[s] \cap locks[t] = {}
  BY DEF DocumentInv, UploadsTyped, StoreTyped, KeysExclusive
<1>2. UNCHANGED <<db, answered>>
  OBVIOUS
<1>3. QED
  BY <1>1, <1>2, UploadGoesOn

\* The session has locked keys and inserted the row r.
Inserted(s, keys, r) ==
  /\ db' = db /\ locks'[s] = locks[s] \cup keys
  /\ DOMAIN work'[s] = DOMAIN work[s] \cup {r}
  /\ \A k \in DOMAIN work'[s] : work'[s][k] = (IF k = r THEN TRUE ELSE work[s][k])
  /\ StoreTyped'
  /\ \A t \in Session \ {s} : work'[t] = work[t] /\ locks'[t] = locks[t]
  /\ \A t \in Session \ {s} : locks'[s] \cap locks[t] = {}

\* A statement that inserts a row whose lock is free.
LEMMA UploadWrites ==
  ASSUME DocumentInv, NEW s \in Session, NEW keys, \A k \in keys : D!Free(s, k), NEW r,
         D!Statement(s, keys, D!Write(r, TRUE))
  PROVE  Inserted(s, keys, r)
<1> DEFINE new == D!Write(r, TRUE)
<1>1. DOMAIN new = {r} /\ new[r] = TRUE
  BY DEF D!Write
<1>2. /\ locks' = [locks EXCEPT ![s] = locks[s] \cup keys]
      /\ work' = [work EXCEPT ![s] = D!Over(new, work[s])] /\ db' = db
  BY DEF D!Statement
<1> HIDE DEF new
<1>3. /\ locks' = [t \in Session |-> locks'[t]] /\ locks'[s] = locks[s] \cup keys
      /\ \A t \in Session \ {s} : locks'[t] = locks[t]
  BY <1>2 DEF DocumentInv, UploadsTyped, StoreTyped
<1>4. /\ work' = [t \in Session |-> work'[t]] /\ work'[s] = D!Over(new, work[s])
      /\ \A t \in Session \ {s} : work'[t] = work[t]
  BY <1>2 DEF DocumentInv, UploadsTyped, StoreTyped
<1>5. DOMAIN D!Over(new, work[s]) = DOMAIN work[s] \cup {r}
  BY <1>1 DEF D!Over
<1>6. ASSUME NEW k \in DOMAIN D!Over(new, work[s])
      PROVE  D!Over(new, work[s])[k] = (IF k = r THEN TRUE ELSE work[s][k])
  BY <1>1, <1>6 DEF D!Over
<1>7. \A t \in Session \ {s} : locks'[s] \cap locks[t] = {}
  BY <1>3 DEF D!Free, DocumentInv, KeysExclusive
<1>8. StoreTyped'
  BY <1>3, <1>4 DEF StoreTyped
<1>9. QED
  BY <1>2, <1>3, <1>4, <1>5, <1>6, <1>7, <1>8 DEF Inserted

\* The lookup, the scan and the storage: no row yet.
LEMMA BeforeInsertKeeps ==
  ASSUME DocumentInv, NEW s \in Session, D!LookUp(s) \/ D!Scan(s) \/ D!Put(s)
  PROVE  DocumentInv'
<1>1. CASE D!LookUp(s)
  <2>1. PICK q \in D!Requests : upload[s] = [at |-> "lookup", request |-> q]
                                /\ Uploading(s, "lookup", q)
    BY <1>1, UploadAt DEF D!LookUp, UploadSteps
  <2>2. UNCHANGED <<db, work, locks, objects, answered>>
    BY <1>1 DEF D!LookUp, D!store
  <2> DEFINE document == <<"document", q.content>>
  <2>a. D!To(s, IF D!Seen(s, document) THEN "record" ELSE "scan")
    <3>0. upload[s].request = q
      BY <2>1
    <3>1. D!Row(s, "document") = document
      BY <3>0 DEF D!Row
    <3>2. QED
      BY <1>1, <3>1 DEF D!LookUp
  <2>3. CASE D!Seen(s, document)
    <3>1. upload' = [upload EXCEPT ![s].at = "record"]
      BY <2>a, <2>3 DEF D!To
    <3>2. db[<<"document", q.content>>] /\ DOMAIN work[s] = {}
      BY <2>1, <2>3 DEF Uploading, D!Seen
    <3>3. Uploading(s, "record", q)'
      BY <2>2, <3>2 DEF Uploading
    <3>4. QED
      BY <2>1, <2>2, <3>1, <3>3, UploadPasses DEF UploadSteps
  <2>4. CASE ~ D!Seen(s, document)
    <3>1. upload' = [upload EXCEPT ![s].at = "scan"]
      BY <2>a, <2>4 DEF D!To
    <3>2. Uploading(s, "scan", q)'
      BY <2>1, <2>2 DEF Uploading
    <3>3. QED
      BY <2>1, <2>2, <3>1, <3>2, UploadPasses DEF UploadSteps
  <2>5. QED
    BY <2>3, <2>4
<1>2. CASE D!Scan(s)
  <2>1. PICK q \in D!Requests : upload[s] = [at |-> "scan", request |-> q]
                                /\ Uploading(s, "scan", q)
    BY <1>2, UploadAt DEF D!Scan, UploadSteps
  <2>2. CASE q.content \notin Infected
    <3>1. upload' = [upload EXCEPT ![s].at = "put"] /\ UNCHANGED <<db, work, locks, objects, answered>>
      BY <1>2, <2>1, <2>2 DEF D!Scan, D!Clean, D!To, D!store
    <3>2. Uploading(s, "put", q)'
      BY <2>1, <2>2, <3>1 DEF Uploading
    <3>3. QED
      BY <2>1, <3>1, <3>2, UploadPasses DEF UploadSteps
  <2>3. CASE q.content \in Infected
    BY <1>2, <2>1, <2>3, UploadFails DEF D!Scan, D!Clean
  <2>4. QED
    BY <2>2, <2>3
<1>3. CASE D!Put(s)
  <2>1. PICK q \in D!Requests : upload[s] = [at |-> "put", request |-> q]
                                /\ Uploading(s, "put", q)
    BY <1>3, UploadAt DEF D!Put, UploadSteps
  <2>2. /\ upload' = [upload EXCEPT ![s].at = "insert"] /\ UNCHANGED <<db, work, locks, answered>>
        /\ objects' = objects \union {q.content}
    BY <1>3, <2>1 DEF D!Put, D!To, D!store
  <2>3. Uploading(s, "insert", q)'
    BY <2>1, <2>2 DEF Uploading
  <2>4. QED
    BY <2>1, <2>2, <2>3, UploadPasses DEF UploadSteps
<1>4. QED
  BY <1>1, <1>2, <1>3

\* The document is inserted after its content was stored.
LEMMA InsertKeeps ==
  ASSUME DocumentInv, NEW s \in Session, D!Insert(s)
  PROVE  DocumentInv'
<1>1. PICK q \in D!Requests : upload[s] = [at |-> "insert", request |-> q]
                              /\ Uploading(s, "insert", q)
  BY UploadAt DEF D!Insert, UploadSteps
<1> DEFINE document == <<"document", q.content>>
<1>2. D!Row(s, "document") = document
  BY <1>1 DEF D!Row
<1>3. CASE D!Seen(s, document)
  <2>1. D!Fail(s)
    BY <1>2, <1>3 DEF D!Insert, D!InsertUnique, D!Refused
  <2>2. QED
    BY <2>1, UploadFails
<1>4. CASE ~ D!Seen(s, document)
  <2>1. /\ D!Free(s, document) /\ D!Statement(s, {document}, D!Write(document, TRUE))
        /\ UNCHANGED <<objects, answered>> /\ upload' = [upload EXCEPT ![s].at = "record"]
    BY <1>2, <1>4 DEF D!Insert, D!InsertUnique, D!To
  <2>2. /\ DOMAIN work[s] = {} /\ q.content \in objects' \ Infected /\ ~ db[document]
    BY <1>1, <1>4, <2>1 DEF Uploading, D!Seen
  <2>3. db' = db /\ q.content \in Contents
    BY <2>1 DEF D!Statement, D!Requests
  <2>4. Inserted(s, {document}, document)
    <3>1. \A k \in {document} : D!Free(s, k)
      BY <2>1
    <3>2. QED
      BY <2>1, <3>1, UploadWrites, Zenon
  <2>5. Uploading(s, "record", q)'
    BY <2>1, <2>2, <2>3, <2>4, RowsApart DEF Uploading, Inserted
  <2>6. QED
    BY <1>1, <2>1, <2>3, <2>4, <2>5, UploadGoesOn DEF UploadSteps, Inserted
<1>5. QED
  BY <1>3, <1>4

\* Every upload that gets this far leaves a source of its own.
LEMMA RecordSourceKeeps ==
  ASSUME DocumentInv, NEW s \in Session, D!Record(s)
  PROVE  DocumentInv'
<1>1. PICK q \in D!Requests : upload[s] = [at |-> "record", request |-> q]
                              /\ Uploading(s, "record", q)
  BY UploadAt DEF D!Record, UploadSteps
<1> DEFINE source == <<"source", q.content, s>>
           link == <<"link", q.content>>
<1>2. q.content \in Contents
  BY DEF D!Requests
<1>3. upload[s].request = q /\ D!Row(s, "link") = link
  BY <1>1 DEF D!Row
<1>4. CASE q.case = "unknown"
  <2>1. D!Fail(s)
    BY <1>3, <1>4 DEF D!Record
  <2>2. QED
    BY <2>1, UploadFails
<1>5. CASE q.case # "unknown"
  <2> DEFINE next == IF q.case = "none" \/ D!Seen(s, link) THEN "commit" ELSE "link"
  <2>1. /\ D!Statement(s, {}, D!Write(source, TRUE)) /\ UNCHANGED <<objects, answered>>
        /\ D!To(s, next)
    BY <1>3, <1>5 DEF D!Record
  <2>2. link \notin DOMAIN work[s]
    BY <1>1, <1>2, RowsApart DEF Uploading
  <2>3. Inserted(s, {}, source)
    <3>1. \A k \in {} : D!Free(s, k)
      OBVIOUS
    <3>2. QED
      BY <2>1, <3>1, UploadWrites, Zenon
  <2>4. CASE q.case = "none" \/ D!Seen(s, link)
    <3>1. upload' = [upload EXCEPT ![s].at = "commit"]
      BY <2>1, <2>4 DEF D!To
    <3>2. q.case = "known" => db[link]
      BY <2>2, <2>4 DEF D!Seen
    <3>3. Uploading(s, "commit", q)'
      BY <1>1, <1>2, <2>1, <2>2, <2>3, <3>2, RowsApart DEF Uploading, Inserted
    <3>4. QED
      BY <1>1, <2>1, <2>3, <3>1, <3>3, UploadGoesOn DEF UploadSteps, Inserted
  <2>5. CASE ~ (q.case = "none" \/ D!Seen(s, link))
    <3>1. upload' = [upload EXCEPT ![s].at = "link"]
      BY <2>1, <2>5 DEF D!To
    <3>2. Uploading(s, "link", q)'
      BY <1>1, <1>2, <2>1, <2>2, <2>3, RowsApart DEF Uploading, Inserted
    <3>3. QED
      BY <1>1, <2>1, <2>3, <3>1, <3>2, UploadGoesOn DEF UploadSteps, Inserted
  <2>6. QED
    BY <2>4, <2>5
<1>6. QED
  BY <1>4, <1>5

\* A link comes after its document.
LEMMA LinkKeeps ==
  ASSUME DocumentInv, NEW s \in Session, D!LinkCase(s)
  PROVE  DocumentInv'
<1>1. PICK q \in D!Requests : upload[s] = [at |-> "link", request |-> q]
                              /\ Uploading(s, "link", q)
  BY UploadAt DEF D!LinkCase, UploadSteps
<1> DEFINE link == <<"link", q.content>>
<1>2. D!Row(s, "link") = link
  BY <1>1 DEF D!Row
<1>3. CASE D!Seen(s, link)
  <2>1. D!Fail(s)
    BY <1>2, <1>3 DEF D!LinkCase, D!InsertUnique, D!Refused
  <2>2. QED
    BY <2>1, UploadFails
<1>4. CASE ~ D!Seen(s, link)
  <2>1. /\ D!Free(s, link) /\ D!Statement(s, {link}, D!Write(link, TRUE))
        /\ UNCHANGED <<objects, answered>> /\ upload' = [upload EXCEPT ![s].at = "commit"]
    BY <1>2, <1>4 DEF D!LinkCase, D!InsertUnique, D!To
  <2>2. ~ db[link]
    BY <1>1, <1>4 DEF Uploading, D!Seen
  <2>3. db' = db /\ q.content \in Contents
    BY <2>1 DEF D!Statement, D!Requests
  <2>4. Inserted(s, {link}, link)
    <3>1. \A k \in {link} : D!Free(s, k)
      BY <2>1
    <3>2. QED
      BY <2>1, <3>1, UploadWrites, Zenon
  <2>5. Uploading(s, "commit", q)'
    BY <1>1, <2>1, <2>2, <2>3, <2>4, RowsApart DEF Uploading, Inserted
  <2>6. QED
    BY <1>1, <2>1, <2>3, <2>4, <2>5, UploadGoesOn DEF UploadSteps, Inserted
<1>5. QED
  BY <1>3, <1>4

\* The commit publishes the rows of one content, all that the answer promises.
LEMMA CommitUploadKeeps ==
  ASSUME DocumentInv, NEW s \in Session, D!CommitUpload(s)
  PROVE  DocumentInv'
<1>1. PICK q \in D!Requests : upload[s] = [at |-> "commit", request |-> q]
                              /\ Uploading(s, "commit", q)
  BY UploadAt DEF D!CommitUpload, UploadSteps
<1> DEFINE document == <<"document", q.content>>
           source == <<"source", q.content, s>>
           link == <<"link", q.content>>
<1>2. /\ db' = D!Over(work[s], db) /\ D!End(s) /\ upload' = [upload EXCEPT ![s] = D!None]
      /\ answered' = answered \union {<<s, q>>} /\ objects' = objects
  BY <1>1 DEF D!CommitUpload, D!Commit
<1>3. q.content \in Contents
  BY DEF D!Requests
<1>4. document \in D!Rows /\ source \in D!Rows /\ link \in D!Rows
  BY <1>3, RowsApart
<1>5. /\ DOMAIN work[s] \subseteq {document, source, link} /\ source \in DOMAIN work[s]
      /\ \A r \in DOMAIN work[s] : work[s][r] = TRUE
  BY <1>1 DEF Uploading
<1>6. /\ DOMAIN db' = D!Rows
      /\ \A r \in D!Rows : db'[r] = (IF r \in DOMAIN work[s] THEN TRUE ELSE db[r])
  BY <1>2, <1>4, <1>5 DEF D!Over, DocumentInv, UploadsTyped, StoreTyped
<1>7. db'[source] /\ db'[document] /\ (q.case = "known" => db'[link])
  BY <1>1, <1>4, <1>5, <1>6 DEF Uploading
<1>8. UploadAlone(s) /\ UploadHolds(s)' /\ locks'[s] = {}
  BY <1>2, UploadEnds
<1>9. UploadsTyped'
  <2>1. \A a \in answered' : a[1] \in Session /\ a[2] \in D!Requests
    BY <1>2 DEF DocumentInv, UploadsTyped, StoreTyped
  <2>2. \A r \in D!Rows : db'[r] \in BOOLEAN
    BY <1>6 DEF DocumentInv, UploadsTyped, StoreTyped
  <2>3. QED
    BY <1>2, <1>6, <2>1, <2>2, UploadEnds DEF UploadsTyped, D!Rows, D!Requests
<1>10. RowsGrow(s)
  <2>1. \A r \in D!Rows : db[r] => db'[r]
    BY <1>6
  <2>2. ASSUME NEW d \in Contents, NEW table \in {"document", "link"}, <<table, d>> \notin locks[s]
        PROVE  db'[<<table, d>>] = db[<<table, d>>]
    <3>1. <<table, d>> \in D!Rows
      BY RowsApart
    <3>2. <<table, d>> \notin DOMAIN work[s]
      BY <1>1, <1>5, <2>2, RowsApart DEF Uploading
    <3>3. QED
      BY <1>6, <3>1, <3>2
  <2>3. QED
    BY <2>1, <2>2 DEF RowsGrow
<1>11. D!DocumentsStored'
  <2> SUFFICES ASSUME NEW d \in Contents
               PROVE  /\ db'[<<"document", d>>] =>
                          d \in objects \ Infected /\ \E t \in Session : db'[<<"source", d, t>>]
                      /\ db'[<<"link", d>>] => db'[<<"document", d>>]
    BY <1>2 DEF D!DocumentsStored
  <2>1. /\ db[<<"document", d>>] =>
            d \in objects \ Infected /\ \E t \in Session : db[<<"source", d, t>>]
        /\ db[<<"link", d>>] => db[<<"document", d>>]
    BY DEF DocumentInv, D!DocumentsStored
  <2>2. CASE d = q.content
    <3>1. document \in DOMAIN work[s] => q.content \in objects \ Infected
      BY <1>1 DEF Uploading
    <3>2. document \notin DOMAIN work[s] => db[document]
      BY <1>4, <1>6, <1>7
    <3>3. QED
      BY <1>7, <2>1, <2>2, <3>1, <3>2
  <2>3. CASE d # q.content
    <3>1. <<"document", d>> \notin DOMAIN work[s] /\ <<"link", d>> \notin DOMAIN work[s]
      BY <1>5, <2>3, RowsApart
    <3>2. <<"document", d>> \in D!Rows /\ <<"link", d>> \in D!Rows
      BY RowsApart
    <3>3. \A t \in Session : <<"source", d, t>> \in D!Rows
      BY RowsApart
    <3>4. QED
      BY <1>6, <2>1, <3>1, <3>2, <3>3
  <2>4. QED
    BY <2>2, <2>3
<1>12. D!SuccessfulUploadsKept'
  <2> SUFFICES ASSUME NEW a \in answered'
               PROVE  /\ db'[<<"document", a[2].content>>] /\ db'[<<"source", a[2].content, a[1]>>]
                      /\ a[2].case = "known" => db'[<<"link", a[2].content>>]
    BY DEF D!SuccessfulUploadsKept
  <2>1. CASE a = <<s, q>>
    BY <1>7, <2>1
  <2>2. CASE a \in answered
    <3>1. a[1] \in Session /\ a[2].content \in Contents
      BY <2>2 DEF DocumentInv, UploadsTyped, StoreTyped, D!Requests
    <3>2. /\ <<"document", a[2].content>> \in D!Rows /\ <<"link", a[2].content>> \in D!Rows
          /\ <<"source", a[2].content, a[1]>> \in D!Rows
      BY <3>1, RowsApart
    <3>3. /\ db[<<"document", a[2].content>>] /\ db[<<"source", a[2].content, a[1]>>]
          /\ a[2].case = "known" => db[<<"link", a[2].content>>]
      BY <2>2 DEF DocumentInv, D!SuccessfulUploadsKept
    <3>4. QED
      BY <1>6, <3>2, <3>3
  <2>3. QED
    BY <1>2, <2>1, <2>2
<1>13. QED
  BY <1>2, <1>8, <1>9, <1>10, <1>11, <1>12, UploadFrame

\* A step of the uploads keeps what they hold and what is recorded.
LEMMA DocumentStep ==
  ASSUME DocumentInv, [D!Next]_(D!vars)
  PROVE  DocumentInv'
<1>1. CASE UNCHANGED D!vars
  <2>1. /\ UNCHANGED <<db, work, locks, upload, objects, answered>>
    BY <1>1 DEF D!vars
  <2>2. UploadsTyped' /\ KeysExclusive' /\ D!DocumentsStored' /\ D!SuccessfulUploadsKept'
    BY <2>1 DEF DocumentInv, UploadsTyped, StoreTyped, KeysExclusive, D!DocumentsStored,
       D!SuccessfulUploadsKept, D!Rows, D!Requests
  <2>3. ASSUME NEW s \in Session PROVE UploadHolds(s)'
    <3>1. \A step, q : Uploading(s, step, q)' <=> Uploading(s, step, q)
      BY <2>1 DEF Uploading
    <3>2. UploadHolds(s)
      BY DEF DocumentInv
    <3>3. QED
      BY <2>1, <3>1, <3>2 DEF UploadHolds, D!Requests
  <2>4. QED
    BY <2>2, <2>3 DEF DocumentInv
<1>2. ASSUME NEW s \in Session, NEW q \in D!Requests, D!Begin(s, q) PROVE DocumentInv'
  <2>1. /\ upload[s] = D!None /\ upload' = [upload EXCEPT ![s] = [at |-> "lookup", request |-> q]]
        /\ UNCHANGED <<db, work, locks, objects, answered>>
    BY <1>2 DEF D!Begin, D!store
  <2>2. DOMAIN work[s] = {} /\ locks[s] = {}
    <3>1. UploadHolds(s)
      BY DEF DocumentInv
    <3>2. ASSUME NEW step \in UploadSteps, NEW r \in D!Requests
          PROVE  upload[s] # [at |-> step, request |-> r]
      BY <2>1 DEF D!None, UploadSteps
    <3>3. QED
      BY <3>1, <3>2 DEF UploadHolds
  <2>3. /\ upload' = [t \in Session |-> upload'[t]]
        /\ upload'[s] = [at |-> "lookup", request |-> q]
        /\ \A t \in Session \ {s} : upload'[t] = upload[t]
    BY <2>1 DEF DocumentInv, UploadsTyped, StoreTyped
  <2>4. Uploading(s, "lookup", q)'
    BY <2>1, <2>2 DEF Uploading
  <2>5. UploadHolds(s)' /\ UploadAlone(s)
    BY <2>1, <2>3, <2>4 DEF UploadHolds, UploadAlone, UploadSteps
  <2>6. StoreTyped'
    BY <2>1 DEF DocumentInv, UploadsTyped, StoreTyped
  <2>7. QED
    BY <2>1, <2>2, <2>3, <2>5, <2>6, UploadQuiet
<1>3. ASSUME NEW s \in Session, D!Crash(s) PROVE DocumentInv'
  BY <1>3, UploadFails DEF D!Crash
<1>4. QED
  BY <1>1, <1>2, <1>3, BeforeInsertKeeps, InsertKeeps, RecordSourceKeeps, LinkKeeps,
     CommitUploadKeeps DEF D!Next

\* The invariant of the uploads.
LEMMA DocumentsAlways == Spec => []DocumentsInv
<1>1. Init => DocumentsInv
  <2> SUFFICES ASSUME Init, focus = "documents" PROVE DocumentInv
    BY DEF DocumentsInv
  <2>1. D!Init
    BY DEF Init, InitDocuments
  <2>2. DOMAIN D!Nothing = {}
    BY DEF D!Nothing
  <2>3. UploadsTyped /\ KeysExclusive /\ \A s \in Session : UploadHolds(s)
    BY <2>1, <2>2 DEF D!Init, UploadsTyped, StoreTyped, KeysExclusive, UploadHolds
  <2>4. \A d \in Contents : ~ db[<<"document", d>>] /\ ~ db[<<"link", d>>]
    BY <2>1 DEF D!Init, D!Rows
  <2>5. D!DocumentsStored /\ D!SuccessfulUploadsKept
    BY <2>1, <2>4 DEF D!Init, D!DocumentsStored, D!SuccessfulUploadsKept
  <2>6. QED
    BY <2>3, <2>5 DEF DocumentInv
<1>2. DocumentsInv /\ [Next]_vars => DocumentsInv'
  BY OneComponent, DocumentStep DEF DocumentsInv
<1>3. QED
  BY <1>1, <1>2, PTL DEF Spec

\* A document that the database names was scanned, is in storage and has a source, and
\* a link is one of a document, however uploads overlap or fail (quarantine_and_store).
THEOREM OnlyStoredDocuments == Spec => []DocumentsStored
<1>1. DocumentsInv => DocumentsStored
  BY DEF DocumentsInv, DocumentInv, DocumentsStored
<1>2. QED
  BY <1>1, DocumentsAlways, PTL

\* An upload that was answered with success stays recorded in full: its document, its
\* own source and the link that it asked for (upload_document).
THEOREM AnsweredUploadsKept == Spec => []SuccessfulUploadsKept
<1>1. DocumentsInv => SuccessfulUploadsKept
  BY DEF DocumentsInv, DocumentInv, SuccessfulUploadsKept
<1>2. QED
  BY <1>1, DocumentsAlways, PTL

-----------------------------------------------------------------------------
(* TenantLifecycle.                                                        *)

\* Every row is one of the tenant's tables.  While a deletion is open it has read the
\* keys of every document that was there before, and behind its last table, that of
\* the tenant, nothing is left.
DeletionInv ==
  /\ \A r \in rows : r[1] \in T!Children("tenants")
  /\ T!Open =>
       /\ deletion = [phase |-> "open", step |-> deletion.step, gone |-> deletion.gone,
                      role |-> deletion.role]
       /\ deletion.step \in Nat
       /\ \A r \in T!In(rows, "documents") : r[2] = "before" => r \in reported
       /\ deletion.step > Len(T!DeletionOrder) => rows \subseteq deletion.gone

LifecycleInv == focus = "lifecycle" => DeletionInv

\* The tenant's own row goes last.
LEMMA TenantLast == Len(T!DeletionOrder) = 23 /\ T!DeletionOrder[23] = "tenants"
BY DEF T!DeletionOrder, T!Tables

\* Only a deletion that has passed its last table commits.
LEMMA DeletionStep ==
  ASSUME DeletionInv, [T!Next]_(T!vars)
  PROVE  /\ DeletionInv' /\ T!DeletionAllOrNothing /\ T!ObjectsReported
<1>1. CASE UNCHANGED T!vars
  BY <1>1 DEF T!vars, DeletionInv, T!Open, T!In, T!DeletionAllOrNothing, T!ObjectsReported
<1>2. ASSUME NEW t \in Late, T!Arrive(t)
      PROVE  DeletionInv' /\ T!DeletionAllOrNothing /\ T!ObjectsReported
  <2>1. /\ T!Open /\ deletion.step <= Len(T!DeletionOrder)
        /\ rows' = rows \union {<<t, "late">>} /\ UNCHANGED <<tenant, deletion, reported>>
    BY <1>2 DEF T!Arrive
  <2>2. <<t, "late">>[1] \in T!Children("tenants") /\ <<t, "late">>[2] # "before"
    BY LifecycleAssumption
  <2>3. \A r \in T!In(rows', "documents") : r[2] = "before" => r \in T!In(rows, "documents")
    BY <2>1, <2>2 DEF T!In
  <2>4. ~ (deletion'.step > Len(T!DeletionOrder))
    BY <2>1, TenantLast DEF DeletionInv
  <2>5. QED
    BY <2>1, <2>2, <2>3, <2>4 DEF DeletionInv, T!Open, T!DeletionAllOrNothing, T!ObjectsReported
<1>3. ASSUME NEW approved \in BOOLEAN, NEW role \in T!Roles, T!Begin(approved, role)
      PROVE  DeletionInv' /\ T!DeletionAllOrNothing /\ T!ObjectsReported
  <2>1. UNCHANGED <<tenant, rows>>
    BY <1>3 DEF T!Begin
  <2>2. CASE approved
    <3>1. /\ deletion' = [phase |-> "open", step |-> 1, gone |-> {}, role |-> role]
          /\ reported' = T!In(rows, "documents")
      BY <1>3, <2>2 DEF T!Begin
    <3>2. /\ deletion' = [phase |-> "open", step |-> deletion'.step, gone |-> deletion'.gone,
                          role |-> deletion'.role]
          /\ deletion'.step = 1
      BY <3>1
    <3>3. QED
      BY <2>1, <3>1, <3>2, TenantLast DEF DeletionInv, T!In, T!DeletionAllOrNothing, T!ObjectsReported
  <2>3. CASE ~ approved
    <3>1. deletion' = T!Settled("refused")
      BY <1>3, <2>3 DEF T!Begin
    <3>2. QED
      BY <2>1, <3>1 DEF DeletionInv, T!Open, T!Settled, T!DeletionAllOrNothing, T!ObjectsReported
  <2>4. QED
    BY <2>2, <2>3
<1>4. CASE T!DeleteFrom
  <2>1. /\ T!Open /\ deletion.step <= Len(T!DeletionOrder) /\ T!Unreferenced
        /\ deletion' = [deletion EXCEPT !.gone = deletion.gone \union T!In(rows, T!Target),
                                        !.step = deletion.step + 1]
        /\ UNCHANGED <<tenant, rows, reported>>
    BY <1>4 DEF T!DeleteFrom
  <2>2. PICK n, gone, role : n = deletion.step /\ gone = deletion.gone /\ role = deletion.role
    OBVIOUS
  <2>3. n \in Nat /\ deletion = [phase |-> "open", step |-> n, gone |-> gone, role |-> role]
    BY <2>1, <2>2 DEF DeletionInv
  <2>4. PICK more : more = gone \union T!In(rows, T!Target)
    OBVIOUS
  <2>5. deletion' = [deletion EXCEPT !.gone = more, !.step = n + 1]
    BY <2>1, <2>2, <2>4
  <2>6. deletion' = [phase |-> "open", step |-> n + 1, gone |-> more, role |-> role]
    BY <2>3, <2>5
  <2>7. n + 1 > Len(T!DeletionOrder) => rows \subseteq more
    <3> SUFFICES ASSUME n + 1 > Len(T!DeletionOrder) PROVE rows \subseteq more
      OBVIOUS
    <3>1. T!Target = "tenants"
      BY <2>1, <2>2, <2>3, TenantLast DEF T!Target
    <3>2. \A c \in T!Children("tenants") : T!In(rows \ gone, c) = {}
      BY <2>1, <2>2, <3>1 DEF T!Unreferenced, T!Remaining
    <3>3. rows \ gone = {}
      BY <3>2 DEF DeletionInv, T!In
    <3>4. QED
      BY <2>4, <3>3
  <2>8. /\ deletion'.step = n + 1 /\ deletion'.gone = more /\ deletion'.role = role
    BY <2>6
  <2>9. DeletionInv'
    <3>1. deletion' = [phase |-> "open", step |-> deletion'.step, gone |-> deletion'.gone,
                       role |-> deletion'.role]
      BY <2>6, <2>8
    <3>2. deletion'.step \in Nat
      BY <2>3, <2>8
    <3>3. \A r \in T!In(rows', "documents") : r[2] = "before" => r \in reported'
      BY <2>1 DEF DeletionInv, T!In
    <3>4. deletion'.step > Len(T!DeletionOrder) => rows' \subseteq deletion'.gone
      BY <2>1, <2>7, <2>8
    <3>5. \A r \in rows' : r[1] \in T!Children("tenants")
      BY <2>1 DEF DeletionInv
    <3>6. QED
      BY <3>1, <3>2, <3>3, <3>4, <3>5, Zenon DEF DeletionInv
  <2>10. QED
    BY <2>1, <2>9 DEF T!DeletionAllOrNothing, T!ObjectsReported
<1>5. CASE T!RollBack
  BY <1>5 DEF T!RollBack, DeletionInv, T!Open, T!DeletionAllOrNothing, T!ObjectsReported
<1>6. CASE T!Commit
  <2>1. /\ T!Open /\ deletion.step > Len(T!DeletionOrder) /\ rows' = rows \ deletion.gone
        /\ ~ tenant' /\ deletion' = T!Settled("deleted") /\ reported' = reported
    BY <1>6 DEF T!Commit
  <2>2. rows' = {}
    BY <2>1 DEF DeletionInv
  <2>3. DeletionInv'
    BY <2>1, <2>2 DEF DeletionInv, T!Open, T!Settled
  <2>4. QED
    BY <2>1, <2>2, <2>3 DEF DeletionInv, T!DeletionAllOrNothing, T!ObjectsReported
<1>7. CASE T!Crash
  BY <1>7 DEF T!Crash, DeletionInv, T!Open, T!Settled, T!DeletionAllOrNothing, T!ObjectsReported
<1>8. QED
  BY <1>1, <1>2, <1>3, <1>4, <1>5, <1>6, <1>7 DEF T!Next

\* The invariant of the deletion.
LEMMA LifecycleAlways == Spec => []LifecycleInv
<1>1. Init => LifecycleInv
  <2> SUFFICES ASSUME Init, focus = "lifecycle" PROVE DeletionInv
    BY DEF LifecycleInv
  <2>1. T!Init
    BY DEF Init, InitLifecycle
  <2>2. ~ T!Open
    BY <2>1 DEF T!Init, T!Open, T!Settled
  <2>3. \A r \in rows : r[1] \in T!Children("tenants")
    BY <2>1, LifecycleAssumption DEF T!Init
  <2>4. QED
    BY <2>2, <2>3 DEF DeletionInv
<1>2. LifecycleInv /\ [Next]_vars => LifecycleInv'
  BY OneComponent, DeletionStep DEF LifecycleInv
<1>3. QED
  BY <1>1, <1>2, PTL DEF Spec

\* A tenant's rows disappear all at once and with the tenant, whatever arrives while they
\* are deleted (delete_tenant_rows, one transaction that ends with the tenant's own row).
THEOREM DeletedTogether == Spec => DeletionAllOrNothing
<1> DEFINE Good == focus = "lifecycle" => T!DeletionAllOrNothing
<1>1. LifecycleInv /\ [Next]_vars => [Good]_vars
  BY OneComponent, DeletionStep DEF LifecycleInv
<1>2. QED
  BY <1>1, LifecycleAlways, PTL DEF Spec, DeletionAllOrNothing

\* When a tenant disappears, the object keys of all documents that were there before the
\* deletion began have been returned (delete_tenant_rows).
THEOREM ObjectKeysReturned == Spec => ObjectsReported
<1> DEFINE Good == focus = "lifecycle" => T!ObjectsReported
<1>1. LifecycleInv /\ [Next]_vars => [Good]_vars
  BY OneComponent, DeletionStep DEF LifecycleInv
<1>2. QED
  BY <1>1, LifecycleAlways, PTL DEF Spec, ObjectsReported
=============================================================================
