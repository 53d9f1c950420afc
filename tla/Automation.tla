----------------------------- MODULE Automation -----------------------------
(***************************************************************************)
(* Automated e-mails: the tenant's policies and kill switch, the recorded  *)
(* evaluation of a case (the endpoint), and the path of one e-mail from a  *)
(* decision over revalidation to delivery while case, recipient, policies  *)
(* and the global switch change.  The loop that would drive that path is   *)
(* not in the repository; its three functions are.  Every reason that      *)
(* excludes a case, other than switches, mode, canary and the circuit      *)
(* breaker, is a member of the set of its troubles.                        *)
(***************************************************************************)
EXTENDS ReadCommitted, SequencesExt

CONSTANTS Policies,   \* what may be requested: [mode, kill_switch, canary, confirmed]
          Bucket,     \* the case's bucket of a hundred
          MaxPolicies, MaxVersion  \* bounds

VARIABLES policies,   \* the committed policies in the order of enabled_at
          case,       \* the candidate: case version, recipient, troubles
          switch,     \* the global kill switch
          evaluation, \* evaluation[s]: the evaluation of session s, or Idle
          mail,       \* the e-mail under way, or Idle
          sent        \* the last e-mail sent, with what was checked before it (a set)
vars == <<db, work, locks, policies, case, switch, evaluation, mail, sent>>

Idle == [at |-> "idle"]
DecisionKeys == (1 .. MaxVersion) \X (1 .. MaxPolicies)

(* A policy is stored unless it enables without confirmation or with its   *)
(* kill switch on.                                                         *)
Acceptable(p) == p.mode \in {"canary", "enabled"} => p.confirmed /\ ~ p.kill_switch
NoPolicy == [mode |-> "disabled", kill_switch |-> TRUE, canary |-> 0]
Policy == IF policies = <<>> THEN NoPolicy ELSE Last(policies)

Init ==
    /\ db = [k \in DecisionKeys |-> [disposition |-> "none", audit |-> 0]]
    /\ work = [s \in Session |-> Nothing]
    /\ locks = [s \in Session |-> {}]
    /\ policies = <<>>
    /\ case = [version |-> 1, recipient |-> "r1", troubles |-> {}]
    /\ switch \in BOOLEAN
    /\ evaluation = [s \in Session |-> Idle]
    /\ mail = Idle
    /\ sent = {}

SetPolicy(p) ==
    /\ Acceptable(p)
    /\ Len(policies) < MaxPolicies
    /\ policies' = Append(policies, p)
    /\ UNCHANGED <<store, case, switch, evaluation, mail, sent>>

(* What may happen to the case meanwhile: it is paid, disputed, changed by *)
(* a person, or gets another recipient.                                    *)
Change ==
    /\ \/ case' = [case EXCEPT !.troubles = {"paid or disputed"}] /\ case.troubles = {}
       \/ case' = [case EXCEPT !.version = @ + 1] /\ case.version < MaxVersion
       \/ case' = [case EXCEPT !.recipient = "r2"] /\ case.recipient = "r1"
    /\ UNCHANGED <<store, policies, switch, evaluation, mail, sent>>

FlipSwitch ==
    /\ switch' = ~ switch
    /\ UNCHANGED <<store, policies, case, evaluation, mail, sent>>

Exclusions(candidate, policy, broken) ==
    candidate.troubles
    \union (IF policy.mode = "disabled" THEN {"automation_disabled"} ELSE {})
    \union (IF switch \/ policy.kill_switch THEN {"kill_switch_active"} ELSE {})
    \union (IF broken THEN {"circuit_breaker_open"} ELSE {})
    \union (IF policy.mode = "canary" /\ Bucket >= policy.canary THEN {"outside_canary"} ELSE {})

(* A shadow decision is a counterfactual that ignores the kill switch and  *)
(* is never dispatched.                                                    *)
Disposition(candidate, policy, broken) ==
    LET why == Exclusions(candidate, policy, broken) IN
    CASE policy.mode = "shadow" -> IF why \ {"kill_switch_active"} = {}
                                   THEN "SHADOW_ELIGIBLE" ELSE "SHADOW_BLOCKED"
      [] OTHER                  -> IF why = {} THEN "ENQUEUE" ELSE "BLOCKED"

-----------------------------------------------------------------------------
(* The endpoint evaluates every case with an unverified recipient and no   *)
(* approvals, and records the decision of a stored policy once per key.    *)
Evaluated == Disposition([case EXCEPT !.troubles = @ \union {"unverified_recipient"}], Policy, FALSE)

Evaluate(s) ==
    /\ evaluation[s] = Idle
    /\ policies # <<>>
    /\ LET key == <<case.version, Len(policies)>> IN
       /\ db[key].disposition = "none"
       /\ evaluation' = [evaluation EXCEPT ![s] = [at |-> "record", key |-> key,
                                                   disposition |-> Evaluated]]
    /\ UNCHANGED <<store, policies, case, switch, mail, sent>>

EndEvaluation(s) ==
    /\ evaluation' = [evaluation EXCEPT ![s] = Idle]
    /\ UNCHANGED <<policies, case, switch, mail, sent>>

\* Mutant: no unique key.
FreshAlways(s) == TRUE
Fresh(s) == Seen(s, evaluation[s].key).disposition = "none"

(* The insert waits for another one of its key and fails after it.         *)
Record(s) ==
    /\ evaluation[s].at = "record"
    /\ Free(s, evaluation[s].key)
    /\ IF Fresh(s)
       THEN /\ Statement(s, {evaluation[s].key},
                         Write(evaluation[s].key,
                               [disposition |-> evaluation[s].disposition,
                                audit |-> Seen(s, evaluation[s].key).audit + 1]))
            /\ evaluation' = [evaluation EXCEPT ![s].at = "commit"]
            /\ UNCHANGED <<policies, case, switch, mail, sent>>
       ELSE Rollback(s) /\ EndEvaluation(s)

CommitDecision(s) == evaluation[s].at = "commit" /\ Commit(s) /\ EndEvaluation(s)
CrashEvaluation(s) == evaluation[s] # Idle /\ Rollback(s) /\ EndEvaluation(s)

-----------------------------------------------------------------------------
Decide(broken) ==
    /\ mail = Idle
    /\ Disposition(case, Policy, broken) = "ENQUEUE"
    /\ mail' = [at |-> "decided", original |-> case]
    /\ UNCHANGED <<store, policies, case, switch, evaluation, sent>>

\* Mutant: the recipient is not compared.
SameVersion(original) == original.version = case.version
Unchanged(original) == original.version = case.version /\ original.recipient = case.recipient

(* revalidate_before_send, with the current policy; it does not ask for    *)
(* the error rate again, so the circuit breaker is taken to be closed.     *)
Revalidate ==
    /\ mail.at = "decided"
    /\ mail' = IF Unchanged(mail.original) /\ Disposition(case, Policy, FALSE) = "ENQUEUE"
               THEN [at |-> "validated", original |-> mail.original,
                     check |-> [case |-> case, policy |-> Policy, switch |-> switch]]
               ELSE Idle
    /\ UNCHANGED <<store, policies, case, switch, evaluation, sent>>

(* Delivery may be disabled; the provider is expected to drop a key that   *)
(* it has seen.                                                            *)
Deliver(enabled) ==
    /\ mail.at = "validated"
    /\ sent' = IF enabled THEN {[to |-> mail.original, check |-> mail.check]} ELSE sent
    /\ mail' = Idle
    /\ UNCHANGED <<store, policies, case, switch, evaluation>>

(* Evaluations and deliveries share the policies, the case and the switch, *)
(* which neither changes.                                                  *)
Surroundings == (\E p \in Policies : SetPolicy(p)) \/ Change \/ FlipSwitch
Evaluations == \/ Surroundings
               \/ \E s \in Session : \/ Evaluate(s) \/ Record(s)
                                     \/ CommitDecision(s) \/ CrashEvaluation(s)
Deliveries == \/ Surroundings
              \/ \E b \in BOOLEAN : Decide(b) \/ Deliver(b)
              \/ Revalidate
Next == Evaluations \/ Deliveries

Spec == Init /\ [][Next]_vars

-----------------------------------------------------------------------------
(* Whatever is switched off, paid, disputed, changed or redirected between *)
(* the decision and the last check stops the e-mail: "global + tenant      *)
(* switches evaluated on every decision and revalidation", "case version,  *)
(* payment/dispute and recipient revalidation" (the threat model).         *)
SentSafely ==
    \A m \in sent :
        /\ m.to = m.check.case /\ m.check.case.troubles = {}
        /\ ~ m.check.switch /\ ~ m.check.policy.kill_switch
        /\ m.check.policy.mode \in {"canary", "enabled"}
        /\ m.check.policy.mode = "canary" => Bucket < m.check.policy.canary

(* A decision is recorded once per case version and policy version, with   *)
(* one audit entry, and is the one its policy gives: evaluations that      *)
(* overlap, with a policy change between them, leave no second record.     *)
DecisionsRecordedOnce ==
    \A k \in DecisionKeys :
        /\ db[k].audit = (IF db[k].disposition = "none" THEN 0 ELSE 1)
        /\ db[k].disposition # "none" =>
              db[k].disposition = (IF policies[k[2]].mode = "shadow" THEN "SHADOW_BLOCKED" ELSE "BLOCKED")
=============================================================================
