---------------------------- MODULE PaymentRules ----------------------------
(***************************************************************************)
(* Payment rules: their creation, their publication by a second person     *)
(* under a row lock, and the simulation of a list of rules, which keeps no *)
(* state: the conflict detection and evaluation of domain/payment_rules.py *)
(* as operators.  Dates are numbers; a rule without an expiry expires on   *)
(* the day Forever.  The definitions are ones RuleDefinition accepts.      *)
(***************************************************************************)
EXTENDS ReadCommitted

CONSTANTS Users, Customers,
          Definitions, \* records [type, scope, priority, from, to, value, version]
          Drafts,      \* those that are created as rules
          Days,        \* the days a simulation may ask about
          RuleIds      \* bound: the ids of the rules that may be created

VARIABLE publishing    \* publishing[s]: the request of session s and how far it is
vars == <<db, work, locks, publishing>>

Forever == 1000
Absent == [status |-> "ABSENT"]
Idle == [at |-> "idle"]

Init ==
    /\ db = [r \in RuleIds |-> Absent]
    /\ work = [s \in Session |-> Nothing]
    /\ locks = [s \in Session |-> {}]
    /\ publishing = [s \in Session |-> Idle]

(* The unique key (tenant, customer, type, version): rules for no customer *)
(* in particular, {} here, never collide, because NULLs are distinct.      *)
KeyTaken(customer, d) ==
    \E r \in RuleIds : /\ db[r] # Absent /\ customer # {} /\ db[r].customer = customer
                       /\ <<db[r].rule.type, db[r].rule.version>> = <<d.type, d.version>>
Create(r, customer, d, user) ==
    /\ db[r] = Absent
    /\ ~ KeyTaken(customer, d)
    /\ db' = [db EXCEPT ![r] = [status |-> "DRAFT", customer |-> customer, rule |-> d,
                                creator |-> user, publisher |-> {}]]
    /\ UNCHANGED <<work, locks, publishing>>

Begin(s, r, user) ==
    /\ publishing[s] = Idle
    /\ publishing' = [publishing EXCEPT ![s] = [at |-> "lock", rule |-> r, user |-> user]]
    /\ UNCHANGED store

Ended(s) == publishing' = [publishing EXCEPT ![s] = Idle]
Publishable(row, user) == row # Absent /\ row.creator # user /\ row.status = "DRAFT"

\* Mutant: the row is read without FOR UPDATE.
Unlocked(s, r) == TRUE
Lockable(s, r) == Free(s, r)
LockRule(s) ==
    LET request == publishing[s]
        row == Seen(s, request.rule)
    IN /\ request.at = "lock"
       /\ Lockable(s, request.rule)
       /\ IF Publishable(row, request.user)
          THEN /\ Statement(s, {request.rule},
                            Write(request.rule, [row EXCEPT !.status = "PUBLISHED",
                                                            !.publisher = {request.user}]))
               /\ publishing' = [publishing EXCEPT ![s].at = "commit"]
          ELSE Rollback(s) /\ Ended(s)

CommitPublication(s) == publishing[s].at = "commit" /\ Commit(s) /\ Ended(s)
Crash(s) == publishing[s] # Idle /\ Rollback(s) /\ Ended(s)

-----------------------------------------------------------------------------
Overlap(a, b) == b.from <= a.to /\ a.from <= b.to
\* Mutant: periods that share one day count as apart.
OverlapBeyondEnds(a, b) == b.from < a.to /\ a.from < b.to
Together(a, b) == Overlap(a, b)
Conflicting(a, b) ==
    /\ <<a.type, a.scope, a.priority>> = <<b.type, b.scope, b.priority>>
    /\ Together(a, b)
    /\ a.value # b.value
Conflicts(rules) == {p \in rules \X rules : Conflicting(p[1], p[2])}

ActiveOn(rules, day) == {d \in rules : d.from <= day /\ day <= d.to}
Precedence == [default |-> 0, customer |-> 1, tenant |-> 2]
(* b is sorted after a, so b wins over a.                                  *)
Outranks(b, a) ==
    \/ Precedence[b.scope] > Precedence[a.scope]
    \/ b.scope = a.scope /\ b.priority < a.priority
    \/ b.scope = a.scope /\ b.priority = a.priority /\ b.version > a.version
(* The rules that can come last of their type: among equals the order of   *)
(* the list decides.                                                       *)
Winners(active) ==
    {d \in active : ~ \E e \in active : e.type = d.type /\ Outranks(e, d)}

Simulated(rules, day) ==
    [refused |-> Conflicts(rules) # {}, winners |-> Winners(ActiveOn(rules, day))]

Next ==
    \/ \E r \in RuleIds, c \in {{}} \union {{x} : x \in Customers}, d \in Drafts, u \in Users :
          Create(r, c, d, u)
    \/ \E s \in Session :
          \/ \E r \in RuleIds, u \in Users : Begin(s, r, u)
          \/ LockRule(s) \/ CommitPublication(s) \/ Crash(s)

Spec == Init /\ [][Next]_vars

-----------------------------------------------------------------------------
(* A rule is published once, by one person who did not write it, whoever   *)
(* else publishes it at the same time; afterwards it never changes.        *)
PublishedForGood ==
    \A r \in RuleIds :
        db'[r].status = "PUBLISHED" =>
            /\ db'[r].creator \notin db'[r].publisher
            /\ db[r].status = "PUBLISHED" => db'[r] = db[r]

(* "Tenant policy outranks customer, which outranks defaults ... version   *)
(* breaks a same-value tie deterministically": a list of rules is refused  *)
(* exactly when on some day two rules in force are equal in all but value; *)
(* an answer does not depend on the order of the list, and a rule in force *)
(* yields only to one of at least its scope.                               *)
Ambiguous(active) ==
    \E d, e \in active : /\ <<d.type, d.scope, d.priority>> = <<e.type, e.scope, e.priority>>
                         /\ d.value # e.value
RulesDecide ==
    \A rules \in SUBSET Definitions :
        /\ Conflicts(rules) # {} <=> \E day \in Days : Ambiguous(ActiveOn(rules, day))
        /\ \A day \in Days :
             LET answer == Simulated(rules, day)
             IN ~ answer.refused =>
                  /\ \A d, e \in answer.winners : d.type = e.type => d.value = e.value
                  /\ \A d \in ActiveOn(rules, day) : \E e \in answer.winners :
                       e.type = d.type /\ Precedence[e.scope] >= Precedence[d.scope]
=============================================================================
